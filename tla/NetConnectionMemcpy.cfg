SPECIFICATION Spec
CONSTANTS
    HEADER_SIZE = 2
    NET_BUFFER_SIZE = 8
    NET_PACKAGE_MAX_SIZE = 2
    RECV_SIZE = 5
    REPLY_SIZE = 2
    SOCK_SNDBUF = 3
    Packages <- MCPackages
    MaxSent = 3
    MemcpyOrders = {"ascending", "descending"}
INVARIANT
    RemainderMovedBack

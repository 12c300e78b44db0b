SPECIFICATION BridgeSpec
CONSTANTS
    NfdsIgnored = FALSE
    HEADER_SIZE = 3
    SocketRoom = 7
    RecvSize = 4
    MaxNotify = 3
PROPERTY
    NotifyWakes

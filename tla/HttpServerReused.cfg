SPECIFICATION Spec
CONSTANTS
    served = served
    unknown = unknown
    r1 = r1
    r2 = r2
    k1 = k1
    k2 = k2
    k3 = k3
    Paths <- MCPaths
    Registered <- MCRegistered
    HasDefault = FALSE
    Requests <- MCRequests
    Connections <- MCConnections
    MaxSends = 3
    MaxStarts = 2
INVARIANT
    RequestsRecorded

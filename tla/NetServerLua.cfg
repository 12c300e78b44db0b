SPECIFICATION ServerSpec
CONSTANTS
    c1 = c1
    bridge = bridge
    Clients <- MCClients
    Bridge <- bridge
    MaxFd = 6
    MaxEvents = 2
    MaxOthers = 1
    Builds = {"linux"}
    FD_SETSIZE = 3
    MaxConnections = 2
    MaxStarts = 2
INVARIANT
    LuaStateThere

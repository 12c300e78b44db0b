SPECIFICATION HelpersSpec
CONSTANTS
    p1 = p1
    p2 = p2
    t1 = t1
    t2 = t2
    a = a
    b = b
    c = c
    NULL = NULL
    Producers <- MCProducers
    Consumers <- MCConsumers
    Items <- MCItems
    Operations = {"Pop", "TryPop", "MoveAll"}
    MaxCalls = 2
    Statements <- MCStatements
    MaxCommands = 3
    FieldNames <- MCFieldNames
    Tables <- MCTables
    NullColumn <- MCNullColumn
    LuaNames = {"on", "off", "one", "half", "minus", "float", "int", "double", "long", "digits", "ip", "nul", "ports", "hosts", "mixed", "empty", "missing"}
    Config <- MCConfig
    Fraction = 2
    FloatLimit = 4
    IntLimit = 8
    ExactLimit = 12
    LongLimit = 20
    Second = 3
    Wrap = 5
    Started = 4
    MaxPass = 3
    Horizon = 19
    Base = 4
    LengthWidth = 2
    Fields <- MCFields
    Size = 10
    MaxFields = 3
    Names <- MCNames
    Values <- MCValues
    HttpPaths <- MCHttpPaths
    MaxParams = 2
    MaxTokens = 9
    MaxDepth = 3
    NfdsIgnored = TRUE
    HEADER_SIZE = 3
    SocketRoom = 7
    RecvSize = 4
    MaxNotify = 4
INVARIANTS
    BridgeKept
    WakeUpsWhole
    EmptyWhenSaidSo
    ReadsEveryRow
    TransactionsHold
    ClearedBefore
    OwnRows
    StackKept
    ConfigRead
    TimeAccurate
    ReadBack
    ParamsArrive
    TableReadable
PROPERTIES
    NotifyWakes
    QueueSpec
    CallsReturn
    TimeHardlyBack

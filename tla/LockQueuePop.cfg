SPECIFICATION Spec
CONSTANTS
    p1 = p1
    p2 = p2
    t1 = t1
    t2 = t2
    a = a
    b = b
    c = c
    NULL = NULL
    Producers <- MCProducers
    Consumers <- MCConsumers
    Items <- MCItems
    Operations = {"Pop", "TryPop", "MoveAll"}
    MaxCalls = 2
INVARIANT
    PopDefined

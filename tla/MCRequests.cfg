SPECIFICATION Spec
CONSTANTS
    Api = api
    Worker = {w1, w2}
    Backends = {"file", "redis", "kafka"}
    BatchSizes = {0, 2}
    PeekMax = 1
    RequestBound = 3
    FaultBound = 1
CHECK_DEADLOCK FALSE
INVARIANTS
    TypeOK
    NoneLostOrRepeated
PROPERTIES
    ImplementsFifo
    EventuallyServed

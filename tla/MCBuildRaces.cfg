SPECIFICATION Spec
CONSTANTS
    Key = {numpy}
    Plan = {plan1}
    NoPlan = NoPlan
    Nodes <- MCNodes
    BatchMax = 1
    LeaseTimeoutOn = TRUE
    AttemptBound = 3
    Worker = {w1, w2}
    Caller = {loop}
    PoolSize = 1
    Faults = TRUE
    MaxRequeueAttempts = 2
    RequeueOnFailure = TRUE
    EnqueueBound = 2
    HandlerBound = 2
SYMMETRY Symmetry
INVARIANTS
    TypeOK
    LeasesAreDistinct

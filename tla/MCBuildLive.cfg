SPECIFICATION FairSpec
CONSTANTS
    Key = {numpy, scipy}
    Plan = {plan1}
    NoPlan = NoPlan
    Nodes <- MCNodes
    BatchMax = 2
    LeaseTimeoutOn = TRUE
    AttemptBound = 1
    Worker = {w1}
    Caller = {loop, trigger}
    PoolSize = 1
    Faults = TRUE
    MaxRequeueAttempts = 1
    RequeueOnFailure = FALSE
    EnqueueBound = 1
    HandlerBound = 1
INVARIANT
    PoolRespected
PROPERTIES
    LeaseEnds
    DrainEnds
    WaitingIsLeased

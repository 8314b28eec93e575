SPECIFICATION FairSpec
CONSTANTS
    Key = {numpy}
    Plan = {plan1}
    NoPlan = NoPlan
    Nodes <- MCNodes
    BatchMax = 1
    LeaseTimeoutOn = TRUE
    AttemptBound = 2
    Worker = {w1}
    Caller = {loop}
    PoolSize = 1
    Faults = FALSE
    MaxRequeueAttempts = 1
    RequeueOnFailure = FALSE
    EnqueueBound = 1
    HandlerBound = 1
PROPERTY
    BuiltIsRecorded

SPECIFICATION QueueSpec
CONSTANTS
    Key = {numpy, scipy}
    Plan = {plan1, plan2}
    NoPlan = NoPlan
    Nodes <- MCNodes
    BatchMax = 1
    LeaseTimeoutOn = TRUE
    AttemptBound = 1
SYMMETRY Symmetry
INVARIANTS
    QueueTypeOK
    StampsFitStatus

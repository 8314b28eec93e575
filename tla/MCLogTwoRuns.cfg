SPECIFICATION Spec
CONSTANTS
    Stream = {run1, run2}
    Viewer = {tab}
    SendCap = 1
    ChanCap = 2
    Limit = 2
    LogChunkMax = 1
    TrimEvery = 2
    Faults = {"stream", "trim", "list"}
    LineBound = 2
    ViewBound = 1
SYMMETRY Symmetry
CHECK_DEADLOCK FALSE
INVARIANTS
    TypeOK
    RunInOrder

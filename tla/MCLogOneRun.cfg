SPECIFICATION FairSpec
CONSTANTS
    Stream = {run1}
    Viewer = {tab}
    SendCap = 1
    ChanCap = 1
    Limit = 2
    LogChunkMax = 1
    TrimEvery = 1
    Faults = {"stream", "list"}
    LineBound = 4
    ViewBound = 2
CHECK_DEADLOCK FALSE
INVARIANTS
    TableBounded
    
PROPERTY
    CloseEnds

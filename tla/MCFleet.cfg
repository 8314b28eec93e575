SPECIFICATION Spec
CONSTANTS
    Posted <- MCPosted
    Env <- MCEnv
    GoodPy <- MCGoodPy
    LoosePy <- MCLoosePy
    CleanTag <- MCCleanTag
    Handlers = {r1, r2}
    Readers = {"drain", "send"}
    Width = 4
    MaxPosts = 2
    MaxFaults = 1
INVARIANTS
    TypeOK
    AlwaysLimited
    AutoWasStored
PROPERTIES
    SettingsReachWorker
    StatusCatchesUp

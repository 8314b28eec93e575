SPECIFICATION Spec
CONSTANTS
    Lower <- MCLower
    Dashed <- MCDashed
    TagsIn <- MCTagsIn
    IdOrder <- MCIdOrder
    Raw <- MCRaw
    Payloads <- MCPayloads
    SeedHints <- MCSeedHints
    Node <- MCNode
    Failures <- MCFailures
    FetchLimit = 3
    PageCap = 2
    OffsetCap = 4
    LogTail = 2
    MaxEdits = 2
    MaxFetches = 1
CHECK_DEADLOCK FALSE
INVARIANTS
    TypeOK
    FetchedAtOneMoment
    GateHolds
    FixChangesJob
    InferredHintRecurs
PROPERTIES
    FetchEnds

SPECIFICATION Spec
CONSTANTS
    Name <- MCName
    NoName = NoName
    Lower <- MCLower
    Norm <- MCNorm
    InputSets <- MCInputSets
    OptionSets <- MCOptionSets
    Answers <- MCAnswers
    Pack <- MCPack
    Rule <- MCRule
    BatchMax = 2
CHECK_DEADLOCK FALSE
INVARIANTS
    TypeOK
    DagInOrder
    FormsAgree
    NothingLeftOut
    LeaseHasJob
    BuiltOnce
    DepsFirst
    BuiltWithDeps

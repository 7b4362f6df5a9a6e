SPECIFICATION Spec
CONSTANTS
    Waits <- AllWaits
    InitMarks = 2
    MaxMarks = 5
INVARIANTS
    ChunksDoNotMatter
    VerdictIsRight
PROPERTIES
    CompletionIsReported
CHECK_DEADLOCK FALSE

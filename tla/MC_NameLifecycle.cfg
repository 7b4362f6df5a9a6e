SPECIFICATION Spec
CONSTANTS
    n1 = n1
    n2 = n2
    n3 = n3
    Creators = {n1, n2, n3}
    MayCrash = TRUE
    Pruning = TRUE
    None = None
INVARIANTS
    OneTerminal
    LiveJournalIsKept
    FailedLeavesNoPane
PROPERTIES
    HistoryIsKept
SYMMETRY Symmetry
CHECK_DEADLOCK FALSE

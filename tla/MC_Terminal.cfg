SPECIFICATION Spec
CONSTANTS
    MaxDim = 10
    MaxComb = 2
    MaxCSI = 16
    MaxString = 14
    MaxParams = 32
    MaxValue = 9999
    Worlds <- MCWorlds
    NoHuman = NoHuman
    PayloadCap = 7
    Boundary <- MCBoundary
    Pieces <- MCPieces
    MaxPieces = 3
    Followers = {f1, f2}
SYMMETRY MCSymmetry
INVARIANTS
    ScreenInvariants
    OnlyScrolledLinesReturn
    RedrawRepaints
    QueriesStayInside
    SplitsDoNotMatter
    MarksAreRight
PROPERTY HumanKeepsUp
CHECK_DEADLOCK FALSE

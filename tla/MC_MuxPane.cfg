SPECIFICATION FairSpec
CONSTANTS
    c1 = c1
    c2 = c2
    Clients = {c1, c2}
    Backlog = 1
    QueueMax = 1
    Worlds <- PaneWorlds
INVARIANTS
    NoTornView
    InputInOrder
PROPERTIES
    EndReachesAll
    CatchesUp
CHECK_DEADLOCK FALSE

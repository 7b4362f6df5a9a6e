SPECIFICATION Spec
CONSTANTS
    c1 = c1
    c2 = c2
    Clients = {c1}
    Backlog = 1
    QueueMax = 0
    Worlds <- ResizeWorld
INVARIANTS
    LastScreenShown
CHECK_DEADLOCK FALSE

SPECIFICATION FairSpec
CONSTANTS
    Conns = {k1, k2}
    Requests = {"new-window", "kill-window", "kill-server"}
    Troubles = {"signal", "accept", "start", "stuck"}
    None = None
INVARIANTS
    IdleLosesNothing
    TableIsTrue
    ListedIsDrained
PROPERTIES
    ShutdownEnds
CHECK_DEADLOCK FALSE

SPECIFICATION FairSpec
CONSTANTS
    Agents = {a1, a2}
    Senders = {}
    NumNotes = 0
    MaxCmds = 3
    Worlds <- OwnWorlds
    None = None
INVARIANTS
    OwnCompletion
    IdleIsOver
PROPERTIES
    SettledIsOver
    StartedIsEnded
CHECK_DEADLOCK FALSE

SPECIFICATION Spec
CONSTANTS
    Agents = {a1, a2}
    Senders = {s1, s2}
    NumNotes = 1
    MaxCmds = 2
    Worlds <- LogWorlds
    None = None
INVARIANTS
    LogIsARecord
    SendLinesPure
    NoteLossExplained
CHECK_DEADLOCK FALSE
SYMMETRY Symmetry

SPECIFICATION Spec
CONSTANTS
    Agents = {a1}
    Senders = {}
    NumNotes = 1
    MaxCmds = 1
    Worlds <- NoteWorld
    None = None
INVARIANTS
    NoNoteLost
CHECK_DEADLOCK FALSE

SPECIFICATION FairWaitSpec
CONSTANTS
    MaxOut = 4
    Worlds <- WaitWorlds
INVARIANTS
    DoneIsNew
PROPERTIES
    AnsweredIsOver
    WakesUp
CHECK_DEADLOCK FALSE

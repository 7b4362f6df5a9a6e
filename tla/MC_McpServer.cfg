SPECIFICATION FairSpec
CONSTANTS
    c1 = c1
    c2 = c2
    c3 = c3
    i1 = i1
    i2 = i2
    Calls = {c1, c2, c3}
    Ids = {i1, i2}
    IdOf <- SharedIds
    Workers = {w1, w2}
    MaxQueued = 1
    MaxCompletions = 1
    None = None
INVARIANTS
    IdNamesItsCall
    NothingSurvives
PROPERTIES
    AnsweredOnce
    CallsEnd
    StopEnds
CHECK_DEADLOCK FALSE

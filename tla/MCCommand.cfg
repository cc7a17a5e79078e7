SPECIFICATION FairSpec
CONSTANTS
    Caller = {c1, c2}
    Tries = 2
    LateTimerWins = TRUE
    MaxCalls = 2
    MaxLinks = 2
    MaxFaults = 2
    WireDepth = 2
INVARIANTS
    AnswerIsOwn
    ExecutedAsOften
    NothingLeftPending
PROPERTIES
    EveryCallEnds
CHECK_DEADLOCK FALSE

SPECIFICATION Spec
CONSTANTS
    Res = 2
    Wrap = 2
    Period = 1
    Prompt = 0
    MaxFlight = 2
    MaxTime = 6
    Faults = 1
INVARIANTS
    TypeOK
    SyncedInTime
PROPERTIES
    DatesAreClose
CHECK_DEADLOCK FALSE

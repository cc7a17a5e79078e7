SPECIFICATION FairSpec
CONSTANTS
    l1 = l1
    l2 = l2
    Link <- MCLink
    Kinds <- MCKinds
    Base <- MCBase
    IdSpace = 2
    Tries = 3
    MaxQueue = 2
INVARIANTS
    ConnectedMeansPumping
PROPERTIES
    EndsAreReported
    PrimingSticks
    PollsEnd
CHECK_DEADLOCK FALSE

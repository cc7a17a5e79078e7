SPECIFICATION FairSpec
CONSTANTS
    WordBits = 2
    Poly <- MCPoly
    MaxPayload = 2
    Body <- MCBody
    QueueDepth = 1
    BurstFrames = 2
    ClockFirst = TRUE
    MaxBursts = 2
    MaxFaults = 1
INVARIANTS
    TypeOK
    IntactFrameIsDelivered
    EveryFrameAccounted
    NoPhantomErrors
PROPERTIES
    ParkedIsReset
CHECK_DEADLOCK FALSE

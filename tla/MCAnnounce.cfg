SPECIFICATION FairSpec
CONSTANTS
    NumChunks = 2
    TxDepth = 2
    UpDepth = 1
    DownDepth = 1
    MaxFaults = 2
INVARIANTS
    TypeOK
    QuietOnlyAfterHeard
    CleanRoundIsComplete
PROPERTIES
    AnnounceReachesStation
CHECK_DEADLOCK FALSE

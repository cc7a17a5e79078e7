SPECIFICATION FairSpec
CONSTANTS
    NumChannels = 2
    SeqSpace = 4
    PerFrame = 2
    MaxBacklog = 3
    QueueDepth = 3
    AckDepth = 2
    MaxTicks = 3
    MaxOthers = 2
    MaxFaults = 2
INVARIANTS
    TypeOK
    NothingVanishes
    CommittedInOrder
    FirstBootAckIsDurable
PROPERTIES
    EverySampleSettles
CHECK_DEADLOCK FALSE

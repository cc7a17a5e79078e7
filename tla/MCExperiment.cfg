SPECIFICATION FairSpec
CONSTANTS
    Specs <- MCSpecs
    BurstTicks = 2
    BacklogDepth = 2
    OutboxDepth = 3
    MaxOps = 3
    MaxRuns = 2
    Horizon = 3
INVARIANTS
    TypeOK
    SamplesFiledUnderTheirRun
    TriggerDebounced
PROPERTIES
    TimedRunsAreClosed
CHECK_DEADLOCK FALSE

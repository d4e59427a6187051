SPECIFICATION FairSpec
CONSTANTS
    MaxTicks = 2
    Manual = {9}
    Limit = 1
    BackoffLimit = 1
    PromptJobs = TRUE
    Removals = TRUE
    MaxFaults = 2
CONSTRAINT Scenarios
INVARIANT TypeOK
INVARIANT OneRunPerTick
PROPERTY PrunesOldest
PROPERTY ScheduleSettles
CHECK_DEADLOCK FALSE

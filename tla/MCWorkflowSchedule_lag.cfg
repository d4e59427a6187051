SPECIFICATION Spec
CONSTANTS
    MaxTicks = 1
    Manual = {}
    Limit = 0
    BackoffLimit = 1
    PromptJobs = FALSE
    Removals = FALSE
    MaxFaults = 0
INVARIANT RecoversTruthfully
CHECK_DEADLOCK FALSE

SPECIFICATION FairSpec
CONSTANTS
    Sessions = {1, 2, 3}
    NoSession = 0
    Nodes = {n1}
    Runs <- MixedRuns
    Deletes = TRUE
    MaxVersions = 6
    MaxCrashes = 1
    MaxFaults = 1
CONSTRAINT Scenarios
INVARIANT TypeOK
INVARIANT PromptOnce
INVARIANT NothingRunsOn
PROPERTY ImplementsLifecycle
PROPERTY RunSettles
CHECK_DEADLOCK FALSE

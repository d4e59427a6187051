SPECIFICATION Spec
CONSTANTS
    Sessions = {1, 2}
    NoSession = 0
    Nodes = {}
    Runs <- ManualRuns
    Deletes = FALSE
    MaxVersions = 0
    MaxCrashes = 0
    MaxFaults = 0
INVARIANT GatewayErrorReported
CHECK_DEADLOCK FALSE

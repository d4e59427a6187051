CONSTANTS
    Proc = {p1, p2}
    None = None
    MaxInputs = 1
    MaxAttempts = 2
    MaxFaults = 1
    MaxStops = 1
    MaxLosses = 0
    Origins = {"user", "background"}
    Direct = {}
SPECIFICATION FairSpec
PROPERTY QueueSettles
CHECK_DEADLOCK FALSE

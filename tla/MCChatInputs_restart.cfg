CONSTANTS
    Proc = {p1, p2}
    None = None
    MaxInputs = 1
    MaxAttempts = 1
    MaxFaults = 0
    MaxStops = 1
    MaxLosses = 0
    Origins = {"background"}
    Direct = {}
SPECIFICATION Spec
SYMMETRY Symmetry
PROPERTIES
    NoBackgroundRestart
CHECK_DEADLOCK FALSE

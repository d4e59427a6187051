SPECIFICATION Spec
CONSTANTS
    Proc = {p1, p2}
    None = None
    MaxInputs = 2
    MaxAttempts = 3
    MaxFaults = 2
    MaxStops = 1
    MaxLosses = 1
    Origins = {"user", "background"}
    Direct = {d1}
SYMMETRY Symmetry
CONSTRAINT Scenarios
INVARIANTS
    TypeOK
    AtMostOnce
    NoGhost
    InOrder
PROPERTIES
    StopHolds
    NoInjection
    ImplementsMailbox
CHECK_DEADLOCK FALSE

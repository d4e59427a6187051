SPECIFICATION Spec
CONSTANTS
    Workers = {w1, w2}
    None = None
    MaxOps = 2
    Actions = {"commit", "push", "pull", "commit_push", "commit_push_pr"}
    Staged = {TRUE, FALSE}
    Feature = {TRUE, FALSE}
    MaxEdits = 1
    MaxPushes = 1
    MaxFaults = 1
    MaxLosses = 1
SYMMETRY WorkerSymmetry
CONSTRAINT Scenarios
INVARIANT TypeOK
INVARIANT CommitsReviewed
INVARIANT Truthful
PROPERTY LocalKept
PROPERTY RemoteKept
PROPERTY ImplementsLedger
CHECK_DEADLOCK FALSE

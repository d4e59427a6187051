CONSTANTS
    Workers = {w1, w2}
    None = None
    MaxOps = 2
    Actions = {"push", "name_branch"}
    Staged = {FALSE}
    Feature = {TRUE}
    MaxEdits = 0
    MaxPushes = 0
    MaxFaults = 1
    MaxLosses = 1

SPECIFICATION FairSpec
PROPERTY OperationsEnd
PROPERTY RenamesTemporary
CHECK_DEADLOCK FALSE

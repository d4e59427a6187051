SPECIFICATION FairSpec
CONSTANTS
    Workers = {w1, w2}
    Operations = {1, 2}
    Branches = {b1, b2}
    NoBranch = none
    Tokens = {1, 2, 3}
    MaxRemovals = 1
    MaxFaults = 1
CONSTRAINT Scenarios
INVARIANT NeverStale
PROPERTY NeverBack
PROPERTY CatchesUp
CHECK_DEADLOCK FALSE

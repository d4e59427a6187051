SPECIFICATION FairSpec
CONSTANTS
    BatchSize = 3
    Capacity = 2
    MaxEvents = 4
    MaxFaults = 1
CONSTRAINT Scenarios
INVARIANT TypeOK
INVARIANT OnlyInvalidDiscarded
INVARIANT NoDuplicates
INVARIANT Bounded
INVARIANT StoredInOrder
PROPERTY SinkSettles
CHECK_DEADLOCK FALSE

CONSTANTS
    w1 = w1
    w2 = w2
    Workers <- MCWorkers
    Cleaners = {c1}
    None = None
    N = 2
    Concurrencies = {1, 2}
    Budget <- MCBudget
SPECIFICATION Spec
CONSTRAINT Scenario
CHECK_DEADLOCK FALSE
INVARIANTS
    TypeOK
    Serial
    EndsQuietly
PROPERTIES
    StartedOnce
    JudgmentsKept
    EvaluationEnds

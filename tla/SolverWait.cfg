SPECIFICATION Spec
CONSTANTS
    Workers = {w1, w2, w3}
    ExpectedWorkerCount = 2
    CycleCount = 2
    MaxCalls = 3
INVARIANTS
    WaitFindsEvolution
CHECK_DEADLOCK FALSE

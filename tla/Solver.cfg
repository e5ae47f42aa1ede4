SPECIFICATION FairSpec
CONSTANTS
    Workers = {w1, w2}
    ExpectedWorkerCount = 1
    CycleCount = 2
    MaxCalls = 4
INVARIANTS
    WaitedResultsAreFinal
PROPERTIES
    WaitForWorkersReturns
    CompletionReturns
    NothingInterrupted
    HintsAreUsedOnce
CHECK_DEADLOCK FALSE

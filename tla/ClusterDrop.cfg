SPECIFICATION Spec
CONSTANTS
    Workers = {w1, w2}
    Islands = {i1, i2}
    NoWorker = NoWorker
    NoWork = NoWork
    MaxCycles = 2
    MaxCrashes = 0
    MaxDrops = 1
INVARIANTS
    ResultsMatchAllocation
CHECK_DEADLOCK FALSE

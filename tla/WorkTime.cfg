SPECIFICATION Spec
CONSTANTS
    Workers = {w1, w2}
    NoWorker = NoWorker
    Algorithms = 1
    ExpectedWorkerCount = 2
    WorkSizes = {3}
    Populations = {17}
    MinPopSizes = {0}
    MaxWorks = 2
    MaxLeaves = 1
    MaxTime = 3
SYMMETRY Symmetry
INVARIANTS
    WorkTimeWasSpent
CHECK_DEADLOCK FALSE

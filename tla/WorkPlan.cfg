SPECIFICATION Spec
CONSTANTS
    Workers = {w1, w2, w3}
    NoWorker = NoWorker
    Algorithms = 2
    ExpectedWorkerCount = 2
    WorkSizes = {3, 7}
    Populations = {17}
    MinPopSizes = {0, 6}
    MaxWorks = 3
    MaxLeaves = 1
    MaxTime = 3
SYMMETRY Symmetry
INVARIANTS
    MeasuredTimeIsReal
    PlannedWorkersAreRecorded
    PreferredWorkersDiffer
    PlanCoversPopulation
    FasterWorkersGetMore
CHECK_DEADLOCK FALSE

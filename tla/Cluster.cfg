SPECIFICATION Spec
CONSTANTS
    Workers = {w1, w2}
    Islands = {i1, i2}
    NoWorker = NoWorker
    NoWork = NoWork
    MaxCycles = 2
    MaxCrashes = 2
    MaxDrops = 1
SYMMETRY Symmetry
CONSTRAINT OneKindOfFault
INVARIANTS
    TypeOK
    WorkConservation
    RegisteredWorkers
    WorkInOnePlace
    AllocationIsServed
    SessionsAgree
    OneThreadAtATime
    ServerSurvives
    ResultsBelongToIsland
CHECK_DEADLOCK FALSE

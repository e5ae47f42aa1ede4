SPECIFICATION Spec
CONSTANTS
    Libs = {l1, l2}
    FilesCap = 1
    HashCap = 2
    NoFile = NoFile
    MaxVersion = 2
    MaxCrashes = 1
INVARIANTS
    TypeOK
    BrokenIsNeverLoaded
    WorkerRunsSentVersion
    ControllerKeepsLibraries
    WorkerCachesAgree
CHECK_DEADLOCK FALSE

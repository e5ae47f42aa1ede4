SPECIFICATION FairSpec
CONSTANTS
    NoLogger = NoLogger
    Problems = 2
    Algorithms = 2
INVARIANTS
    TypeOK
    LoggerInUseIsAlive
    FailureIsOnDisk
    ReportsAreComplete
PROPERTIES
    DestructorsReturn

SPECIFICATION FairSpec
CONSTANTS
    Workers = {w1, w2}
    Islands = {i1, i2}
    NoWorker = NoWorker
    NoWork = NoWork
    MaxCycles = 1
    MaxCrashes = 2
    MaxDrops = 0
PROPERTIES
    ImplementsService
    EveryCallReturns
    LibraryRequestsReturn

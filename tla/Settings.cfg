SPECIFICATION Spec
CONSTANTS
    Threads = {main, server}
    Owner = main
    Changers = {server}
    Blocks = 2
    Absent = Absent
    Hole = Hole
    MaxChanges = 3
    MaxCrashes = 2
INVARIANTS
    TypeOK
    LoneSaveKeepsPreviousVersion
    CleanStopSavesAll
    QuietFileIsComplete
PROPERTIES
    RestartLosesAtMostOneChange
CHECK_DEADLOCK FALSE

SPECIFICATION Spec
CONSTANTS
    Threads = {main, server}
    Owner = main
    Changers = {server}
    Blocks = 2
    Absent = Absent
    Hole = Hole
    MaxChanges = 3
    MaxCrashes = 1
INVARIANTS
    PreviousVersionSaved
CHECK_DEADLOCK FALSE

SPECIFICATION Spec
CONSTANTS
    MaxShare = 8
    MaxMinPopSize = 6
    MaxCores = 2
INVARIANTS
    MinimumIsKept

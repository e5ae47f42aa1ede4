SPECIFICATION Spec
CONSTANTS
    MaxShare = 24
    MaxMinPopSize = 9
    MaxCores = 5
INVARIANTS
    EveryIndividualIsPlaced
    IslandSizesAreEven
    BestIndividualsReturn

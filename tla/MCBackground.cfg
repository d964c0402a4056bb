SPECIFICATION FairSpec
CONSTANTS
    j1 = j1
    j2 = j2
    Jobs = {j1, j2}
    Rounds = 1
    MaxRefused = 2
    MaxLost = 1
    MaxCrashes = 1
CONSTRAINT Bounded
INVARIANTS JobsAreTruthful DrainLeavesNoCallback NothingIsStranded
PROPERTIES DrainEnds
CHECK_DEADLOCK FALSE

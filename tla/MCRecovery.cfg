SPECIFICATION FairSpec
CONSTANTS
    c1 = c1
    c2 = c2
    None = None
    Turns = {1, 2}
    Calls = {c1, c2}
    ToolSteps = 1
    MaxRetries = 1
    MaxCrashes = 2
    MaxFaults = 1
CONSTRAINT Bounded
CHECK_DEADLOCK FALSE
INVARIANTS RecoveryIsTruthful OutputIsAccountedFor NeverReplayed
PROPERTIES NoTurnIsStranded

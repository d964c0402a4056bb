SPECIFICATION FairSpec
CONSTANTS
    o1 = o1
    o2 = o2
    Ops = {o1, o2}
    MaxActivity = 3
CHECK_DEADLOCK FALSE
INVARIANTS AdmissionIsSafe
PROPERTIES IdleClaimIsExclusive WaitersWake

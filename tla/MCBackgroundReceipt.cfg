SPECIFICATION Spec
CONSTANTS
    j1 = j1
    j2 = j2
    Jobs = {j1}
    Rounds = 1
    MaxRefused = 0
    MaxLost = 1
    MaxCrashes = 0
INVARIANTS LostReceiptIsResolved
CHECK_DEADLOCK FALSE

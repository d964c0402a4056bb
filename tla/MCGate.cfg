SPECIFICATION GateFairSpec
CONSTANTS
    a1 = a1
    a2 = a2
    a3 = a3
    f1 = f1
    f2 = f2
    Owners = {a1, a2, a3}
    Reporters = {f1, f2}
    NoFailure = NoFailure
CHECK_DEADLOCK FALSE
INVARIANTS FailureIsOrdered
PROPERTIES GateWakes

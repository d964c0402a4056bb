SPECIFICATION GoalSpec
CONSTANTS
    x = x
    y = y
    k1 = k1
    t1 = t1
    c1 = c1
    c2 = c2
    w1 = w1
    w2 = w2
    Bodies = {x, y}
    Keys = {k1}
    Terminals = {t1}
    Clients = {c1, c2}
    NoKey = NoKey
    MaxSequence = 3
    MaxRevision = 2
    Writers = {w1, w2}
    MaxBudget = 2
    MaxGoal = 5
CONSTRAINT Bounded
SYMMETRY GoalSymmetry
INVARIANTS TablesAgree RoundsAreHonest
PROPERTIES SnapshotsAreRechecked DeliversInOrder

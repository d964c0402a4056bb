SPECIFICATION AuxFairSpec
CONSTANTS
    k1 = k1
    k2 = k2
    c1 = c1
    c2 = c2
    c3 = c3
    Conversations = {k1, k2}
    Calls = {c1, c2, c3}
    Closing = {c1}
    Draining = {k1}
    ProcessTotal = 2
    ProcessGeneral = 1
    ConversationTotal = 2
    ConversationGeneral = 1
    None = None
CONSTRAINT Bounded
INVARIANTS BusyIsReal ClosedIsOver
PROPERTIES NobodyIsForgotten
CHECK_DEADLOCK FALSE

SPECIFICATION FairSpec
CONSTANTS
    k1 = k1  k2 = k2  s1 = s1  s2 = s2  p1 = p1  p2 = p2  p3 = p3
    NoConversation = NoConversation
    Conversations = {k1, k2}
    Sessions = {s1, s2}
    SessionOf <- TwoSessions
    Unborn = {k2}
    Callers = {p1, p2, p3}
    Operations <- Choices
    MaxResident = 1
    Reaps = 1
    Drains = TRUE
    FlightCount = 5
CONSTRAINT Bounded
INVARIANTS SlotsAreTruthful SlotsAreCounted DrainIsComplete RetirementIsProven
PROPERTIES EveryCallReturns IntentIsServed
CHECK_DEADLOCK FALSE

SPECIFICATION FairSpec
CONSTANTS
    i1 = i1
    i2 = i2
    c1 = c1
    c2 = c2
    None = None
    Interactions = {i1, i2}
    Clients = {c1, c2}
CONSTRAINT Bounded
INVARIANTS RendezvousIsSound
PROPERTIES WaitersReturn
CHECK_DEADLOCK FALSE

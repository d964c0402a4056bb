SPECIFICATION LiveSpec
CONSTANTS
    Captures = 2
    Catalogs = 1
    Messages = 1
    Crossings = 1
    Loads = 2
    Records = 1
    MaxEvents = 3
CONSTRAINT Bounded
 
PROPERTIES AttemptsFreezeTheReady DesireSettles WorkIsAdmitted
CHECK_DEADLOCK FALSE

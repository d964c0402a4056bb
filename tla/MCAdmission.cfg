SPECIFICATION LiveSpec
CONSTANTS
    j1 = j1
    Jobs = {j1}
    MaxInbound = 2
    MaxFaults = 3
    MaxRounds = 1
    Clients = {"catalog", "compaction", "schedule", "sender"}
CONSTRAINT Bounded
CHECK_DEADLOCK FALSE
INVARIANTS NoStrandedWork ClosingIsSafe OneConversationOwner FaultsAreBounded
PROPERTIES IdleClaimIsSafe ObligationIsKept InboundIsAnswered DrainCompletes

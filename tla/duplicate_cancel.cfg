SPECIFICATION Spec
CONSTANTS
    Replica = {0, 1, 2}
    Faulty = {}
    F = 0
    PerEpochFaults = FALSE
    MaxEpoch = 1
    Reasons = {"EMERGENCY"}
    Schedule <- ScheduleOne
    ActiveBatches = {0}
    Wrecked = 0
    Primaries = {1}
    Recallable = {1, 2}
    Stragglers = {}
    GossipEnabled = FALSE
    EnableFailover = TRUE
    SuppressedLeaders = {}
    MaxUnchecked = 0
    MaxRotation = 1
INVARIANTS
    LedgerPrefixPerEpoch
CHECK_DEADLOCK FALSE

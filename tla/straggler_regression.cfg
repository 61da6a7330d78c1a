SPECIFICATION Spec
CONSTANTS
    Replica = {0, 1, 2}
    Faulty = {}
    F = 0
    PerEpochFaults = FALSE
    MaxEpoch = 1
    Reasons = {"EMERGENCY"}
    Schedule <- ScheduleAll
    ActiveBatches = {0}
    Wrecked = 0
    Primaries = {1}
    Recallable = {1, 2}
    Stragglers = {2}
    GossipEnabled = TRUE
    EnableFailover = FALSE
    SuppressedLeaders = {}
    MaxUnchecked = 0
    MaxRotation = 0
PROPERTIES
    UndoneOnlyByItsCancel
CHECK_DEADLOCK FALSE

SPECIFICATION Spec
CONSTANTS
    Replica = {0, 1, 2}
    Faulty = {}
    F = 0
    PerEpochFaults = FALSE
    MaxEpoch = 1
    Reasons = {"CRASH"}
    Schedule <- ScheduleOne
    ActiveBatches = {0}
    Wrecked = 0
    Primaries = {1, 2}
    Recallable = {1, 2}
    Stragglers = {}
    GossipEnabled = FALSE
    EnableFailover = FALSE
    SuppressedLeaders = {}
    MaxUnchecked = 0
    MaxRotation = 0
INVARIANTS
    TypeOK
    RecoveryOrderOnlyAfterClear
    ClearedMeansEmpty
    RecoveryCoherent
PROPERTIES
    UndoneOnlyByItsCancel
CHECK_DEADLOCK FALSE

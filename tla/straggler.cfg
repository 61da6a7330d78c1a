SPECIFICATION UntowedSpec
CONSTANTS
    Replica = {0, 1}
    Faulty = {}
    F = 0
    PerEpochFaults = FALSE
    MaxEpoch = 1
    Reasons = {"EMERGENCY"}
    Schedule <- ScheduleAll
    ActiveBatches = {0}
    Wrecked = 0
    Primaries = {1}
    Recallable = {0, 1}
    Stragglers = {0}
    GossipEnabled = TRUE
    EnableFailover = TRUE
    SuppressedLeaders = {0, 1}
    MaxUnchecked = 0
    MaxRotation = 1
INVARIANTS
    TombstonedNotApplied
PROPERTIES
    ViewsAdvance
    CertifiedIncidentIsCancelled
CHECK_DEADLOCK FALSE

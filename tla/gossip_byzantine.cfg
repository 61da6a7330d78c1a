SPECIFICATION Spec
CONSTANTS
    Replica = {0, 1, 2, 3}
    Faulty = {3}
    F = 1
    PerEpochFaults = TRUE
    MaxEpoch = 1
    Reasons = {"EMERGENCY"}
    Schedule <- ScheduleAll
    ActiveBatches = {0}
    Wrecked = 0
    Primaries = {1}
    Recallable = {0, 1, 2, 3}
    Stragglers = {}
    GossipEnabled = TRUE
    EnableFailover = FALSE
    SuppressedLeaders = {}
    MaxUnchecked = 1
    MaxRotation = 0
CONSTRAINT UncheckedHorizon
INVARIANTS
    CancelWitnessed
    AcceptedCertProgresses
    AdoptionSound
    RecoveryAfterCancel
    ExecutorWithinLedger
CHECK_DEADLOCK FALSE

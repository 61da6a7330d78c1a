SPECIFICATION FairSpec
CONSTANTS
    Vehicle = {1, 2, 3}
    Nobody = Nobody
    Timer = {"stop_sign"}
    F = 0
    Batches = 3
    Schedules <- Shapes
    RollbackModes = {TRUE, FALSE}
    Timeouts = TRUE
    Complete = TRUE
INVARIANTS
    TypeOK
    BoxIsShared
PROPERTIES
    NoStartWhileCancelled
    UncoordinatedIsLastResort
    ScheduledCross
CHECK_DEADLOCK FALSE

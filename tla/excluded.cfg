SPECIFICATION Spec
CONSTANTS
    Vehicle = {1, 2, 3}
    Nobody = Nobody
    Timer = {"stop_sign"}
    F = 0
    Batches = 3
    Schedules <- OneByOne
    RollbackModes = {TRUE}
    Timeouts = FALSE
    Complete = FALSE
PROPERTIES
    ExcludedStaysStopped
CHECK_DEADLOCK FALSE

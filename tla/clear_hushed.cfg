CONSTANTS
    R = {0, 1, 2}
    Faulty = {}
    FaultySends = {}
    Members = {0, 1, 3}
    F = 1
    Late = {}
    MaxRetries = 1
    MaxUnmatched = 0
SPECIFICATION Spec
INVARIANTS
    HushHasReason
CHECK_DEADLOCK FALSE

CONSTANTS
    R = {0, 1, 2}
    Faulty = {}
    FaultySends = {}
    Members = {0, 1, 2, 3}
    F = 1
    Late = {}
    MaxRetries = 1
    MaxUnmatched = 0
SPECIFICATION Spec
INVARIANTS
    SeenClearIsEffective
CHECK_DEADLOCK FALSE

CONSTANTS
    R = {0, 1, 2}
    Faulty = {2}
    FaultySends = {}
    Members = {0, 1, 2, 3}
    F = 1
    Late = {}
    MaxRetries = 1
    MaxUnmatched = 0
SPECIFICATION Spec
PROPERTIES
    ClearNeedsNoRound
CHECK_DEADLOCK FALSE

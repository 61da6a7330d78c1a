CONSTANTS
    R = {0, 1, 2}
    Faulty = {2}
    FaultySends = {"CANCEL_ECHO", "CANCEL", "ORDER"}
    Members = {0, 1, 2, 3}
    F = 1
    Late = {1}
    MaxRetries = 1
    MaxUnmatched = 1
SPECIFICATION Spec
CONSTRAINTS FaultyHorizon
INVARIANTS
    HushHasReason
PROPERTIES
    ImplementsEvidence
    EvidenceIsReached
CHECK_DEADLOCK FALSE

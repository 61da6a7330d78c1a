CONSTANTS
    R = {0, 1}
    FaultySets = {{}}
    F = 1
    Truth = "truth"
    Lie = "lie"
    FaultyEpochs = {0}
    Verdicts = {"accept", "wrong", "unseen"}
    LastEpoch = 1
    Recallable = {0, 1}
    MinMembers = 2
    RetriesRunOut = FALSE
SPECIFICATION Spec
INVARIANTS
    OldCertsDoNotAuthorize
CHECK_DEADLOCK FALSE

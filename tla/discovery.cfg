CONSTANTS
    R = {0, 1}
    FaultySets = {{}, {1}}
    F = 1
    Truth = "truth"
    Lie = "lie"
    FaultyEpochs = {0}
    Verdicts = {"accept", "wrong", "unseen"}
    LastEpoch = 1
    Recallable = {0}
    MinMembers = 1
    RetriesRunOut = FALSE
SPECIFICATION Spec
INVARIANTS
    EvidenceIsWitnessed
    VotersAreBound
    OwnCertWasHeard
PROPERTIES
    StoppedVehicleFinishes
CHECK_DEADLOCK FALSE

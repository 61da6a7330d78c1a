CONSTANTS
    R = {0, 1}
    FaultySets = {{}, {1}}
    F = 1
    Truth = "truth"
    Lie = "lie"
    FaultyEpochs = {0}
    Verdicts = {"accept", "wrong", "unseen"}
    LastEpoch = 0
    Recallable = {0}
    MinMembers = 1
    RetriesRunOut = TRUE
SPECIFICATION Spec
PROPERTIES
    StoppedVehicleFinishes
CHECK_DEADLOCK FALSE

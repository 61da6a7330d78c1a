SPECIFICATION Spec
CONSTANTS
    Vehicle = {0, 1, 2}
    Lane <- ThreeLanes
    Direction <- Movements
    Position <- Positions
INVARIANTS
    TypeOK
    NoConflictInBatch
    LaneOrder
    AmbulanceBound
    NoWastedRoom
PROPERTIES
    EverybodyScheduled
CHECK_DEADLOCK FALSE

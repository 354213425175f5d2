CONSTANTS
    MaxXid = 3
    AutocommitPoolBatch = 2
    Frames = {f1, f2}
    MaxCaptures = 1
    MaxPins = 1
    VacuumRetention = 0
SPECIFICATION Spec
SYMMETRY FrameSymmetry
INVARIANTS
    TypeOK
    VisibleWritersFinished
    ReclaimedIsInvisible
    HorizonsCounted
PROPERTY ViewFrozen
CHECK_DEADLOCK FALSE

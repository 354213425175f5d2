CONSTANTS
    Conns = {c1, c2}
    InitialRows = 1
    MaxId = 3
    MaxTombstones = 2
    Serial = TRUE
    Autocommit = TRUE
    RollsBackReleased = FALSE
    MaxXid = 3
    AutocommitPoolBatch = 2
    MaxCaptures = 1
    MaxPins = 0
    VacuumRetention = 0
SPECIFICATION Spec
SYMMETRY ConnSymmetry
INVARIANTS
    TypeOK
    NoLostUpdate
    CommittedStaysReadable
    CapturedStaysVisible
CHECK_DEADLOCK FALSE

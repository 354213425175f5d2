CONSTANTS
    Conns = {c1, c2}
    InitialRows = 1
    MaxId = 3
    MaxTombstones = 0
    Serial = TRUE
    Autocommit = FALSE
    RollsBackReleased = TRUE
    MaxXid = 4
    AutocommitPoolBatch = 2
    MaxCaptures = 1
    MaxPins = 0
    VacuumRetention = 0
SPECIFICATION Spec
SYMMETRY ConnSymmetry
INVARIANT CommittedStaysReadable
CHECK_DEADLOCK FALSE

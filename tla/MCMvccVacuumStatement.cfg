CONSTANTS
    Conns = {c1, c2}
    InitialRows = 1
    MaxId = 3
    MaxTombstones = 1
    Serial = TRUE
    Autocommit = FALSE
    RollsBackReleased = FALSE
    MaxXid = 3
    AutocommitPoolBatch = 2
    MaxCaptures = 1
    MaxPins = 0
    VacuumRetention = 0
SPECIFICATION VacuumSpec
SYMMETRY ConnSymmetry
INVARIANT CommittedStaysReadable
CHECK_DEADLOCK FALSE

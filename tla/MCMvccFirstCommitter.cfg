CONSTANTS
    Conns = {c1, c2}
    InitialRows = 1
    MaxId = 3
    MaxTombstones = 1
    Serial = FALSE
    Autocommit = FALSE
    RollsBackReleased = FALSE
    MaxXid = 2
    AutocommitPoolBatch = 2
    MaxCaptures = 1
    MaxPins = 0
    VacuumRetention = 0
SPECIFICATION Spec
SYMMETRY ConnSymmetry
INVARIANT FirstCommitterWins
CHECK_DEADLOCK FALSE

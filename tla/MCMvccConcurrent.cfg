CONSTANTS
    Conns = {c1, c2}
    InitialRows = 1
    MaxId = 3
    MaxTombstones = 0
    Serial = FALSE
    Autocommit = FALSE
    RollsBackReleased = FALSE
    MaxXid = 3
    AutocommitPoolBatch = 2
    MaxCaptures = 1
    MaxPins = 0
    VacuumRetention = 0
SPECIFICATION FairSpec
INVARIANTS
    CommittedStaysReadable
    CapturedStaysVisible
PROPERTIES
    StatementsEnd
CHECK_DEADLOCK FALSE

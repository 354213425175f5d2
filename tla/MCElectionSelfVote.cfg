CONSTANTS
    Data = {a, b}
    Witnesses = {w}
    CatchingUp = {d}
    RecordsSelfVote = FALSE
    MaxTerm = 1
    MaxLsn = 1
SPECIFICATION Spec
SYMMETRY DataSymmetry
INVARIANT OnePrimaryPerTerm
CHECK_DEADLOCK FALSE

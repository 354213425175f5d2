CONSTANTS
    Data = {a, b}
    Witnesses = {w}
    CatchingUp = {d}
    RecordsSelfVote = TRUE
    MaxTerm = 1
    MaxLsn = 1
SPECIFICATION Spec
SYMMETRY DataSymmetry
INVARIANTS
    TypeOK
    VotesOncePerTerm
    OnePrimaryPerTerm
    ProbesBurnNoTerms
    CoversKnownWatermark
CHECK_DEADLOCK FALSE

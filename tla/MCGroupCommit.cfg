CONSTANTS
    Calls = {c1, c2}
    Modes = {"Strict", "WalDurableGrouped", "Async"}
    Kinds = {"commit", "runtime", "ownership", "sync", "force"}
    Faults = {"sync", "crash"}
SPECIFICATION FairSpec
INVARIANTS
    TypeOK
    AckedIsDurable
    ClaimsOnlySynced
    NoHoles
PROPERTIES
    EveryCallReturns
    TruncationEnds
    IsDurableLog

CONSTANTS
    Instances = {a, b}
    Nobody = nobody
    TTL = 1
    MaxTime = 2
    MaxTerm = 2
    MaxGeneration = 3
SPECIFICATION FairSpec
INVARIANTS
    TypeOK
    LiveLeaseIsPublished
    OneLiveWriter
PROPERTIES
    HandoverIsFenced
    UnfitWriterStops
CHECK_DEADLOCK FALSE

\* Two readers of a stream of up to four bytes in chunks of two.
SPECIFICATION FairSpec
CONSTANTS
    Reader    = {r1, r2}
    ChunkSize = 2
    MaxBytes  = 4
INVARIANTS
    ChunksTile
    NoTornRead
    MetricsExact
PROPERTIES
    ImplementsResult
    ReadersAnswered
    SpoolRemoved
CHECK_DEADLOCK FALSE

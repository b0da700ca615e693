CONSTANTS
    SmallChunk = 3
    BigChunk = 5
    Blck = 2
    CACHE_LINE = 4
    Page = 16
    base = 64
    cores = 3
    compute_read = 32
    compute_store = 2
    Runs <- SmallRuns
SPECIFICATION Spec
INVARIANTS
    EachRowOnce
    TileOrder
    ExpansionExact
    ComputeMatches
    NewEntriesRead
    CopiesApart

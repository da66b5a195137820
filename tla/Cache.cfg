\* Two clients of a cache of two sets and words of three blocks in each.
SPECIFICATION CacheSpec
CONSTANTS
    NumWords = 6
    NumSets = 2
    BlockSizeWords = 1
    HitLatency = 1
    MissPenalty = 2
    Ids = {1, 2}
    MaxAccesses = 4
CHECK_DEADLOCK FALSE
INVARIANTS
    CacheTypeOK
    FillsAreOwned
PROPERTIES
    DirtyEvictionsAreCounted
    ImplementsBlockCache

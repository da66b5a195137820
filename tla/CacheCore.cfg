\* Every program of three instructions of CachePool or of AliasPool, and programs
\* of conflicting blocks, on a core with a data cache.
SPECIFICATION SpecL1D
CONSTANTS
    NumRegs = 3
    MemSize = 6
    HalfRange = 4
    RobCapacity = 4
    RsCapacity <- TwoOfEach
    FuCount <- TwoMemoryUnits
    Latency <- DistinctLatencies
    Pool <- CachePool
    ProgramLength = 3
    Programs <- CachePrograms
    InitialRegisters <- SmallRegisters
    InitialMemories <- SmallMemory
    l1dEnabled = TRUE
    NumSets = 2
    BlockSizeWords = 1
    HitLatency = 1
    MissPenalty = 2
    MaxId = 11
INVARIANTS
    AccessesAreExecuting
    LoadsSeeLatestStore
PROPERTIES
    FollowsCacheProtocol
    CommitsSequentially
    Termination

\* A writeback is counted for a miss that a misprediction then cancels.
SPECIFICATION SpecL1D
CONSTANTS
    NumRegs = 3
    MemSize = 6
    HalfRange = 4
    RobCapacity = 4
    RsCapacity <- TwoOfEach
    FuCount <- TwoMemoryUnits
    Latency <- DistinctLatencies
    Pool <- CachePool
    ProgramLength = 3
    Programs <- CachePrograms
    InitialRegisters <- SmallRegisters
    InitialMemories <- SmallMemory
    l1dEnabled = TRUE
    NumSets = 2
    BlockSizeWords = 1
    HitLatency = 1
    MissPenalty = 2
    MaxId = 11
PROPERTY
    WritebacksEvict

\* Every program of four instructions of MemoryPool, up to the first lost
\* rename: what is committed is what the sequential machine computes.
SPECIFICATION Spec
CONSTANTS
    NumRegs = 3
    MemSize = 3
    HalfRange = 4
    RobCapacity = 4
    RsCapacity <- TwoOfEach
    FuCount <- OneUnit
    Latency <- DistinctLatencies
    Pool <- MemoryPool
    ProgramLength = 4
    Programs <- PoolPrograms
    InitialRegisters <- SmallRegisters
    InitialMemories <- SmallMemory
CONSTRAINT
    NoProducerMeansLatest
PROPERTY
    CommitsSequentially

\* A pending write to R0 is renamed and forwarded like any other.
SPECIFICATION Spec
CONSTANTS
    NumRegs = 3
    MemSize = 3
    HalfRange = 4
    RobCapacity = 3
    RsCapacity <- TwoOfEach
    FuCount <- OneUnit
    Latency <- DistinctLatencies
    Pool <- ZeroPool
    ProgramLength = 3
    Programs <- PoolPrograms
    InitialRegisters <- SmallRegisters
    InitialMemories <- SmallMemory
INVARIANT
    RegisterZeroReadsZero

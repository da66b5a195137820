\* The comment on regProducer does not survive a misprediction.
SPECIFICATION Spec
CONSTANTS
    NumRegs = 3
    MemSize = 3
    HalfRange = 4
    RobCapacity = 3
    RsCapacity <- TwoOfEach
    FuCount <- OneUnit
    Latency <- DistinctLatencies
    Pool <- MixedPool
    ProgramLength = 4
    Programs <- PoolPrograms
    InitialRegisters <- SmallRegisters
    InitialMemories <- SmallMemory
INVARIANT
    NoProducerMeansLatest

\* Every program of four instructions of MixedPool: structural invariants.
SPECIFICATION Spec
CONSTANTS
    NumRegs = 3
    MemSize = 3
    HalfRange = 4
    RobCapacity = 3
    RsCapacity <- TwoOfEach
    FuCount <- OneUnit
    Latency <- DistinctLatencies
    Pool <- MixedPool
    ProgramLength = 4
    Programs <- PoolPrograms
    InitialRegisters <- SmallRegisters
    InitialMemories <- SmallMemory
INVARIANTS
    TypeOK
    CountdownIsCaught
    RobIsWindow
    EveryInstructionHasOneFate
    ResultsAreOwedOnce
    WaitersHaveProducers
    RenameIsYoungestWriter
    UnitsAreConserved
    LsqMatchesRob
    LoadsSeeLatestStore
PROPERTY
    OnlyTheWrongPathIsFlushed

\* Loops, conflicting blocks and every program of three instructions of
\* PredictedPool, each with its cache and under each predictor.
SPECIFICATION SpecSim
CONSTANTS
    NumRegs = 3
    MemSize = 6
    HalfRange = 4
    RobCapacity = 4
    RsCapacity <- TwoOfEach
    FuCount <- TwoMultipliers
    PipelineDepth <- ShallowPipelines
    Latency <- DistinctLatencies
    Pool <- PredictedPool
    ProgramLength = 3
    Programs <- PredictedPrograms
    InitialRegisters <- SmallRegisters
    InitialMemories <- SmallMemory
    l1dEnabled = TRUE
    NumSets = 2
    BlockSizeWords = 1
    HitLatency = 1
    MissPenalty = 2
    MaxId = 40
    PredictorTypes <- AllPredictorTypes
    historyBits = 2
    BranchPcs = {0, 1, 2, 3, 4, 5}
    MaxOutcomes = 40
INVARIANTS
    StagesTakeTheirTime
    OneOfEachACycle
    FlushesFollowMispredictions
    PipelinesShowExecution
    CountersMatchTheRun
    PredictorLearnsResolutions

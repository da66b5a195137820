\* Loops and straight-line programs on the scarcest machine: every run ends and
\* carries the sequential machine to its end.
SPECIFICATION Spec
CONSTANTS
    NumRegs = 3
    MemSize = 3
    HalfRange = 4
    RobCapacity = 2
    RsCapacity <- OneOfEach
    FuCount <- OneUnit
    Latency <- DistinctLatencies
    Pool <- StraightPool
    ProgramLength = 3
    Programs <- LoopAndStraightPrograms
    InitialRegisters <- SmallRegisters
    InitialMemories <- SmallMemory
PROPERTIES
    ImplementsISA
    Termination

------------------------------ MODULE TomasuloMC ------------------------------
(* Small instances of the cycle loop for TLC: three registers of three bits,  *)
(* a memory of three words, scarce units and a small reorder buffer.         *)
EXTENDS TomasuloProperties

CONSTANTS
    Pool,           \* instructions from which pool programs are made
    ProgramLength   \* their length

-----------------------------------------------------------------------------
(* Assembly.  A branch of the pool is given by its offset; in the program it *)
(* has an absolute target.                                                   *)

R(op, rd, rs1, rs2) ==
    [op |-> op, rd |-> rd, rs1 |-> rs1, rs2 |-> rs2, imm |-> 0, target |-> None]
AddI(rd, rs1, imm) ==
    [op |-> "ADDI", rd |-> rd, rs1 |-> rs1, rs2 |-> None, imm |-> imm, target |-> None]
Ld(rd, imm, rs1) ==
    [op |-> "LD", rd |-> rd, rs1 |-> rs1, rs2 |-> None, imm |-> imm, target |-> None]
Sd(rs2, imm, rs1) ==
    [op |-> "SD", rd |-> None, rs1 |-> rs1, rs2 |-> rs2, imm |-> imm, target |-> None]
Branch(op, rs1, rs2, target) ==
    [op |-> op, rd |-> None, rs1 |-> rs1, rs2 |-> rs2, imm |-> 0, target |-> target]

At(i, n) == IF IsBranch(i) THEN [i EXCEPT !.target = n - 1 + i.target] ELSE i

\* Every program of ProgramLength instructions of a pool.
ProgramsOf(pool) ==
    {[n \in 1 .. ProgramLength |-> At(f[n], n)] : f \in [1 .. ProgramLength -> pool]}
PoolPrograms == ProgramsOf(Pool)

\* Slow and fast writers of R1 and R2, memory operations whose addresses come
\* early or late, and branches that skip one instruction: one resolves at once,
\* the other waits for what computes R1 and R2.
MixedPool ==
    {R("MUL", 1, 2, 2), AddI(1, 1, 1), R("FADD", 2, 1, 2), R("FDIV", 2, 2, 1),
     Ld(1, 1, 0), Sd(2, 0, 1), Branch("BNE", 0, 2, 2), Branch("BEQ", 1, 2, 2)}

\* Producers, loads and stores through two base registers and two addresses, and
\* a branch that resolves at once.
MemoryPool ==
    {R("MUL", 1, 2, 2), AddI(1, 1, 1), Sd(1, 0, 2), Sd(2, 2, 0), Ld(1, 0, 2),
     Ld(2, 1, 0), Ld(2, 0, 1), Branch("BNE", 0, 2, 2)}

\* Instructions that name R0 as their destination, and readers of R0.
ZeroPool == {AddI(0, 0, 1), R("ADD", 1, 0, 2), R("MUL", 0, 2, 2), Branch("BNE", 0, 2, 2)}

\* Straight-line work for every unit: RAW chains, queues and units that fill up.
StraightPool ==
    {R("MUL", 1, 2, 2), AddI(1, 1, 1), R("FADD", 2, 1, 2), R("FDIV", 2, 2, 1),
     R("FMUL", 1, 1, 1), Ld(2, 0, 1), Sd(2, 0, 0)}

\* Loops, a skipped store, and jumps to the end and to an undefined label, the
\* last also on a wrong path only.
LoopPrograms ==
    { <<AddI(1, 1, -1), Branch("BNE", 1, 0, 0)>>,
      <<Ld(1, 0, 2), AddI(2, 2, -1), Sd(1, 0, 2), Branch("BNE", 2, 0, 0)>>,
      <<AddI(2, 2, -1), AddI(1, 1, 2), Branch("BNE", 2, 0, 0), Branch("BNE", 1, 0, 5),
        Sd(1, 0, 0), Ld(2, 0, 0)>>,
      <<Sd(2, 0, 0), Ld(1, 0, 0), Branch("BEQ", 1, 2, 4), Sd(1, 1, 0)>>,
      <<Branch("BEQ", 0, 0, None), AddI(1, 1, 1)>>,
      <<AddI(1, 1, 1), Branch("BNE", 2, 2, None), AddI(1, 1, 1)>> }

LoopAndStraightPrograms == LoopPrograms \cup PoolPrograms

-----------------------------------------------------------------------------
(* Configurations                                                            *)

OneOfEach == [rs \in RSTypes |-> 1]
TwoOfEach == [rs \in RSTypes |-> 2]
OneUnit == [u \in FUTypes |-> 1]
DistinctLatencies ==
    [c \in LatencyClasses |->
        CASE c = "int" -> 1 [] c = "mul" -> 4 [] c = "fpAdd" -> 2 [] c = "fpMul" -> 3
          [] c = "fpDiv" -> 5 [] c = "load" -> 2 [] c = "store" -> 1]

SmallRegisters == {[r \in Registers |-> r]}
SmallMemory == {[a \in Addresses |-> a - 2]}
=============================================================================

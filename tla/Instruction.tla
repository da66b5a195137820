----------------------------- MODULE Instruction -----------------------------
(* The instruction set of the simulator: what the parser produces, the       *)
(* reservation station, functional unit and latency class of every opcode,   *)
(* and the value an instruction computes from its operands.  Pure operators, *)
(* shared by the sequential machine and by the out-of-order core.            *)
EXTENDS Integers

CONSTANTS
    NumRegs,    \* registers of RegisterFile (32 in the code)
    MemSize,    \* words of Memory (1024 in the code)
    HalfRange   \* a C++ int holds -HalfRange .. HalfRange-1 (2^31 in the code)

ASSUME NumRegsAssumption == NumRegs \in Nat \ {0}
ASSUME MemSizeAssumption == MemSize \in Nat \ {0}
ASSUME HalfRangeAssumption == HalfRange \in Nat \ {0}

Registers == 0 .. NumRegs - 1
Addresses == 0 .. MemSize - 1
Val == -HalfRange .. HalfRange - 1

None == -1      \* the code's -1: no register, no tag, no target

ArithmeticOps == {"ADD", "SUB", "MUL", "FADD", "FSUB", "FMUL", "FDIV"}
BranchOps == {"BEQ", "BNE"}
OpCodes == ArithmeticOps \cup BranchOps \cup {"ADDI", "LD", "SD"}

RSTypes == {"INT", "MUL", "FP_ADD", "FP_MUL", "LOAD", "STORE"}
FUTypes == {"INT", "MUL", "FP_ADD", "FP_MUL", "MEM"}
LatencyClasses == {"int", "mul", "fpAdd", "fpMul", "fpDiv", "load", "store"}

\* A branch target is an instruction index, one past the last one, or -1 when
\* the label is undefined.
Instructions ==
    [op : OpCodes, rd : Registers \cup {None}, rs1 : Registers,
     rs2 : Registers \cup {None}, imm : Val, target : Nat \cup {None}]

(***************************************************************************)
(* The fields the parser leaves at their defaults for each opcode.         *)
(***************************************************************************)
WellFormed(i) ==
    /\ (i.rd = None) <=> (i.op \in BranchOps \cup {"SD"})
    /\ (i.rs2 = None) <=> (i.op \in {"ADDI", "LD"})
    /\ i.op \notin {"ADDI", "LD", "SD"} => i.imm = 0
    /\ i.op \notin BranchOps => i.target = None

WellFormedInstructions == {i \in Instructions : WellFormed(i)}

writesRegister(i) == i.rd # None
IsMemoryOp(i) == i.op \in {"LD", "SD"}
IsBranch(i) == i.op \in BranchOps

getRSType(op) ==
    CASE op \in {"ADD", "ADDI", "SUB", "BEQ", "BNE"} -> "INT"
      [] op = "MUL" -> "MUL"
      [] op \in {"FADD", "FSUB"} -> "FP_ADD"
      [] op \in {"FMUL", "FDIV"} -> "FP_MUL"
      [] op = "LD" -> "LOAD"
      [] op = "SD" -> "STORE"

getFUType(op) ==
    CASE op \in {"ADD", "ADDI", "SUB", "BEQ", "BNE"} -> "INT"
      [] op = "MUL" -> "MUL"
      [] op \in {"FADD", "FSUB"} -> "FP_ADD"
      [] op \in {"FMUL", "FDIV"} -> "FP_MUL"
      [] op \in {"LD", "SD"} -> "MEM"

latencyClass(op) ==
    CASE op \in {"ADD", "ADDI", "SUB", "BEQ", "BNE"} -> "int"
      [] op = "MUL" -> "mul"
      [] op \in {"FADD", "FSUB"} -> "fpAdd"
      [] op = "FMUL" -> "fpMul"
      [] op = "FDIV" -> "fpDiv"
      [] op = "LD" -> "load"
      [] op = "SD" -> "store"

(***************************************************************************)
(* Machine arithmetic: two's-complement wrap-around and division that      *)
(* truncates toward zero, with FDIV by zero defined as 0.                  *)
(***************************************************************************)
Wrap(n) == ((n + HalfRange) % (2 * HalfRange)) - HalfRange

Magnitude(n) == IF n < 0 THEN -n ELSE n

Quotient(a, b) ==
    IF (a < 0) = (b < 0)
    THEN Magnitude(a) \div Magnitude(b)
    ELSE -(Magnitude(a) \div Magnitude(b))

computeResult(i, vj, vk) ==
    Wrap(CASE i.op \in {"ADD", "FADD"} -> vj + vk
           [] i.op = "ADDI" -> vj + i.imm
           [] i.op \in {"SUB", "FSUB"} -> vj - vk
           [] i.op \in {"MUL", "FMUL"} -> vj * vk
           [] i.op = "FDIV" -> IF vk = 0 THEN 0 ELSE Quotient(vj, vk))

effectiveAddress(i, vj) == Wrap(vj + i.imm)

branchTaken(i, vj, vk) == IF i.op = "BEQ" THEN vj = vk ELSE vj # vk

(***************************************************************************)
(* A load whose address is outside the vector reads whatever is there:     *)
(* Memory::load checks no bound.  A store outside it changes no modelled    *)
(* word.                                                                   *)
(***************************************************************************)
loadValues(m, a) == IF a \in Addresses THEN {m[a]} ELSE Val
memoryAfterStore(m, a, v) == IF a \in Addresses THEN [m EXCEPT ![a] = v] ELSE m
registersAfterWrite(r, i, v) == IF i = 0 THEN r ELSE [r EXCEPT ![i] = v]

(***************************************************************************)
(* What applyProgramSetup can leave: R0 is never written.                  *)
(***************************************************************************)
RegisterFiles == {r \in [Registers -> Val] : r[0] = 0}
Memories == [Addresses -> Val]
=============================================================================

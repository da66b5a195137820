---------------------------- MODULE SequentialISA ----------------------------
(* The abstract machine the simulator promises to its user: the program runs *)
(* one instruction at a time, in order, on a register file and a memory.     *)
(* No code executes this way: the machine is read off computeResult,         *)
(* RegisterFile, Memory and the branch redirection, and the out-of-order     *)
(* core of Tomasulo.tla is checked to implement it at its commit point.      *)
EXTENDS Instruction, Sequences

CONSTANTS
    Programs,           \* set of instruction sequences
    InitialRegisters,   \* register files left by the .REG directives
    InitialMemories     \* memories left by the .MEM directives

VARIABLES
    program, pc,        \* pc counts from 0: the next instruction is program[pc + 1]
    regs, memory

vars == <<program, pc, regs, memory>>

Init ==
    /\ program \in Programs
    /\ pc = 0
    /\ regs \in InitialRegisters
    /\ memory \in InitialMemories

\* The machine has stopped when the pc leaves the program (or is -1, the target
\* of an undefined label).
Fetchable == pc \in 0 .. Len(program) - 1
Current == program[pc + 1]
Vj == regs[Current.rs1]
Vk == IF Current.rs2 = None THEN 0 ELSE regs[Current.rs2]

Arithmetic ==
    /\ Fetchable /\ writesRegister(Current) /\ ~IsMemoryOp(Current)
    /\ regs' = registersAfterWrite(regs, Current.rd, computeResult(Current, Vj, Vk))
    /\ pc' = pc + 1
    /\ UNCHANGED <<program, memory>>

Load ==
    /\ Fetchable /\ Current.op = "LD"
    /\ \E v \in loadValues(memory, effectiveAddress(Current, Vj)) :
          regs' = registersAfterWrite(regs, Current.rd, v)
    /\ pc' = pc + 1
    /\ UNCHANGED <<program, memory>>

Store ==
    /\ Fetchable /\ Current.op = "SD"
    /\ memory' = memoryAfterStore(memory, effectiveAddress(Current, Vj), Vk)
    /\ pc' = pc + 1
    /\ UNCHANGED <<program, regs>>

Branch ==
    /\ Fetchable /\ IsBranch(Current)
    /\ pc' = IF branchTaken(Current, Vj, Vk) THEN Current.target ELSE pc + 1
    /\ UNCHANGED <<program, regs, memory>>

Next == Arithmetic \/ Load \/ Store \/ Branch

Spec == Init /\ [][Next]_vars /\ WF_vars(Next)
=============================================================================

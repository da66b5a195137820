-------------------------- MODULE TomasuloProperties --------------------------
(* What makes the cycle loop of Tomasulo.tla correct: its structures agree   *)
(* with one another at every step of the cycle, and what it commits is what  *)
(* the sequential machine computes.                                          *)
EXTENDS Tomasulo

-----------------------------------------------------------------------------
(* Vocabulary                                                                *)

Slot(n) == (robHead + n) % RobCapacity
Entry(n) == robEntries[Slot(n)]
Window == 0 .. robCount - 1             \* positions in flight, oldest first
InFlight == {Entry(n).id : n \in Window}
InstructionOf(id) == program[statusTable[id].staticPc + 1]
Committed == {id \in DOMAIN statusTable : statusTable[id].committed}
Flushed == {id \in DOMAIN statusTable : statusTable[id].flushed}

-----------------------------------------------------------------------------
(* Types                                                                     *)

Ids == 0 .. nextId - 1
Sources == Tags \cup {None}

ActiveRecords ==
    [instr : WellFormedInstructions, remaining : Nat, executing : BOOLEAN,
     robTag : Tags, predictedTaken : BOOLEAN, qj : Sources, vj : Val, qk : Sources,
     vk : Val, addressComputed : BOOLEAN, hasForwarded : BOOLEAN, forwarded : Val]
LsqRecords ==
    [isStore : BOOLEAN, addressReady : BOOLEAN, address : Val,
     valueReady : BOOLEAN, value : Val]
RobRecords ==
    [busy : BOOLEAN, ready : BOOLEAN, id : Nat \cup {None},
     writesRegister : BOOLEAN, rd : Registers \cup {None}, value : Val,
     writesMemory : BOOLEAN, address : Val, memoryValue : Val]
Messages == [robTag : Tags, rd : Registers, value : Val, order : Nat]
Statuses == [staticPc : Nat, committed : BOOLEAN, flushed : BOOLEAN]

(***************************************************************************)
(* Every variable has the type of the C++ object it models; ids index the  *)
(* status table and tags index the reorder buffer.                         *)
(***************************************************************************)
TypeOK ==
    /\ program \in Seq(WellFormedInstructions)
    /\ pc \in Nat \cup {None} /\ nextId \in Nat
    /\ phase \in {"issue", "execute", "broadcast", "complete", "done"}
    /\ todo \subseteq DOMAIN active
    /\ DOMAIN active \subseteq Ids /\ active \in [DOMAIN active -> ActiveRecords]
    /\ DOMAIN lsq \subseteq Ids /\ lsq \in [DOMAIN lsq -> LsqRecords]
    /\ DOMAIN cdbQueue \subseteq Ids /\ cdbQueue \in [DOMAIN cdbQueue -> Messages]
    /\ nextOrder \in Nat
    /\ robEntries \in [Tags -> RobRecords]
    /\ robHead \in Tags /\ robTail \in Tags /\ robCount \in 0 .. RobCapacity
    /\ regProducer \in [Registers -> Sources]
    /\ busyUnits \in [FUTypes -> Nat] /\ entered \in [FUTypes -> Nat]
    /\ rf \in [Registers -> Val] /\ mem \in [Addresses -> Val]
    /\ statusTable \in [Ids -> Statuses]

-----------------------------------------------------------------------------
(* Safety                                                                    *)

(***************************************************************************)
(* The completion loop tests remainingCycles == 0, so an instruction whose  *)
(* count it missed would count below zero and never complete.  A count of   *)
(* zero is reached only by an executing instruction, after its visit, and   *)
(* is gone when the completion loop has passed it.                          *)
(***************************************************************************)
CountdownIsCaught ==
    \A k \in DOMAIN active : active[k].remaining = 0 =>
        /\ active[k].executing
        /\ \/ phase = "execute" /\ k \notin todo
           \/ phase = "broadcast"
           \/ phase = "complete" /\ k \in todo

(***************************************************************************)
(* The circular buffer: from head to tail lie exactly the busy entries, in  *)
(* program order, whatever mixture of allocations, commits and flushes has  *)
(* wrapped round it (allocateROB, commitROB, flushROB).                     *)
(***************************************************************************)
RobIsWindow ==
    /\ robTail = (robHead + robCount) % RobCapacity
    /\ \A t \in Tags : robEntries[t].busy <=> t \in RobSlots
    /\ \A m, n \in Window : m < n => Entry(m).id < Entry(n).id

(***************************************************************************)
(* An issued instruction is in flight, committed or flushed, and only one  *)
(* of these; everything committed is older than everything in flight, so    *)
(* commits happen in program order and a flush never reaches behind one.    *)
(***************************************************************************)
EveryInstructionHasOneFate ==
    /\ DOMAIN statusTable = InFlight \cup Committed \cup Flushed
    /\ Committed \cap Flushed = {}
    /\ InFlight \cap Flushed = {}
    /\ \A c \in Committed, i \in InFlight : c < i

(***************************************************************************)
(* Exactly one stage owes each unfinished ROB entry its result: the         *)
(* instruction is still active, or its message waits for the bus.  Neither  *)
(* completion, broadcast nor flush loses or duplicates a result, and none   *)
(* is delivered to a slot that has been given to another instruction.       *)
(***************************************************************************)
UnfinishedEntries == {n \in Window : ~Entry(n).ready}

ResultsAreOwedOnce ==
    /\ DOMAIN active \cap DOMAIN cdbQueue = {}
    /\ DOMAIN active \cup DOMAIN cdbQueue = {Entry(n).id : n \in UnfinishedEntries}
    /\ \A k \in DOMAIN active : robEntries[active[k].robTag].id = k
    /\ \A k \in DOMAIN cdbQueue : robEntries[cdbQueue[k].robTag].id = k

(***************************************************************************)
(* A waiting operand waits for an older, unfinished instruction in flight   *)
(* that writes the register it reads.  ROB slots are reused, so a tag kept  *)
(* too long would name a stranger and a tag cleared too early would never   *)
(* be woken (operand capture, broadcastCDB, flush).                         *)
(***************************************************************************)
Awaits(k, tag, reg) ==
    tag # None =>
        /\ robEntries[tag].busy /\ ~robEntries[tag].ready
        /\ robEntries[tag].id < k
        /\ InstructionOf(robEntries[tag].id).rd = reg

WaitersHaveProducers ==
    \A k \in DOMAIN active :
        /\ Awaits(k, active[k].qj, active[k].instr.rs1)
        /\ Awaits(k, active[k].qk, active[k].instr.rs2)

(***************************************************************************)
(* A rename points at the youngest instruction in flight that writes the    *)
(* register, also after commits and flushes (the issue stage, commitROB,    *)
(* flushRegProducers).                                                      *)
(***************************************************************************)
WritersInFlight(r) == {id \in InFlight : InstructionOf(id).rd = r}

RenameIsYoungestWriter ==
    \A r \in Registers : regProducer[r] # None =>
        /\ robEntries[regProducer[r]].id \in WritersInFlight(r)
        /\ \A id \in WritersInFlight(r) : id <= robEntries[regProducer[r]].id

(***************************************************************************)
(* "-1 means the architectural register file currently has the latest      *)
(* value" (the comment on regProducer in Simulator::execute): no writer of  *)
(* a register without a rename is in flight.                                *)
(***************************************************************************)
NoProducerMeansLatest ==
    \A r \in Registers : regProducer[r] = None => WritersInFlight(r) = {}

(***************************************************************************)
(* "R0 is always zero" (applyProgramSetup): an instruction that reads R0,    *)
(* as its first operand or its second, and has it, computes with zero.       *)
(***************************************************************************)
RegisterZeroReadsZero ==
    \A k \in DOMAIN active :
        /\ active[k].instr.rs1 = 0 /\ active[k].qj = None => active[k].vj = 0
        /\ active[k].instr.rs2 = 0 /\ active[k].qk = None => active[k].vk = 0

(***************************************************************************)
(* A functional unit is held by exactly the instructions executing on it:   *)
(* start, completion and flush never leak or free twice a unit, and no unit  *)
(* is ever held by more instructions than its units allow.  A pipeline      *)
(* accepts one instruction a cycle and holds none longer than the longest   *)
(* latency it serves.                                                       *)
(***************************************************************************)
ExecutingOn(u) == {k \in DOMAIN active : active[k].executing /\ FUOf(k) = u}
LongestLatency(u) ==
    IF u = "FP_ADD" THEN Latency["fpAdd"]
    ELSE IF Latency["fpMul"] > Latency["fpDiv"] THEN Latency["fpMul"] ELSE Latency["fpDiv"]
UnitLimit(u) == IF u \in PipelinedFUs THEN FuCount[u] * LongestLatency(u) ELSE FuCount[u]

UnitsAreConserved ==
    \A u \in FUTypes :
        /\ busyUnits[u] = Cardinality(ExecutingOn(u))
        /\ busyUnits[u] <= UnitLimit(u)

(***************************************************************************)
(* The load/store queue holds exactly the memory operations in flight, and  *)
(* a store's queue entry and ROB entry agree on whether and what it writes. *)
(***************************************************************************)
LsqMatchesRob ==
    /\ DOMAIN lsq = {id \in InFlight : IsMemoryOp(InstructionOf(id))}
    /\ \A n \in Window : LET e == Entry(n) IN
         InstructionOf(e.id).op = "SD" =>
            /\ lsq[e.id].isStore
            /\ lsq[e.id].valueReady <=> e.ready
            /\ e.ready => /\ e.writesMemory
                          /\ lsq[e.id].address = e.address
                          /\ lsq[e.id].value = e.memoryValue

(***************************************************************************)
(* Once a load executes, every older store in the queue has a known         *)
(* address, and if any has the load's own the load carries the value of the *)
(* youngest of them: a store whose address or value comes late never finds  *)
(* a younger load already past it (checkLoad).                              *)
(***************************************************************************)
LoadsSeeLatestStore ==
    \A k \in DOMAIN active :
        active[k].instr.op = "LD" /\ active[k].executing =>
            /\ \A j \in OlderStores(k) : lsq[j].addressReady
            /\ SameAddressStores(k) # {} =>
                 /\ active[k].hasForwarded
                 /\ active[k].forwarded = lsq[ForwardingStore(k)].value

-----------------------------------------------------------------------------
(* Action properties                                                         *)

(***************************************************************************)
(* An instruction is flushed only by an older branch in flight that resolves *)
(* against its prediction in that very step: the correct path is never      *)
(* discarded, and a flushed or committed instruction never changes fate.    *)
(***************************************************************************)
MispredictedBefore(id) ==
    \E b \in DOMAIN active :
        /\ b < id /\ IsBranch(active[b].instr)
        /\ active[b].remaining = 0 /\ b \notin DOMAIN active'
        /\ ActualTaken(b) # active[b].predictedTaken

OnlyTheWrongPathIsFlushed ==
    [][/\ Flushed \subseteq Flushed' /\ Committed \subseteq Committed'
       /\ \A id \in Flushed' \ Flushed : id \in InFlight /\ MispredictedBefore(id)]_vars

-----------------------------------------------------------------------------
(* Refinement and liveness                                                   *)

\* The sequential machine stands at the oldest instruction in flight.
CommitPc == IF RobEmpty THEN pc ELSE statusTable[robEntries[robHead].id].staticPc

ISA == INSTANCE SequentialISA WITH pc <- CommitPc, regs <- rf, memory <- mem

(***************************************************************************)
(* Each commit is a step of the sequential machine on the architectural     *)
(* registers and memory, and no other step of the cycle loop changes them.  *)
(***************************************************************************)
CommitsSequentially == ISA!Init /\ [][ISA!Next]_(ISA!vars)

\* The whole sequential machine, its progress included.
ImplementsISA == ISA!Spec

\* The loop ends: nothing in flight waits for ever (the condition of the loop in
\* Simulator::execute).
Termination == <>(phase = "done")
=============================================================================

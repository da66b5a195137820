------------------------------ MODULE Tomasulo ------------------------------
(* The cycle loop of Simulator::execute: in-order issue with register        *)
(* renaming, out-of-order execution under structural and memory-order        *)
(* hazards, in-order commit from a circular reorder buffer, one common data  *)
(* bus broadcast a cycle, and recovery from mispredicted branches.           *)
(*                                                                           *)
(* An instruction in flight is known by its dynamic id, as in the code.  The *)
(* code's lists hold their entries in ascending order of id and every loop   *)
(* over one visits it in that order, so each list is a function from ids:    *)
(* active (activeInstructions), lsq (its busy entries) and statusTable.  The *)
(* CDB queue is in order of arrival, which `order' records.                  *)
(*                                                                           *)
(* A cycle is a sequence of steps: issue; one visit per instruction in       *)
(* flight (execute); commit; broadcast; one visit per finished instruction   *)
(* (complete).  The branch predictor is any choice of a direction, and the   *)
(* L1 data cache is off, its default.                                        *)
EXTENDS Instruction, Sequences, FiniteSets, Functions

CONSTANTS
    RobCapacity,        \* ArchitectureConfig::robCapacity
    RsCapacity,         \* entries of each reservation station or buffer
    FuCount,            \* units, or pipelines, of each functional unit
    Latency,            \* cycles of each latency class
    Programs,           \* the programs that may be run
    InitialRegisters,   \* register files the .REG directives leave
    InitialMemories     \* memories the .MEM directives leave

ASSUME RobCapacityAssumption == RobCapacity \in Nat \ {0}
ASSUME RsCapacityAssumption == RsCapacity \in [RSTypes -> Nat \ {0}]
ASSUME FuCountAssumption == FuCount \in [FUTypes -> Nat \ {0}]
ASSUME LatencyAssumption == Latency \in [LatencyClasses -> Nat \ {0}]
ASSUME ProgramsAssumption ==
    \A p \in Programs : p \in Seq(WellFormedInstructions)
ASSUME SetupAssumption ==
    InitialRegisters \subseteq RegisterFiles /\ InitialMemories \subseteq Memories

VARIABLES
    program,        \* the instructions being run
    pc,             \* index of the next instruction to issue, from 0
    nextId,         \* nextDynamicId
    phase,          \* stage of the cycle the loop has reached
    todo,           \* ids the current loop over active has yet to visit
    active,         \* id -> instruction in flight: waiting or executing
    lsq,            \* id -> busy load/store queue entry
    cdbQueue,       \* id -> result waiting for the common data bus
    nextOrder,      \* arrival number of the next message of the CDB queue
    robEntries, robHead, robTail, robCount,     \* circularROB
    regProducer,    \* register -> ROB slot that will produce it, or None
    busyUnits,      \* functional unit -> FunctionalUnit::busyUnits
    entered,        \* functional unit -> occupied first stages of its pipelines
    rf, mem,        \* architectural registers and memory
    statusTable     \* id -> what became of the instruction

fetchVars == <<program, pc, nextId>>
robVars == <<robEntries, robHead, robTail, robCount>>
cdbVars == <<cdbQueue, nextOrder>>
unitVars == <<busyUnits, entered>>
archVars == <<rf, mem>>
vars == <<fetchVars, phase, todo, active, lsq, cdbVars, robVars, regProducer,
          unitVars, archVars, statusTable>>

Tags == 0 .. RobCapacity - 1
PipelinedFUs == {"FP_ADD", "FP_MUL"}

EmptyEntry ==
    [busy |-> FALSE, ready |-> FALSE, id |-> None,
     writesRegister |-> FALSE, rd |-> None, value |-> 0,
     writesMemory |-> FALSE, address |-> None, memoryValue |-> 0]

EmptyFunction == [k \in {} |-> k]
Extend(f, k, v) == [x \in DOMAIN f \cup {k} |-> IF x = k THEN v ELSE f[x]]
Remove(f, k) == Restrict(f, DOMAIN f \ {k})
\* fault: the flush keeps one entry too many
UpToNext(f, k) == Restrict(f, {x \in DOMAIN f : x <= k + 1})
UpTo(f, k) == Restrict(f, {x \in DOMAIN f : x <= k})    \* younger entries dropped

getLatency(op) == Latency[latencyClass(op)]
FUOf(k) == getFUType(active[k].instr.op)

Init ==
    /\ program \in Programs
    /\ pc = 0 /\ nextId = 0
    /\ phase = "issue" /\ todo = {}
    /\ active = EmptyFunction /\ lsq = EmptyFunction /\ statusTable = EmptyFunction
    /\ cdbQueue = EmptyFunction /\ nextOrder = 0
    /\ robEntries = [t \in Tags |-> EmptyEntry]
    /\ robHead = 0 /\ robTail = 0 /\ robCount = 0
    /\ regProducer = [r \in Registers |-> None]
    /\ busyUnits = [u \in FUTypes |-> 0] /\ entered = [u \in FUTypes |-> 0]
    /\ rf \in InitialRegisters /\ mem \in InitialMemories

-----------------------------------------------------------------------------
(* Start of a cycle and ISSUE.                                               *)

Fetchable == pc \in 0 .. Len(program) - 1
NextInstruction == program[pc + 1]
RobEmpty == robCount = 0
\* fault: full() notices one entry late
RobFullTooLate == robCount > RobCapacity
RobFull == robCount = RobCapacity

Running ==
    Fetchable \/ DOMAIN active # {} \/ DOMAIN cdbQueue # {} \/ ~RobEmpty

countRSEntries(rs) ==
    Cardinality({k \in DOMAIN active :
                    ~active[k].executing /\ getRSType(active[k].instr.op) = rs})

RSFull(i) == countRSEntries(getRSType(i.op)) >= RsCapacity[getRSType(i.op)]

\* allocateROB at the tail
EntriesAllocated ==
    [robEntries EXCEPT ![robTail] = [EmptyEntry EXCEPT !.busy = TRUE, !.id = nextId]]

\* The value of a source register is in the register file, in a finished but
\* uncommitted ROB entry, or still to come from the ROB slot renamed to it.
Pending(entries, r) ==
    /\ r # None
    /\ regProducer[r] # None
    /\ ~(entries[regProducer[r]].ready /\ entries[regProducer[r]].writesRegister)

OperandTag(entries, r) == IF Pending(entries, r) THEN regProducer[r] ELSE None

\* fault: a finished ROB entry is not read, only the register file
OperandValueFromFile(entries, r) == IF r = None THEN 0 ELSE rf[r]

OperandValue(entries, r) ==
    IF r = None \/ Pending(entries, r) THEN 0
    ELSE IF regProducer[r] = None THEN rf[r]
    ELSE entries[regProducer[r]].value

IssuedInstruction(i, predictedTaken) ==
    [instr |-> i, remaining |-> getLatency(i.op), executing |-> FALSE,
     robTag |-> robTail, predictedTaken |-> predictedTaken,
     qj |-> OperandTag(EntriesAllocated, i.rs1),
     vj |-> OperandValue(EntriesAllocated, i.rs1),
     qk |-> OperandTag(EntriesAllocated, i.rs2),
     vk |-> OperandValue(EntriesAllocated, i.rs2),
     addressComputed |-> FALSE, hasForwarded |-> FALSE, forwarded |-> 0]

NewLsqEntry(i) ==
    [isStore |-> i.op = "SD", addressReady |-> FALSE, address |-> 0,
     valueReady |-> FALSE, value |-> 0]

NewStatus == [staticPc |-> pc, committed |-> FALSE, flushed |-> FALSE]

\* The top of the loop: advancePipeline clears the first stages.  The
\* instruction issued this cycle is skipped by this cycle's execute loop.
StartCycle ==
    /\ phase = "issue" /\ Running
    /\ phase' = "execute"
    /\ todo' = DOMAIN active
    /\ entered' = [u \in FUTypes |-> 0]

Issue(predictedTaken) ==
    /\ StartCycle
    /\ Fetchable /\ ~RobFull /\ ~RSFull(NextInstruction)
    /\ LET i == NextInstruction IN
         /\ predictedTaken => IsBranch(i)
         /\ active' = Extend(active, nextId, IssuedInstruction(i, predictedTaken))
         /\ lsq' = IF IsMemoryOp(i) THEN Extend(lsq, nextId, NewLsqEntry(i)) ELSE lsq
         /\ regProducer' = IF writesRegister(i)
                           THEN [regProducer EXCEPT ![i.rd] = robTail]
                           ELSE regProducer
         /\ pc' = IF predictedTaken THEN i.target ELSE pc + 1
    /\ robEntries' = EntriesAllocated
    /\ robTail' = (robTail + 1) % RobCapacity
    /\ robCount' = robCount + 1
    /\ statusTable' = Extend(statusTable, nextId, NewStatus)
    /\ nextId' = nextId + 1
    /\ UNCHANGED <<program, robHead, cdbVars, busyUnits, archVars>>

StallIssue ==
    /\ StartCycle
    /\ Fetchable => RobFull \/ RSFull(NextInstruction)
    /\ UNCHANGED <<fetchVars, active, lsq, cdbVars, robVars, regProducer,
                   busyUnits, archVars, statusTable>>

Finish ==
    /\ phase = "issue" /\ ~Running
    /\ phase' = "done"
    /\ UNCHANGED <<fetchVars, todo, active, lsq, cdbVars, robVars, regProducer,
                   unitVars, archVars, statusTable>>

-----------------------------------------------------------------------------
(* EXECUTE: visit every instruction in flight, oldest first.                 *)

Oldest(k, S) == k \in S /\ \A j \in S : k <= j

Address(k) == effectiveAddress(active[k].instr, active[k].vj)

\* A store's address is known as soon as its base register is; a load's is
\* computed when it has no operand to wait for.
OperandsReady(k) == active[k].qj = None /\ active[k].qk = None
AddressKnown(k) ==
    /\ IsMemoryOp(active[k].instr)
    /\ IF active[k].instr.op = "SD" THEN active[k].qj = None ELSE OperandsReady(k)

markAddressReady(k) ==
    IF AddressKnown(k) /\ ~active[k].addressComputed
    THEN [lsq EXCEPT ![k].addressReady = TRUE, ![k].address = Address(k)]
    ELSE lsq

\* LoadStoreQueue::checkLoad
OlderStores(k) == {j \in DOMAIN lsq : j < k /\ lsq[j].isStore}
SameAddressStores(k) == {j \in OlderStores(k) : lsq[j].address = Address(k)}

\* fault: an unknown store address does not stop a younger load
LoadIgnoresUnknownAddresses(k) == \A j \in SameAddressStores(k) : lsq[j].valueReady

LoadMayExecute(k) ==
    /\ \A j \in OlderStores(k) : lsq[j].addressReady
    /\ \A j \in SameAddressStores(k) : lsq[j].valueReady

\* fault: the scan stops at the oldest matching store
FirstMatchingStore(k) ==
    CHOOSE j \in SameAddressStores(k) : \A other \in SameAddressStores(k) : j <= other

ForwardingStore(k) ==
    CHOOSE j \in SameAddressStores(k) : \A other \in SameAddressStores(k) : other <= j

PassesLoadCheck(k) == active[k].instr.op = "LD" => LoadMayExecute(k)

\* fault: one instruction more than there are units
fuAvailableOneMore(u) ==
    IF u \in PipelinedFUs THEN entered[u] <= FuCount[u] ELSE busyUnits[u] <= FuCount[u]

fuAvailable(u) ==
    IF u \in PipelinedFUs THEN entered[u] < FuCount[u] ELSE busyUnits[u] < FuCount[u]

CanStart(k) == OperandsReady(k) /\ PassesLoadCheck(k) /\ fuAvailable(FUOf(k))

\* What the checks before the functional unit's write in the instruction,
\* whether or not it then starts.
Checked(k) ==
    LET loadPasses == active[k].instr.op = "LD" /\ OperandsReady(k) /\ LoadMayExecute(k)
        forwards == loadPasses /\ SameAddressStores(k) # {}
    IN  [active[k] EXCEPT
            !.addressComputed = @ \/ AddressKnown(k),
            !.hasForwarded = IF loadPasses THEN forwards ELSE @,
            !.forwarded = IF forwards THEN lsq[ForwardingStore(k)].value
                          ELSE IF loadPasses THEN 0 ELSE @]

\* Latency of a load or a store when it starts: fixed while the L1D is off.
startLatency(k) ==
    IF IsMemoryOp(active[k].instr) THEN getLatency(active[k].instr.op)
    ELSE active[k].remaining

Visit(k) ==
    /\ phase = "execute" /\ Oldest(k, todo)
    /\ todo' = todo \ {k}
    /\ UNCHANGED <<fetchVars, phase, cdbVars, robVars, regProducer, archVars, statusTable>>

Progress(k) ==
    /\ Visit(k)
    /\ active[k].executing
    /\ active' = [active EXCEPT ![k].remaining = @ - 1]
    /\ UNCHANGED <<lsq, unitVars>>

\* A visit that leaves the instruction waiting.
Hold(k) ==
    /\ Visit(k)
    /\ ~active[k].executing
    /\ active' = [active EXCEPT ![k] = Checked(k)]
    /\ lsq' = markAddressReady(k)
    /\ UNCHANGED unitVars

Wait(k) == Hold(k) /\ ~CanStart(k)

StartWith(k, latency) ==
    /\ Visit(k)
    /\ ~active[k].executing /\ CanStart(k)
    /\ active' = [active EXCEPT ![k] = [Checked(k) EXCEPT
                     !.executing = TRUE, !.remaining = latency - 1]]
    /\ lsq' = markAddressReady(k)
    /\ busyUnits' = [busyUnits EXCEPT ![FUOf(k)] = @ + 1]
    /\ entered' = IF FUOf(k) \in PipelinedFUs
                  THEN [entered EXCEPT ![FUOf(k)] = @ + 1] ELSE entered

Start(k) == StartWith(k, startLatency(k))

-----------------------------------------------------------------------------
(* COMMIT: at most the head of the ROB, before this cycle's broadcast.       *)

\* fault: the head commits before its result is there
HeadPresent == ~RobEmpty
HeadReady == ~RobEmpty /\ robEntries[robHead].ready

CommitStage ==
    /\ phase = "execute" /\ todo = {}
    /\ phase' = "broadcast"
    /\ UNCHANGED <<fetchVars, todo, active, cdbVars, robTail, unitVars>>

Commit ==
    /\ CommitStage /\ HeadReady
    /\ LET entry == robEntries[robHead] IN
         /\ rf' = IF entry.writesRegister
                  THEN registersAfterWrite(rf, entry.rd, entry.value) ELSE rf
         /\ regProducer' = IF entry.writesRegister /\ regProducer[entry.rd] = robHead
                           THEN [regProducer EXCEPT ![entry.rd] = None]
                           ELSE regProducer
         /\ mem' = IF entry.writesMemory
                   THEN memoryAfterStore(mem, entry.address, entry.memoryValue) ELSE mem
         /\ statusTable' = [statusTable EXCEPT ![entry.id].committed = TRUE]
         /\ lsq' = Remove(lsq, entry.id)
    /\ robEntries' = [robEntries EXCEPT ![robHead] = EmptyEntry]
    /\ robHead' = (robHead + 1) % RobCapacity
    /\ robCount' = robCount - 1

NoCommit ==
    /\ CommitStage /\ ~HeadReady
    /\ UNCHANGED <<lsq, robEntries, robHead, robCount, regProducer, archVars, statusTable>>

-----------------------------------------------------------------------------
(* BROADCAST: the oldest message of the queue wakes every waiting operand.   *)

Front(k) ==
    /\ k \in DOMAIN cdbQueue
    /\ \A j \in DOMAIN cdbQueue : cdbQueue[k].order <= cdbQueue[j].order

\* fault: an instruction waiting twice for the same result is woken once
WokenOnce(a, msg) ==
    IF a.qj = msg.robTag THEN [a EXCEPT !.qj = None, !.vj = msg.value]
    ELSE IF a.qk = msg.robTag THEN [a EXCEPT !.qk = None, !.vk = msg.value]
    ELSE a

Woken(a, msg) ==
    [a EXCEPT !.qj = IF @ = msg.robTag THEN None ELSE @,
              !.vj = IF a.qj = msg.robTag THEN msg.value ELSE @,
              !.qk = IF @ = msg.robTag THEN None ELSE @,
              !.vk = IF a.qk = msg.robTag THEN msg.value ELSE @]

\* fault: the test waits for the count to pass zero
FinishedLate == {k \in DOMAIN active : active[k].remaining < 0}
Finished == {k \in DOMAIN active : active[k].remaining = 0}

\* fault: the whole queue is broadcast in one cycle
BroadcastStageRepeats ==
    /\ phase = "broadcast"
    /\ phase' = IF Cardinality(DOMAIN cdbQueue) > 1 THEN "broadcast" ELSE "complete"
    /\ todo' = Finished
    /\ UNCHANGED <<fetchVars, lsq, nextOrder, robHead, robTail, robCount, regProducer,
                   unitVars, archVars, statusTable>>

BroadcastStage ==
    /\ phase = "broadcast"
    /\ phase' = "complete"
    /\ todo' = Finished
    /\ UNCHANGED <<fetchVars, lsq, nextOrder, robHead, robTail, robCount, regProducer,
                   unitVars, archVars, statusTable>>

Broadcast(k) ==
    /\ BroadcastStage /\ Front(k)
    /\ LET msg == cdbQueue[k] IN
         /\ active' = [j \in DOMAIN active |-> Woken(active[j], msg)]
         /\ robEntries' = [robEntries EXCEPT ![msg.robTag] =
                [@ EXCEPT !.ready = TRUE, !.writesRegister = TRUE,
                          !.rd = msg.rd, !.value = msg.value]]
    /\ cdbQueue' = Remove(cdbQueue, k)

NoBroadcast ==
    /\ BroadcastStage
    /\ DOMAIN cdbQueue = {}
    /\ UNCHANGED <<active, robEntries, cdbQueue>>

-----------------------------------------------------------------------------
(* COMPLETE: visit every instruction with no cycle left, oldest first.       *)

\* The functional units of the instructions in S are released, never below 0.
Released(S) ==
    [u \in FUTypes |->
        LET n == Cardinality({j \in S : FUOf(j) = u})
        IN  IF busyUnits[u] >= n THEN busyUnits[u] - n ELSE 0]

Complete(k) ==
    /\ phase = "complete" /\ Oldest(k, todo)
    /\ UNCHANGED <<program, nextId, phase, robHead, entered, archVars>>

\* An instruction that leaves the functional unit without a flush.
Retire(k) ==
    /\ todo' = todo \ {k}
    /\ active' = Remove(active, k)
    /\ busyUnits' = Released({k})
    /\ UNCHANGED <<pc, robTail, robCount, regProducer, statusTable>>

Results(k) ==
    LET a == active[k] IN
      IF a.instr.op # "LD" THEN {computeResult(a.instr, a.vj, a.vk)}
      ELSE IF a.hasForwarded THEN {a.forwarded}
      ELSE loadValues(mem, Address(k))

CompleteRegister(k) ==
    /\ Complete(k) /\ writesRegister(active[k].instr)
    /\ Retire(k)
    /\ \E v \in Results(k) :
         cdbQueue' = Extend(cdbQueue, k,
             [robTag |-> active[k].robTag, rd |-> active[k].instr.rd,
              value |-> v, order |-> nextOrder])
    /\ nextOrder' = nextOrder + 1
    /\ UNCHANGED <<lsq, robEntries>>

CompleteStore(k) ==
    /\ Complete(k) /\ active[k].instr.op = "SD"
    /\ Retire(k)
    /\ LET a == active[k] IN
         /\ robEntries' = [robEntries EXCEPT ![a.robTag] =
                [@ EXCEPT !.ready = TRUE, !.writesMemory = TRUE,
                          !.address = Address(k), !.memoryValue = a.vk]]
         /\ lsq' = [lsq EXCEPT ![k] =
                [@ EXCEPT !.addressReady = TRUE, !.address = Address(k),
                          !.valueReady = TRUE, !.value = a.vk]]
    /\ UNCHANGED cdbVars

ActualTaken(k) == branchTaken(active[k].instr, active[k].vj, active[k].vk)
BranchReady(k) == [robEntries EXCEPT ![active[k].robTag].ready = TRUE]

ResolveCorrect(k) ==
    /\ Complete(k) /\ IsBranch(active[k].instr)
    /\ ActualTaken(k) = active[k].predictedTaken
    /\ Retire(k)
    /\ robEntries' = BranchReady(k)
    /\ UNCHANGED <<lsq, cdbVars>>

RedirectedPc(k) ==
    IF ActualTaken(k) THEN active[k].instr.target ELSE statusTable[k].staticPc + 1

\* flushROB: the slots of the window, those younger than k among them
RobSlots == {(robHead + n) % RobCapacity : n \in 0 .. robCount - 1}
FlushedSlots(k) == {t \in RobSlots : robEntries[t].busy /\ robEntries[t].id > k}
EntriesKept(k) ==
    [t \in Tags |-> IF t \in FlushedSlots(k) THEN EmptyEntry ELSE BranchReady(k)[t]]
\* fault: the flush empties slots without lowering the count
KeptCountUnchanged(k) == robCount
KeptCount(k) ==
    Cardinality({n \in 0 .. robCount - 1 : (robHead + n) % RobCapacity \notin FlushedSlots(k)})

\* fault: the flush leaves the rename table alone
ProducersUntouched(k) == regProducer
\* flushRegProducers: a register whose newest producer was flushed has none
ProducersKept(k) ==
    [r \in Registers |->
        IF /\ regProducer[r] # None
           /\ EntriesKept(k)[regProducer[r]].busy
           /\ EntriesKept(k)[regProducer[r]].id <= k
        THEN regProducer[r] ELSE None]

\* faults: the branch itself is marked, or the instruction after it is not
StatusesFlushedFromBranch(k) ==
    [j \in DOMAIN statusTable |->
        IF j >= k THEN [statusTable[j] EXCEPT !.flushed = TRUE] ELSE statusTable[j]]
StatusesFlushedLate(k) ==
    [j \in DOMAIN statusTable |->
        IF j > k + 1 THEN [statusTable[j] EXCEPT !.flushed = TRUE] ELSE statusTable[j]]

StatusesFlushed(k) ==
    [j \in DOMAIN statusTable |->
        IF j > k /\ ~statusTable[j].committed
        THEN [statusTable[j] EXCEPT !.flushed = TRUE] ELSE statusTable[j]]

ResolveMispredicted(k) ==
    /\ Complete(k) /\ IsBranch(active[k].instr)
    /\ ActualTaken(k) # active[k].predictedTaken
    /\ pc' = RedirectedPc(k)
    /\ statusTable' = StatusesFlushed(k)
    /\ busyUnits' = Released({k} \cup {j \in DOMAIN active : j > k /\ active[j].executing})
    /\ active' = Remove(UpTo(active, k), k)
    /\ todo' = {j \in todo : j < k}
    /\ cdbQueue' = UpTo(cdbQueue, k)
    /\ robEntries' = EntriesKept(k)
    /\ robCount' = KeptCount(k)
    /\ robTail' = (robHead + KeptCount(k)) % RobCapacity
    /\ regProducer' = ProducersKept(k)
    /\ lsq' = UpTo(lsq, k)
    /\ UNCHANGED nextOrder

EndCycle ==
    /\ phase = "complete" /\ todo = {}
    /\ phase' = "issue"
    /\ UNCHANGED <<fetchVars, todo, active, lsq, cdbVars, robVars, regProducer,
                   unitVars, archVars, statusTable>>

Done == phase = "done" /\ UNCHANGED vars

Next ==
    \/ \E predictedTaken \in BOOLEAN : Issue(predictedTaken)
    \/ StallIssue
    \/ Finish
    \/ \E k \in todo : Progress(k) \/ Wait(k) \/ Start(k)
    \/ Commit \/ NoCommit
    \/ \E k \in DOMAIN cdbQueue : Broadcast(k)
    \/ NoBroadcast
    \/ \E k \in todo :
         \/ CompleteRegister(k) \/ CompleteStore(k)
         \/ ResolveCorrect(k) \/ ResolveMispredicted(k)
    \/ EndCycle
    \/ Done

Spec == Init /\ [][Next]_vars /\ WF_vars(Next)
=============================================================================

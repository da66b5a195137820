--------------------------- MODULE DataFlow_proofs ---------------------------
(* What instructions hand to one another: results, through the bus, operands  *)
(* and renames, and values in memory, through the load/store queue.          *)
EXTENDS Tomasulo_proofs

-----------------------------------------------------------------------------
(* Every unfinished ROB entry is owed its result exactly once, every waiting  *)
(* operand names the instruction it waits for, and a rename the youngest      *)
(* writer in flight.  The three are inductive together, with what a result    *)
(* carries on its way: an operand is captured through a rename, a rename is   *)
(* cleared by what a finished entry says it wrote, and a waiting operand is    *)
(* woken because its producer's result is still owed.                         *)

-----------------------------------------------------------------------------
(* The invariant, slot by slot                                               *)

Unfinished(t) == t \in BusyTags /\ ~robEntries[t].ready
Writer(t) == InstructionOf(robEntries[t].id)

OwedOnce ==
    /\ DOMAIN active \cap DOMAIN cdbQueue = {}
    /\ \A k \in DOMAIN active :
         Unfinished(active[k].robTag) /\ robEntries[active[k].robTag].id = k
    /\ \A k \in DOMAIN cdbQueue :
         Unfinished(cdbQueue[k].robTag) /\ robEntries[cdbQueue[k].robTag].id = k
    /\ \A t \in BusyTags : Unfinished(t) =>
         robEntries[t].id \in DOMAIN active \cup DOMAIN cdbQueue

\* An instruction in flight is the one its status names, and so are a message's
\* and a finished entry's destination.
InstructionsAreStatic == \A k \in DOMAIN active : active[k].instr = InstructionOf(k)

ResultsNameRegisters ==
    /\ \A k \in DOMAIN cdbQueue : cdbQueue[k].rd = InstructionOf(k).rd
    /\ \A t \in BusyTags : robEntries[t].ready /\ Writer(t).rd # None =>
         robEntries[t].writesRegister /\ robEntries[t].rd = Writer(t).rd

AwaitsWriter(k, tag, reg) ==
    tag # None =>
        /\ reg # None
        /\ Unfinished(tag) /\ robEntries[tag].id < k /\ Writer(tag).rd = reg

OperandsAwaitWriters ==
    \A k \in DOMAIN active :
        /\ AwaitsWriter(k, active[k].qj, active[k].instr.rs1)
        /\ AwaitsWriter(k, active[k].qk, active[k].instr.rs2)

ProducersAreYoungest ==
    \A r \in Registers : regProducer[r] # None =>
        /\ regProducer[r] \in BusyTags /\ Writer(regProducer[r]).rd = r
        /\ \A t \in BusyTags : Writer(t).rd = r =>
             robEntries[t].id <= robEntries[regProducer[r]].id

ResultInv ==
    /\ FateInv /\ OwedOnce /\ InstructionsAreStatic /\ ResultsNameRegisters
    /\ OperandsAwaitWriters /\ ProducersAreYoungest

\* What a step has to keep besides FateInv.
DataflowInv ==
    /\ OwedOnce /\ InstructionsAreStatic /\ ResultsNameRegisters
    /\ OperandsAwaitWriters /\ ProducersAreYoungest

-----------------------------------------------------------------------------
(* Facts about one state                                                     *)

\* Slots name issued instructions, each a different one.
LEMMA SlotOwners ==
    ASSUME RobInv
    PROVE  /\ BusyTags \subseteq Tags
           /\ \A t \in BusyTags : robEntries[t].id \in Ids /\ robEntries[t].id \in Nat
           /\ \A s, t \in BusyTags : robEntries[s].id = robEntries[t].id => s = t
BY SlotsHoldDifferentIds DEF RobInv, BusyEntriesHaveIds, BusyTags, Ids

\* The slot at the tail is free while the buffer is not full.
LEMMA TailIsFree ==
    ASSUME RobInv, ~RobFull
    PROVE  robTail \in Tags /\ robTail \notin BusyTags
<1>1. /\ robHead \in Tags /\ robCount \in 0 .. RobCapacity - 1 /\ robTail \in Tags
      /\ RobCapacity \in Nat \ {0}
      /\ robTail = (robHead + robCount) % RobCapacity
      /\ \A t \in Tags : robEntries[t].busy <=> t \in RobSlots
    BY RobCapacityAssumption DEF RobInv, TypeInv, TypeOK, RobIsWindow, RobFull
<1>2. ASSUME NEW n \in 0 .. robCount - 1 PROVE (robHead + n) % RobCapacity # robTail
  <2>1. n \in 0 .. RobCapacity - 1 /\ n # robCount
      BY <1>1
  <2> QED
      BY <1>1, <2>1, SlotsDiffer
<1> QED
    BY <1>1, <1>2 DEF RobSlots, BusyTags

\* An issued instruction never changes its place in the program.
LEMMA StaticPcsStay ==
    ASSUME TypeInv, [NextAnyTiming]_vars
    PROVE  /\ program' = program
           /\ \A id \in Ids : statusTable'[id].staticPc = statusTable[id].staticPc
           /\ (~ \E predictedTaken \in BOOLEAN : Issue(predictedTaken)) => nextId' = nextId
<1>1. statusTable \in [Ids -> Statuses] /\ nextId \notin Ids
    BY DEF TypeInv, TypeOK, Ids
<1>2. ASSUME NEW predictedTaken \in BOOLEAN, Issue(predictedTaken)
      PROVE  program' = program /\ \A id \in Ids : statusTable'[id] = statusTable[id]
    BY <1>1, <1>2 DEF Issue, Extend
<1>3. ASSUME Commit
      PROVE  /\ program' = program /\ nextId' = nextId
             /\ \A id \in Ids : statusTable'[id].staticPc = statusTable[id].staticPc
    BY <1>1, <1>3 DEF Commit, CommitStage, fetchVars, Statuses
<1>4. ASSUME NEW k \in todo, ResolveMispredicted(k)
      PROVE  /\ program' = program /\ nextId' = nextId
             /\ \A id \in Ids : statusTable'[id].staticPc = statusTable[id].staticPc
    BY <1>1, <1>4 DEF ResolveMispredicted, Complete, StatusesFlushed, Statuses
<1>5. ASSUME \/ StallIssue \/ Finish \/ NoCommit \/ NoBroadcast \/ EndCycle \/ Done
             \/ UNCHANGED vars
             \/ \E k \in todo : \/ VisitAnyTiming(k) \/ CompleteRegister(k)
                                \/ CompleteStore(k) \/ ResolveCorrect(k)
             \/ \E k \in DOMAIN cdbQueue : Broadcast(k)
      PROVE  program' = program /\ statusTable' = statusTable /\ nextId' = nextId
  <2>1. statusTable' = statusTable
      BY <1>5, StatusUnchanged
  <2>2. program' = program /\ nextId' = nextId
      BY <1>5 DEF StallIssue, Finish, NoCommit, CommitStage, NoBroadcast, BroadcastStage, EndCycle,
         Done, Progress, VisitAnyTiming, Hold, StartWith, Visit, CompleteRegister, CompleteStore,
         ResolveCorrect, Complete, Broadcast, fetchVars, vars
  <2> QED
      BY <2>1, <2>2
<1> QED
    BY <1>2, <1>3, <1>4, <1>5 DEF NextAnyTiming

\* An instruction never changes what it is.
LEMMA InstructionsStay ==
    ASSUME TypeInv, [NextAnyTiming]_vars
    PROVE  \A id \in Ids : InstructionOf(id)' = InstructionOf(id)
BY StaticPcsStay DEF InstructionOf

\* The instructions of busy slots and of the queue are issued ones.
LEMMA WritersStay ==
    ASSUME ResultInv, [NextAnyTiming]_vars
    PROVE  /\ \A k \in DOMAIN active \cup DOMAIN cdbQueue : InstructionOf(k)' = InstructionOf(k)
           /\ \A t \in BusyTags : \A id \in Ids :
                robEntries[t].id = id => InstructionOf(id)' = Writer(t)
<1>1. TypeInv /\ DOMAIN active \subseteq Ids /\ DOMAIN cdbQueue \subseteq Ids /\ RobInv
    BY DEF ResultInv, FateInv, RobInv, TypeInv, TypeOK
<1>2. \A id \in Ids : InstructionOf(id)' = InstructionOf(id)
    BY <1>1, InstructionsStay
<1> QED
    BY <1>1, <1>2, SlotOwners DEF Writer

-----------------------------------------------------------------------------
(* Steps that leave the ROB, the bus queue and the renames alone             *)

\* Instructions in flight stay, and keep their instruction, slot and tags.
QuietStep ==
    /\ UNCHANGED <<robEntries, cdbQueue, regProducer>>
    /\ DOMAIN active' = DOMAIN active
    /\ \A k \in DOMAIN active :
         /\ active'[k].instr = active[k].instr /\ active'[k].robTag = active[k].robTag
         /\ active'[k].qj = active[k].qj /\ active'[k].qk = active[k].qk

LEMMA QuietKeepsResults ==
    ASSUME ResultInv, [NextAnyTiming]_vars, QuietStep
    PROVE  DataflowInv'
<1>1. /\ BusyTags' = BusyTags /\ \A t : Unfinished(t)' = Unfinished(t)
    BY DEF QuietStep, BusyTags, Unfinished
<1>2. /\ \A k \in DOMAIN active \cup DOMAIN cdbQueue : InstructionOf(k)' = InstructionOf(k)
      /\ \A t \in BusyTags : Writer(t)' = Writer(t)
    BY WritersStay, SlotOwners DEF QuietStep, Writer, InstructionOf, ResultInv, FateInv
<1>3. OwedOnce'
    BY <1>1 DEF QuietStep, OwedOnce, ResultInv
<1>4. InstructionsAreStatic'
    BY <1>2 DEF QuietStep, InstructionsAreStatic, ResultInv
<1>5. ResultsNameRegisters'
    BY <1>1, <1>2 DEF QuietStep, ResultsNameRegisters, ResultInv
<1>6. OperandsAwaitWriters'
    BY <1>1, <1>2 DEF QuietStep, OperandsAwaitWriters, AwaitsWriter, ResultInv, Unfinished
<1>7. ProducersAreYoungest'
    BY <1>1, <1>2 DEF QuietStep, ProducersAreYoungest, ResultInv
<1> QED
    BY <1>3, <1>4, <1>5, <1>6, <1>7 DEF DataflowInv

\* A visit of the execution loop is such a step, whatever its outcome.
LEMMA VisitIsQuiet ==
    ASSUME TypeInv, NEW k \in todo, VisitAnyTiming(k)
    PROVE  QuietStep
<1>1. k \in DOMAIN active /\ active[k] \in ActiveRecords
    BY DEF TypeInv, TypeOK
<1>2. UNCHANGED <<robEntries, cdbQueue, regProducer>>
    BY DEF VisitAnyTiming, Progress, Hold, StartWith, Visit, cdbVars, robVars
<1>3. PICK a : /\ active' = [active EXCEPT ![k] = a]
               /\ a.instr = active[k].instr /\ a.robTag = active[k].robTag
               /\ a.qj = active[k].qj /\ a.qk = active[k].qk
  <2>1. CASE Progress(k)
    <3> DEFINE a == [active[k] EXCEPT !.remaining = @ - 1]
    <3>1. active' = [active EXCEPT ![k] = a]
        BY <2>1 DEF Progress
    <3>2. /\ a.instr = active[k].instr /\ a.robTag = active[k].robTag
          /\ a.qj = active[k].qj /\ a.qk = active[k].qk
        BY <1>1 DEF ActiveRecords
    <3> QED
        BY <3>1, <3>2
  <2>2. CASE Hold(k)
      BY <1>1, <2>2, CheckedFields DEF Hold
  <2>3. ASSUME NEW latency \in Nat \ {0}, StartWith(k, latency)
        PROVE  \E a : /\ active' = [active EXCEPT ![k] = a]
                      /\ a.instr = active[k].instr /\ a.robTag = active[k].robTag
                      /\ a.qj = active[k].qj /\ a.qk = active[k].qk
    <3> DEFINE c == Checked(k)
               a == [c EXCEPT !.executing = TRUE, !.remaining = latency - 1]
    <3>1. active' = [active EXCEPT ![k] = a]
        BY <2>3 DEF StartWith
    <3>2. /\ c.instr = active[k].instr /\ c.robTag = active[k].robTag
          /\ c.qj = active[k].qj /\ c.qk = active[k].qk
        BY <1>1, CheckedFields
    <3> HIDE DEF c
    <3>3. a.instr = c.instr /\ a.robTag = c.robTag /\ a.qj = c.qj /\ a.qk = c.qk
        OBVIOUS
    <3> QED
        BY <3>1, <3>2, <3>3
  <2> QED
      BY <2>1, <2>2, <2>3 DEF VisitAnyTiming
<1> QED
    BY <1>1, <1>2, <1>3 DEF QuietStep

\* So are the steps in which a stage does nothing.
LEMMA IdleIsQuiet ==
    ASSUME \/ StallIssue \/ Finish \/ NoCommit \/ NoBroadcast \/ EndCycle \/ Done
           \/ UNCHANGED vars
    PROVE  QuietStep
<1>1. UNCHANGED <<active, robEntries, cdbQueue, regProducer>>
  <2>1. CASE StallIssue \/ Finish \/ NoCommit \/ NoBroadcast \/ EndCycle
      BY <2>1 DEF StallIssue, Finish, NoCommit, CommitStage, NoBroadcast, BroadcastStage,
         EndCycle, cdbVars, robVars
  <2>2. CASE UNCHANGED vars
      BY <2>2 DEF vars, cdbVars, robVars
  <2> QED
      BY <2>1, <2>2 DEF Done
<1> QED
    BY <1>1 DEF QuietStep

-----------------------------------------------------------------------------
(* Issue                                                                     *)

\* The tail's slot gets the new instruction; the others keep theirs.
LEMMA IssueSlots ==
    ASSUME ResultInv, NEW predictedTaken \in BOOLEAN, Issue(predictedTaken)
    PROVE  /\ robTail \in Tags /\ robTail \notin BusyTags
           /\ BusyTags' = BusyTags \cup {robTail}
           /\ \A t \in BusyTags : robEntries'[t] = robEntries[t]
           /\ EntriesAllocated = robEntries'
           /\ robEntries'[robTail].id = nextId /\ ~robEntries'[robTail].ready
           /\ \A t \in BusyTags : Writer(t)' = Writer(t)
           /\ \A t \in Tags : t = robTail => Writer(t)' = NextInstruction
           /\ \A k \in DOMAIN active \cup DOMAIN cdbQueue :
                InstructionOf(k)' = InstructionOf(k) /\ k < nextId /\ k \in Nat
           /\ \A t \in BusyTags : robEntries[t].id < nextId
           /\ \A id \in Nat : id = nextId => InstructionOf(id)' = NextInstruction
<1>1. RobInv /\ TypeInv /\ ~RobFull
    BY DEF ResultInv, FateInv, RobInv, Issue
<1>2. robTail \in Tags /\ robTail \notin BusyTags
    BY <1>1, TailIsFree
<1>3. robEntries \in [Tags -> RobRecords] /\ robEntries' = EntriesAllocated
    BY <1>1 DEF TypeInv, TypeOK, Issue
<1>4. /\ robEntries'[robTail].busy = TRUE /\ robEntries'[robTail].id = nextId
      /\ robEntries'[robTail].ready = FALSE
      /\ \A t \in Tags : t # robTail => robEntries'[t] = robEntries[t]
    BY <1>2, <1>3 DEF EntriesAllocated, EmptyEntry
<1>5. BusyTags' = BusyTags \cup {robTail}
    BY <1>2, <1>4 DEF BusyTags
<1>6. \A t \in BusyTags : robEntries'[t] = robEntries[t]
    BY <1>2, <1>4 DEF BusyTags
<1>7. [NextAnyTiming]_vars
    BY DEF NextAnyTiming
<1>8. /\ \A k \in DOMAIN active \cup DOMAIN cdbQueue : InstructionOf(k)' = InstructionOf(k)
      /\ \A t \in BusyTags : Writer(t)' = Writer(t)
    BY <1>1, <1>6, <1>7, WritersStay, SlotOwners DEF Writer, InstructionOf
<1>9. \A id \in Nat : id = nextId => InstructionOf(id)' = NextInstruction
  <2>1. statusTable \in [Ids -> Statuses] /\ nextId \notin Ids
      BY <1>1 DEF TypeInv, TypeOK, Ids
  <2>2. statusTable'[nextId].staticPc = pc /\ program' = program
      BY <2>1 DEF Issue, Extend, NewStatus
  <2> QED
      BY <2>2 DEF InstructionOf, NextInstruction
<1>10. \A k \in DOMAIN active \cup DOMAIN cdbQueue : k < nextId /\ k \in Nat
    BY <1>1 DEF TypeInv, TypeOK, Ids
<1>11. \A t \in BusyTags : robEntries[t].id < nextId
    BY <1>1, SlotOwners DEF Ids, TypeInv, TypeOK
<1>12. \A t \in Tags : t = robTail => Writer(t)' = NextInstruction
    BY <1>1, <1>4, <1>9 DEF Writer, InstructionOf, TypeInv, TypeOK
<1> QED
    BY <1>2, <1>3, <1>4, <1>5, <1>6, <1>8, <1>9, <1>10, <1>11, <1>12

\* A source operand is captured from the youngest writer, or waits for it.
LEMMA CapturedTag ==
    ASSUME ResultInv, NEW predictedTaken \in BOOLEAN, Issue(predictedTaken),
           NEW r \in Registers \cup {None}
    PROVE  LET tag == OperandTag(EntriesAllocated, r) IN
             tag # None => /\ r # None /\ tag \in BusyTags /\ ~robEntries[tag].ready
                           /\ Writer(tag).rd = r
<1> DEFINE tag == OperandTag(EntriesAllocated, r)
<1> SUFFICES ASSUME tag # None
             PROVE  /\ r # None /\ tag \in BusyTags /\ ~robEntries[tag].ready
                    /\ Writer(tag).rd = r
    OBVIOUS
<1>1. /\ tag = regProducer[r] /\ r # None /\ regProducer[r] # None
      /\ ~(EntriesAllocated[tag].ready /\ EntriesAllocated[tag].writesRegister)
    BY DEF OperandTag, Pending
<1>2. tag \in BusyTags /\ Writer(tag).rd = r
    BY <1>1 DEF ResultInv, ProducersAreYoungest
<1>3. EntriesAllocated[tag] = robEntries[tag]
    BY <1>2, IssueSlots
<1>4. robEntries[tag].ready => robEntries[tag].writesRegister
    BY <1>1, <1>2 DEF ResultInv, ResultsNameRegisters
<1> QED
    BY <1>1, <1>2, <1>3, <1>4

LEMMA IssueKeepsResults ==
    ASSUME ResultInv, NEW predictedTaken \in BOOLEAN, Issue(predictedTaken)
    PROVE  DataflowInv'
<1> DEFINE i == NextInstruction
           a == IssuedInstruction(i, predictedTaken)
<1>1. /\ robTail \in Tags /\ robTail \notin BusyTags
      /\ BusyTags' = BusyTags \cup {robTail}
      /\ \A t \in BusyTags : robEntries'[t] = robEntries[t]
      /\ robEntries'[robTail].id = nextId /\ ~robEntries'[robTail].ready
      /\ \A t \in BusyTags : Writer(t)' = Writer(t)
      /\ \A t \in Tags : t = robTail => Writer(t)' = i
      /\ \A k \in DOMAIN active \cup DOMAIN cdbQueue :
           InstructionOf(k)' = InstructionOf(k) /\ k < nextId /\ k \in Nat
      /\ \A t \in BusyTags : robEntries[t].id < nextId
      /\ \A id \in Nat : id = nextId => InstructionOf(id)' = i
    BY IssueSlots
<1>2. /\ i \in WellFormedInstructions /\ nextId \in Nat
      /\ i.rs1 \in Registers \cup {None} /\ i.rs2 \in Registers \cup {None}
      /\ i.rd \in Registers \cup {None}
  <2>1. program \in Seq(WellFormedInstructions) /\ nextId \in Nat
      BY DEF ResultInv, FateInv, RobInv, TypeInv, TypeOK
  <2>2. i \in WellFormedInstructions
      BY <2>1 DEF Issue, Fetchable, NextInstruction
  <2> QED
      BY <2>1, <2>2 DEF WellFormedInstructions, Instructions
<1>3. /\ DOMAIN active' = DOMAIN active \cup {nextId}
      /\ \A k \in DOMAIN active : active'[k] = active[k]
      /\ active'[nextId] = a
  <2>1. nextId \notin DOMAIN active
      BY <1>1, <1>2
  <2> QED
      BY <2>1 DEF Issue, Extend
<1>4. a.instr = i /\ a.robTag = robTail
    BY DEF IssuedInstruction
<1>5. /\ a.qj # None => /\ i.rs1 # None /\ a.qj \in BusyTags /\ ~robEntries[a.qj].ready
                        /\ Writer(a.qj).rd = i.rs1
      /\ a.qk # None => /\ i.rs2 # None /\ a.qk \in BusyTags /\ ~robEntries[a.qk].ready
                        /\ Writer(a.qk).rd = i.rs2
  <2>1. a.qj = OperandTag(EntriesAllocated, i.rs1) /\ a.qk = OperandTag(EntriesAllocated, i.rs2)
      BY DEF IssuedInstruction
  <2> QED
      BY <1>2, <2>1, CapturedTag
<1>6. /\ cdbQueue' = cdbQueue
      /\ regProducer' = IF i.rd # None THEN [regProducer EXCEPT ![i.rd] = robTail]
                        ELSE regProducer
    BY DEF Issue, cdbVars, writesRegister
<1> HIDE DEF a, i
<1>7. /\ \A t \in BusyTags : Unfinished(t)' <=> Unfinished(t)
      /\ \A t : t = robTail => Unfinished(t)'
      /\ \A t : Unfinished(t) => t \in BusyTags
    BY <1>1 DEF Unfinished
<1>8. OwedOnce'
  <2>1. DOMAIN active' \cap DOMAIN cdbQueue' = {}
      BY <1>1, <1>2, <1>3, <1>6 DEF ResultInv, OwedOnce
  <2>2. \A k \in DOMAIN active' :
          Unfinished(active[k].robTag)' /\ robEntries'[active'[k].robTag].id = k
      BY <1>1, <1>3, <1>4, <1>7 DEF ResultInv, OwedOnce, Unfinished
  <2>3. \A k \in DOMAIN cdbQueue' :
          Unfinished(cdbQueue[k].robTag)' /\ robEntries'[cdbQueue'[k].robTag].id = k
      BY <1>1, <1>6, <1>7 DEF ResultInv, OwedOnce, Unfinished
  <2>4. \A t \in BusyTags' : Unfinished(t)' =>
          robEntries'[t].id \in DOMAIN active' \cup DOMAIN cdbQueue'
      BY <1>1, <1>3, <1>6, <1>7 DEF ResultInv, OwedOnce
  <2> QED
      BY <2>1, <2>2, <2>3, <2>4 DEF OwedOnce
<1>9. InstructionsAreStatic'
    BY <1>1, <1>2, <1>3, <1>4 DEF ResultInv, InstructionsAreStatic
<1>10. ResultsNameRegisters'
    BY <1>1, <1>6 DEF ResultInv, ResultsNameRegisters
<1>11. OperandsAwaitWriters'
    BY <1>1, <1>3, <1>4, <1>5 DEF ResultInv, OperandsAwaitWriters, AwaitsWriter, Unfinished
<1>12. ProducersAreYoungest'
  <2> SUFFICES ASSUME NEW r \in Registers, regProducer'[r] # None
               PROVE  /\ regProducer'[r] \in BusyTags'
                      /\ \A p \in Tags : p = regProducer'[r] =>
                           /\ Writer(p)'.rd = r
                           /\ \A t \in BusyTags' : Writer(t)'.rd = r =>
                                robEntries'[t].id <= robEntries'[p].id
      BY <1>1, SlotOwners DEF ProducersAreYoungest, Writer, InstructionOf, BusyTags
  <2>1. regProducer \in [Registers -> Sources]
      BY DEF ResultInv, FateInv, RobInv, TypeInv, TypeOK
  <2>2. \A t \in BusyTags : robEntries[t].id \in Nat
      BY SlotOwners DEF ResultInv, FateInv
  <2>3. CASE r = i.rd
    <3>1. regProducer'[r] = robTail
        BY <1>2, <1>6, <2>1, <2>3 DEF None, Registers
    <3> QED
        BY <1>1, <1>2, <2>2, <2>3, <3>1
  <2>4. CASE r # i.rd
    <3>1. regProducer'[r] = regProducer[r]
        BY <1>2, <1>6, <2>1, <2>4
    <3>2. \A t \in BusyTags' : Writer(t)'.rd = r => t \in BusyTags
        BY <1>1, <2>4
    <3> QED
        BY <1>1, <2>2, <3>1, <3>2 DEF ResultInv, ProducersAreYoungest
  <2> QED
      BY <2>3, <2>4
<1> QED
    BY <1>8, <1>9, <1>10, <1>11, <1>12 DEF DataflowInv

-----------------------------------------------------------------------------
(* Commit                                                                    *)

\* The head's slot is freed and the others keep what they hold.
LEMMA CommitSlots ==
    ASSUME ResultInv, Commit
    PROVE  /\ robHead \in BusyTags /\ robEntries[robHead].ready
           /\ BusyTags' = BusyTags \ {robHead}
           /\ \A t \in BusyTags' : robEntries'[t] = robEntries[t] /\ Writer(t)' = Writer(t)
           /\ \A t \in BusyTags' : robEntries[robHead].id < robEntries[t].id
<1>1. /\ RobInv /\ TypeInv /\ robHead \in Tags /\ robEntries[robHead].ready
      /\ robEntries \in [Tags -> RobRecords]
    BY DEF ResultInv, FateInv, RobInv, TypeInv, TypeOK, Commit, HeadReady
<1>2. /\ robEntries' = [robEntries EXCEPT ![robHead] = EmptyEntry]
    BY DEF Commit
<1>3. /\ BusyTags' = BusyTags \ {robHead} /\ BusyTags' \subseteq BusyTags
      /\ \A t \in BusyTags' : robEntries'[t] = robEntries[t]
    BY <1>1, <1>2 DEF BusyTags, EmptyEntry
<1>4. [NextAnyTiming]_vars
    BY DEF NextAnyTiming
<1>5. \A t \in BusyTags' : Writer(t)' = Writer(t)
    BY <1>1, <1>3, <1>4, WritersStay, SlotOwners DEF Writer, InstructionOf
<1>6. robHead \in BusyTags
    <2>1. /\ robCount \in 1 .. RobCapacity
          /\ \A t \in Tags : robEntries[t].busy <=> t \in RobSlots
        BY <1>1, RobCapacityAssumption
        DEF RobInv, TypeInv, TypeOK, RobIsWindow, Commit, HeadReady, RobEmpty
    <2>2. (robHead + 0) % RobCapacity \in RobSlots
        BY <2>1 DEF RobSlots
    <2> QED
        BY <1>1, <2>1, <2>2, HeadSlot DEF BusyTags
<1>7. \A t \in BusyTags' : robEntries[robHead].id < robEntries[t].id
  <2> SUFFICES ASSUME NEW t \in BusyTags, t # robHead
               PROVE  robEntries[robHead].id < robEntries[t].id
      BY <1>3
  <2>1. robEntries[robHead].id <= robEntries[t].id
      BY <1>1, <1>6, SlotsHoldDifferentIds, InFlightByTag DEF InFlightHoldBusyTags
  <2>2. robEntries[robHead].id # robEntries[t].id
      BY <1>1, <1>6, SlotOwners
  <2> QED
      BY <1>1, <1>6, <2>1, <2>2, SlotOwners
<1> QED
    BY <1>1, <1>3, <1>5, <1>6, <1>7

\* The head leaves; as it is finished, nothing in flight waits for it, and the
\* rename it may still have is cleared.
LEMMA CommitKeepsResults ==
    ASSUME ResultInv, Commit
    PROVE  DataflowInv'
<1>1. /\ RobInv /\ TypeInv /\ robHead \in Tags /\ robEntries[robHead].ready
      /\ robEntries \in [Tags -> RobRecords] /\ regProducer \in [Registers -> Sources]
    BY DEF ResultInv, FateInv, RobInv, TypeInv, TypeOK, Commit, HeadReady
<1>2. UNCHANGED <<active, cdbQueue>>
    BY DEF Commit, CommitStage, cdbVars
<1>3. /\ BusyTags' = BusyTags \ {robHead}
      /\ \A t \in BusyTags' : robEntries'[t] = robEntries[t]
    BY CommitSlots
<1>4. [NextAnyTiming]_vars
    BY DEF NextAnyTiming
<1>5. /\ \A k \in DOMAIN active \cup DOMAIN cdbQueue : InstructionOf(k)' = InstructionOf(k)
      /\ \A t \in BusyTags' : Writer(t)' = Writer(t)
    BY <1>4, WritersStay, CommitSlots
<1>6. /\ \A t : Unfinished(t) => t \in BusyTags' /\ Unfinished(t)' /\ t \in BusyTags
      /\ \A t : Unfinished(t)' => Unfinished(t)
    BY <1>1, <1>3 DEF Unfinished
<1>7. OwedOnce'
    BY <1>2, <1>3, <1>6 DEF ResultInv, OwedOnce
<1>8. InstructionsAreStatic'
    BY <1>2, <1>5 DEF ResultInv, InstructionsAreStatic
<1>9. ResultsNameRegisters'
    BY <1>2, <1>3, <1>5 DEF ResultInv, ResultsNameRegisters
<1>10. OperandsAwaitWriters'
    BY <1>2, <1>3, <1>5, <1>6 DEF ResultInv, OperandsAwaitWriters, AwaitsWriter
<1>11. ProducersAreYoungest'
  <2> SUFFICES ASSUME NEW r \in Registers, regProducer'[r] # None
               PROVE  /\ regProducer'[r] \in BusyTags'
                      /\ \A p \in Tags : p = regProducer'[r] =>
                           /\ Writer(p)'.rd = r
                           /\ \A t \in BusyTags' : Writer(t)'.rd = r =>
                                robEntries'[t].id <= robEntries'[p].id
      BY <1>3, SlotOwners DEF ProducersAreYoungest, Writer, InstructionOf, BusyTags
  <2>1. /\ regProducer' = IF /\ robEntries[robHead].writesRegister
                             /\ regProducer[robEntries[robHead].rd] = robHead
                          THEN [regProducer EXCEPT ![robEntries[robHead].rd] = None]
                          ELSE regProducer
      BY DEF Commit
  <2>2. regProducer'[r] = regProducer[r]
      BY <1>1, <2>1
  <2>3. /\ regProducer[r] \in BusyTags /\ Writer(regProducer[r]).rd = r
        /\ \A t \in BusyTags : Writer(t).rd = r =>
             robEntries[t].id <= robEntries[regProducer[r]].id
      BY <2>2 DEF ResultInv, ProducersAreYoungest
  <2>4. regProducer[r] # robHead
    <3> SUFFICES ASSUME regProducer[r] = robHead PROVE FALSE
        OBVIOUS
    <3>1. r # None
        BY DEF Registers, None
    <3>2. robEntries[robHead].writesRegister /\ robEntries[robHead].rd = r
        BY <1>1, <2>3, <3>1 DEF ResultInv, ResultsNameRegisters
    <3> QED
        BY <1>1, <2>1, <2>2, <2>3, <3>1, <3>2
  <2> QED
      BY <1>3, <1>5, <2>2, <2>3, <2>4
<1> QED
    BY <1>7, <1>8, <1>9, <1>10, <1>11 DEF DataflowInv

-----------------------------------------------------------------------------
(* Broadcast                                                                 *)

\* The message fills the slot of the instruction it came from.
LEMMA BroadcastSlots ==
    ASSUME ResultInv, NEW k \in DOMAIN cdbQueue, Broadcast(k)
    PROVE  LET filled == cdbQueue[k].robTag IN
           /\ Unfinished(filled) /\ filled \in Tags /\ robEntries[filled].id = k
           /\ cdbQueue[k].rd = InstructionOf(k).rd
           /\ BusyTags' = BusyTags
           /\ robEntries'[filled] =
                    [robEntries[filled] EXCEPT !.ready = TRUE, !.writesRegister = TRUE,
                         !.rd = cdbQueue[k].rd, !.value = cdbQueue[k].value]
           /\ \A t \in Tags : t # filled => robEntries'[t] = robEntries[t]
           /\ \A t \in BusyTags : robEntries'[t].id = robEntries[t].id /\ Writer(t)' = Writer(t)
<1> DEFINE filled == cdbQueue[k].robTag
           msg == cdbQueue[k]
           entry == [robEntries[filled] EXCEPT !.ready = TRUE, !.writesRegister = TRUE,
                                               !.rd = msg.rd, !.value = msg.value]
<1>1. RobInv /\ TypeInv /\ robEntries \in [Tags -> RobRecords]
    BY DEF ResultInv, FateInv, RobInv, TypeInv, TypeOK
<1>2. /\ Unfinished(filled) /\ filled \in Tags /\ robEntries[filled].id = k
      /\ msg.rd = InstructionOf(k).rd
    BY DEF ResultInv, OwedOnce, ResultsNameRegisters, Unfinished, BusyTags
<1>3. robEntries' = [robEntries EXCEPT ![filled] = entry]
    BY DEF Broadcast
<1>4. entry.busy = robEntries[filled].busy /\ entry.id = robEntries[filled].id
  <2>1. robEntries[filled] \in RobRecords
      BY <1>1, <1>2
  <2> HIDE DEF msg
  <2> QED
      BY <2>1 DEF RobRecords
<1>5. /\ robEntries'[filled] = entry
      /\ \A t \in Tags : t # filled => robEntries'[t] = robEntries[t]
  <2> HIDE DEF entry
  <2> QED
      BY <1>1, <1>2, <1>3
<1> HIDE DEF entry
<1>6. /\ BusyTags' = BusyTags
      /\ \A t \in BusyTags : robEntries'[t].id = robEntries[t].id
    BY <1>4, <1>5 DEF BusyTags
<1>7. [NextAnyTiming]_vars
    BY DEF NextAnyTiming
<1>8. \A t \in BusyTags : Writer(t)' = Writer(t)
    BY <1>1, <1>6, <1>7, WritersStay, SlotOwners DEF Writer, InstructionOf
<1> QED
    BY <1>2, <1>5, <1>6, <1>8 DEF entry

\* No waiting operand is left with the tag of the slot a message fills.
LEMMA BroadcastKeepsResults ==
    ASSUME ResultInv, NEW k \in DOMAIN cdbQueue, Broadcast(k)
    PROVE  DataflowInv'
<1> DEFINE msg == cdbQueue[k]
           filled == msg.robTag
<1>1. /\ RobInv /\ TypeInv /\ robEntries \in [Tags -> RobRecords]
      /\ DOMAIN active \subseteq Nat
      /\ \A j \in DOMAIN active : active[j] \in ActiveRecords
    BY DEF ResultInv, FateInv, RobInv, TypeInv, TypeOK, Ids
<1>2. /\ Unfinished(filled) /\ filled \in Tags /\ robEntries[filled].id = k
      /\ msg.rd = InstructionOf(k).rd
    BY BroadcastSlots
<1>3. /\ robEntries'[filled].ready = TRUE /\ robEntries'[filled].writesRegister = TRUE
      /\ robEntries'[filled].rd = msg.rd
      /\ \A t \in Tags : t # filled => robEntries'[t] = robEntries[t]
  <2>1. robEntries'[filled] =
            [robEntries[filled] EXCEPT !.ready = TRUE, !.writesRegister = TRUE,
                                       !.rd = msg.rd, !.value = msg.value]
      BY BroadcastSlots
  <2>2. robEntries[filled] \in RobRecords
      BY <1>1, <1>2
  <2> HIDE DEF msg, filled
  <2>3. /\ robEntries'[filled].ready = TRUE /\ robEntries'[filled].writesRegister = TRUE
        /\ robEntries'[filled].rd = msg.rd
      BY <2>1, <2>2 DEF RobRecords
  <2>4. \A t \in Tags : t # filled => robEntries'[t] = robEntries[t]
      BY BroadcastSlots DEF filled, msg
  <2> QED
      BY <2>3, <2>4
<1>4. /\ DOMAIN cdbQueue' = DOMAIN cdbQueue \ {k}
      /\ \A j \in DOMAIN cdbQueue' : cdbQueue'[j] = cdbQueue[j]
    BY DEF Broadcast, Remove, Restrict
<1>5. /\ DOMAIN active' = DOMAIN active
      /\ \A j \in DOMAIN active :
           /\ active'[j].instr = active[j].instr /\ active'[j].robTag = active[j].robTag
           /\ active'[j].qj = IF active[j].qj = filled THEN None ELSE active[j].qj
           /\ active'[j].qk = IF active[j].qk = filled THEN None ELSE active[j].qk
  <2>1. active' = [j \in DOMAIN active |-> Woken(active[j], msg)]
      BY DEF Broadcast
  <2> HIDE DEF msg
  <2> QED
      BY <1>1, <2>1 DEF Woken, ActiveRecords
<1>6. regProducer' = regProducer
    BY DEF Broadcast, BroadcastStage
<1>7. /\ BusyTags' = BusyTags /\ BusyTags \subseteq Tags
      /\ \A t \in BusyTags : robEntries'[t].id = robEntries[t].id
      /\ \A t : Unfinished(t)' <=> Unfinished(t) /\ t # filled
  <2>1. /\ BusyTags' = BusyTags
        /\ \A t \in BusyTags : robEntries'[t].id = robEntries[t].id
      BY BroadcastSlots
  <2> QED
      BY <1>2, <1>3, <2>1 DEF BusyTags, Unfinished
<1>8. [NextAnyTiming]_vars
    BY DEF NextAnyTiming
<1>9. /\ \A j \in DOMAIN active \cup DOMAIN cdbQueue : InstructionOf(j)' = InstructionOf(j)
      /\ \A t \in BusyTags : Writer(t)' = Writer(t)
    BY <1>8, WritersStay, BroadcastSlots
<1> HIDE DEF filled, msg
<1>10. OwedOnce'
  <2>1. DOMAIN active' \cap DOMAIN cdbQueue' = {} /\ k \notin DOMAIN active
      BY <1>4, <1>5 DEF ResultInv, OwedOnce
  <2>2. \A j \in DOMAIN active' :
          Unfinished(active[j].robTag)' /\ robEntries'[active'[j].robTag].id = j
      BY <1>2, <1>5, <1>7, <2>1 DEF ResultInv, OwedOnce, Unfinished
  <2>3. \A j \in DOMAIN cdbQueue' :
          Unfinished(cdbQueue[j].robTag)' /\ robEntries'[cdbQueue'[j].robTag].id = j
      BY <1>2, <1>4, <1>7 DEF ResultInv, OwedOnce, Unfinished
  <2>4. \A t \in BusyTags' : Unfinished(t)' =>
          robEntries'[t].id \in DOMAIN active' \cup DOMAIN cdbQueue'
    <3> SUFFICES ASSUME NEW t \in BusyTags, Unfinished(t), t # filled
                 PROVE  robEntries[t].id \in DOMAIN active' \cup DOMAIN cdbQueue'
        BY <1>7
    <3>1. robEntries[t].id # k
        BY <1>1, <1>2, SlotOwners DEF Unfinished
    <3> QED
        BY <1>4, <1>5, <3>1 DEF ResultInv, OwedOnce
  <2> QED
      BY <2>1, <2>2, <2>3, <2>4 DEF OwedOnce
<1>11. InstructionsAreStatic'
    BY <1>5, <1>9 DEF ResultInv, InstructionsAreStatic
<1>12. ResultsNameRegisters'
    BY <1>2, <1>3, <1>4, <1>7, <1>9 DEF ResultInv, ResultsNameRegisters, Writer
<1>13. OperandsAwaitWriters'
    BY <1>5, <1>7, <1>9 DEF ResultInv, OperandsAwaitWriters, AwaitsWriter, Unfinished
<1>14. ProducersAreYoungest'
    BY <1>6, <1>7, <1>9 DEF ResultInv, ProducersAreYoungest
<1> QED
    BY <1>10, <1>11, <1>12, <1>13, <1>14 DEF DataflowInv

-----------------------------------------------------------------------------
(* Completion                                                                *)

\* A result moves from the functional unit to the bus queue.
LEMMA CompleteRegisterKeepsResults ==
    ASSUME ResultInv, NEW k \in todo, CompleteRegister(k)
    PROVE  DataflowInv'
<1>1. TypeInv /\ RobInv /\ k \in DOMAIN active
    BY DEF ResultInv, FateInv, RobInv, TypeInv, TypeOK
<1>2. UNCHANGED <<robEntries, regProducer>>
    BY DEF CompleteRegister, Complete, Retire
<1>3. /\ DOMAIN active' = DOMAIN active \ {k}
      /\ \A j \in DOMAIN active' : active'[j] = active[j]
    BY DEF CompleteRegister, Retire, Remove, Restrict
<1>4. k \notin DOMAIN cdbQueue
    BY <1>1 DEF ResultInv, OwedOnce
<1>5. /\ DOMAIN cdbQueue' = DOMAIN cdbQueue \cup {k}
      /\ \A j \in DOMAIN cdbQueue : cdbQueue'[j] = cdbQueue[j]
      /\ cdbQueue'[k].robTag = active[k].robTag /\ cdbQueue'[k].rd = active[k].instr.rd
    BY <1>4 DEF CompleteRegister, Extend
<1>6. /\ BusyTags' = BusyTags /\ \A t : Unfinished(t)' = Unfinished(t)
    BY <1>2 DEF BusyTags, Unfinished
<1>7. [NextAnyTiming]_vars
    BY DEF NextAnyTiming
<1>8. /\ \A j \in DOMAIN active \cup DOMAIN cdbQueue : InstructionOf(j)' = InstructionOf(j)
      /\ \A t \in BusyTags : Writer(t)' = Writer(t)
    BY <1>1, <1>2, <1>7, WritersStay, SlotOwners DEF Writer, InstructionOf
<1>9. active[k].instr = InstructionOf(k)
    BY <1>1 DEF ResultInv, InstructionsAreStatic
<1>10. OwedOnce'
  <2>1. DOMAIN active' \cap DOMAIN cdbQueue' = {}
      BY <1>3, <1>5 DEF ResultInv, OwedOnce
  <2>2. \A j \in DOMAIN active' :
          Unfinished(active[j].robTag)' /\ robEntries'[active'[j].robTag].id = j
      BY <1>2, <1>3, <1>6 DEF ResultInv, OwedOnce, Unfinished
  <2>3. \A j \in DOMAIN cdbQueue' :
          Unfinished(cdbQueue[j].robTag)' /\ robEntries'[cdbQueue'[j].robTag].id = j
      BY <1>1, <1>2, <1>5, <1>6 DEF ResultInv, OwedOnce, Unfinished
  <2>4. \A t \in BusyTags' : Unfinished(t)' =>
          robEntries'[t].id \in DOMAIN active' \cup DOMAIN cdbQueue'
      BY <1>2, <1>3, <1>5, <1>6 DEF ResultInv, OwedOnce
  <2> QED
      BY <2>1, <2>2, <2>3, <2>4 DEF OwedOnce
<1>11. InstructionsAreStatic'
    BY <1>3, <1>8 DEF ResultInv, InstructionsAreStatic
<1>12. ResultsNameRegisters'
    BY <1>1, <1>2, <1>5, <1>6, <1>8, <1>9 DEF ResultInv, ResultsNameRegisters
<1>13. OperandsAwaitWriters'
    BY <1>2, <1>3, <1>6, <1>8 DEF ResultInv, OperandsAwaitWriters, AwaitsWriter, Unfinished
<1>14. ProducersAreYoungest'
    BY <1>2, <1>6, <1>8 DEF ResultInv, ProducersAreYoungest
<1> QED
    BY <1>10, <1>11, <1>12, <1>13, <1>14 DEF DataflowInv

\* Stores and branches write no register.
LEMMA StoresAndBranchesWriteNone ==
    ASSUME TypeInv, NEW k \in DOMAIN active,
           active[k].instr.op = "SD" \/ IsBranch(active[k].instr)
    PROVE  active[k].instr.rd = None
<1>1. active[k].instr \in WellFormedInstructions
    BY DEF TypeInv, TypeOK, ActiveRecords
<1> QED
    BY <1>1 DEF WellFormedInstructions, WellFormed, IsBranch

\* What a store or a branch leaves in its slot when it finishes.
FinishedSlot(k) ==
    LET a == active[k] IN
      IF a.instr.op = "SD"
      THEN [robEntries[a.robTag] EXCEPT !.ready = TRUE, !.writesMemory = TRUE,
                                        !.address = Address(k), !.memoryValue = a.vk]
      ELSE [robEntries[a.robTag] EXCEPT !.ready = TRUE]

\* A store or a branch finishes its own slot.
LEMMA FinishSlots ==
    ASSUME ResultInv, NEW k \in todo, CompleteStore(k) \/ ResolveCorrect(k)
    PROVE  LET slot == active[k].robTag IN
           /\ Unfinished(slot) /\ slot \in Tags /\ robEntries[slot].id = k
           /\ Writer(slot) = active[k].instr /\ Writer(slot).rd = None
           /\ BusyTags' = BusyTags
           /\ robEntries'[slot] = FinishedSlot(k) /\ robEntries'[slot].ready = TRUE
           /\ \A t \in Tags : t # slot => robEntries'[t] = robEntries[t]
           /\ \A t \in BusyTags : robEntries'[t].id = robEntries[t].id /\ Writer(t)' = Writer(t)
<1> DEFINE slot == active[k].robTag
           entry == FinishedSlot(k)
<1>1. RobInv /\ TypeInv /\ robEntries \in [Tags -> RobRecords] /\ k \in DOMAIN active
    BY DEF ResultInv, FateInv, RobInv, TypeInv, TypeOK
<1>2. /\ Unfinished(slot) /\ slot \in Tags /\ robEntries[slot].id = k
      /\ Writer(slot) = active[k].instr
    BY <1>1 DEF ResultInv, OwedOnce, Unfinished, BusyTags, InstructionsAreStatic, Writer
<1>3. active[k].instr.rd = None
    BY <1>1, StoresAndBranchesWriteNone DEF CompleteStore, ResolveCorrect
<1>4. robEntries' = [robEntries EXCEPT ![slot] = entry]
  <2>1. CASE CompleteStore(k)
    <3>1. active[k].instr.op = "SD"
        BY <2>1 DEF CompleteStore
    <3>2. entry = [robEntries[slot] EXCEPT !.ready = TRUE, !.writesMemory = TRUE,
                                           !.address = Address(k), !.memoryValue = active[k].vk]
        BY <3>1 DEF FinishedSlot
    <3>3. robEntries' = [robEntries EXCEPT ![slot] =
              [robEntries[slot] EXCEPT !.ready = TRUE, !.writesMemory = TRUE,
                                       !.address = Address(k), !.memoryValue = active[k].vk]]
        BY <2>1 DEF CompleteStore
    <3> QED
        BY <3>2, <3>3
  <2>2. CASE ResolveCorrect(k)
    <3>1. active[k].instr.op # "SD"
        BY <2>2 DEF ResolveCorrect, IsBranch, BranchOps
    <3>2. entry = [robEntries[slot] EXCEPT !.ready = TRUE]
        BY <3>1 DEF FinishedSlot
    <3>3. robEntries' = [robEntries EXCEPT ![slot].ready = TRUE]
        BY <2>2 DEF ResolveCorrect, BranchReady
    <3> QED
        BY <3>2, <3>3
  <2> QED
      BY <2>1, <2>2
<1>5. entry.busy = robEntries[slot].busy /\ entry.id = robEntries[slot].id /\ entry.ready = TRUE
  <2>1. robEntries[slot] \in RobRecords
      BY <1>1, <1>2
  <2> QED
      BY <2>1 DEF RobRecords, FinishedSlot
<1>6. /\ robEntries'[slot] = entry
      /\ \A t \in Tags : t # slot => robEntries'[t] = robEntries[t]
  <2> HIDE DEF entry
  <2> QED
      BY <1>1, <1>2, <1>4
<1> HIDE DEF entry
<1>7. /\ BusyTags' = BusyTags
      /\ \A t \in BusyTags : robEntries'[t].id = robEntries[t].id
    BY <1>5, <1>6 DEF BusyTags
<1>8. [NextAnyTiming]_vars
    BY DEF NextAnyTiming
<1>9. \A t \in BusyTags : Writer(t)' = Writer(t)
    BY <1>1, <1>7, <1>8, WritersStay, SlotOwners DEF Writer, InstructionOf
<1> QED
    BY <1>2, <1>3, <1>5, <1>6, <1>7, <1>9 DEF entry

\* No operand waits for a store or a branch, as they write no register.
LEMMA FinishKeepsResults ==
    ASSUME ResultInv, NEW k \in todo, CompleteStore(k) \/ ResolveCorrect(k)
    PROVE  DataflowInv'
<1> DEFINE slot == active[k].robTag
<1>1. /\ TypeInv /\ RobInv /\ k \in DOMAIN active
    BY DEF ResultInv, FateInv, RobInv, TypeInv, TypeOK
<1>2. /\ Unfinished(slot) /\ slot \in Tags /\ robEntries[slot].id = k
    BY FinishSlots
<1>3. Writer(slot).rd = None
    BY FinishSlots
<1>4. /\ robEntries'[slot].ready = TRUE
      /\ \A t \in Tags : t # slot => robEntries'[t] = robEntries[t]
    BY FinishSlots
<1>5. /\ DOMAIN active' = DOMAIN active \ {k}
      /\ \A j \in DOMAIN active' : active'[j] = active[j]
      /\ UNCHANGED <<cdbQueue, regProducer>>
    BY DEF CompleteStore, ResolveCorrect, Retire, Remove, Restrict, cdbVars
<1>6. /\ BusyTags' = BusyTags /\ BusyTags \subseteq Tags
      /\ \A t \in BusyTags : robEntries'[t].id = robEntries[t].id
      /\ \A t : Unfinished(t)' <=> Unfinished(t) /\ t # slot
  <2>1. /\ BusyTags' = BusyTags
        /\ \A t \in BusyTags : robEntries'[t].id = robEntries[t].id
      BY FinishSlots
  <2> HIDE DEF slot
  <2> QED
      BY <1>2, <1>4, <2>1 DEF BusyTags, Unfinished
<1>7. [NextAnyTiming]_vars
    BY DEF NextAnyTiming
<1>8. /\ \A j \in DOMAIN active \cup DOMAIN cdbQueue : InstructionOf(j)' = InstructionOf(j)
      /\ \A t \in BusyTags : Writer(t)' = Writer(t)
    BY <1>7, WritersStay, FinishSlots
<1> HIDE DEF slot
<1>9. OwedOnce'
  <2>1. DOMAIN active' \cap DOMAIN cdbQueue' = {} /\ k \notin DOMAIN cdbQueue
      BY <1>1, <1>5 DEF ResultInv, OwedOnce
  <2>2. \A j \in DOMAIN active' :
          Unfinished(active[j].robTag)' /\ robEntries'[active'[j].robTag].id = j
      BY <1>2, <1>5, <1>6 DEF ResultInv, OwedOnce, Unfinished
  <2>3. \A j \in DOMAIN cdbQueue' :
          Unfinished(cdbQueue[j].robTag)' /\ robEntries'[cdbQueue'[j].robTag].id = j
      BY <1>2, <1>5, <1>6, <2>1 DEF ResultInv, OwedOnce, Unfinished
  <2>4. \A t \in BusyTags' : Unfinished(t)' =>
          robEntries'[t].id \in DOMAIN active' \cup DOMAIN cdbQueue'
    <3> SUFFICES ASSUME NEW t \in BusyTags, Unfinished(t), t # slot
                 PROVE  robEntries[t].id \in DOMAIN active' \cup DOMAIN cdbQueue'
        BY <1>6
    <3>1. robEntries[t].id # k
        BY <1>1, <1>2, SlotOwners DEF Unfinished
    <3> QED
        BY <1>5, <3>1 DEF ResultInv, OwedOnce
  <2> QED
      BY <2>1, <2>2, <2>3, <2>4 DEF OwedOnce
<1>10. InstructionsAreStatic'
    BY <1>5, <1>8 DEF ResultInv, InstructionsAreStatic
<1>11. ResultsNameRegisters'
    BY <1>3, <1>4, <1>5, <1>6, <1>8 DEF ResultInv, ResultsNameRegisters
<1>12. OperandsAwaitWriters'
    BY <1>3, <1>5, <1>6, <1>8 DEF ResultInv, OperandsAwaitWriters, AwaitsWriter, Unfinished
<1>13. ProducersAreYoungest'
    BY <1>5, <1>6, <1>8 DEF ResultInv, ProducersAreYoungest
<1> QED
    BY <1>9, <1>10, <1>11, <1>12, <1>13 DEF DataflowInv

-----------------------------------------------------------------------------
(* Recovery                                                                  *)

\* The slots of older instructions stay as they are, and the branch's is ready.
LEMMA FlushSlots ==
    ASSUME ResultInv, NEW k \in todo, ResolveMispredicted(k)
    PROVE  LET slot == active[k].robTag IN
           /\ Unfinished(slot) /\ slot \in Tags /\ robEntries[slot].id = k
           /\ Writer(slot) = active[k].instr /\ Writer(slot).rd = None
           /\ BusyTags' = {t \in BusyTags : robEntries[t].id <= k} /\ slot \in BusyTags'
           /\ robEntries'[slot] = [robEntries[slot] EXCEPT !.ready = TRUE]
           /\ robEntries'[slot].ready = TRUE
           /\ \A t \in BusyTags' : t # slot => robEntries'[t] = robEntries[t]
           /\ \A t \in BusyTags' : robEntries'[t].id = robEntries[t].id /\ Writer(t)' = Writer(t)
<1> DEFINE slot == active[k].robTag
           entry == [robEntries[slot] EXCEPT !.ready = TRUE]
<1>1. /\ RobInv /\ TypeInv /\ robEntries \in [Tags -> RobRecords]
      /\ k \in DOMAIN active /\ k \in Nat
    BY DEF ResultInv, FateInv, RobInv, TypeInv, TypeOK, Ids
<1>2. /\ Unfinished(slot) /\ slot \in Tags /\ slot \in BusyTags /\ robEntries[slot].id = k
      /\ Writer(slot) = active[k].instr
    BY <1>1 DEF ResultInv, OwedOnce, Unfinished, BusyTags, InstructionsAreStatic, Writer
<1>3. active[k].instr.rd = None
    BY <1>1, StoresAndBranchesWriteNone DEF ResolveMispredicted
<1>4. robEntries' = [t \in Tags |-> IF t \in FlushedSlots(k) THEN EmptyEntry
                                   ELSE [robEntries EXCEPT ![slot] = entry][t]]
    BY DEF ResolveMispredicted, EntriesKept, BranchReady
<1>5. entry.busy = robEntries[slot].busy /\ entry.id = robEntries[slot].id /\ entry.ready = TRUE
    BY <1>1, <1>2 DEF RobRecords
<1> HIDE DEF entry
<1>6. \A t \in BusyTags : t \in FlushedSlots(k) <=> ~(robEntries[t].id <= k)
  <2>1. \A t \in BusyTags : robEntries[t].id \in Nat /\ t \in RobSlots
      BY <1>1, SlotOwners DEF RobInv, RobIsWindow, BusyTags
  <2> QED
      BY <1>1, <2>1 DEF FlushedSlots, BusyTags
<1>7. /\ \A t \in Tags : t \in FlushedSlots(k) => robEntries'[t].busy = FALSE
      /\ \A t \in Tags : t \notin FlushedSlots(k) /\ t # slot => robEntries'[t] = robEntries[t]
      /\ slot \notin FlushedSlots(k) /\ robEntries'[slot] = entry
    BY <1>1, <1>2, <1>4, <1>6 DEF EmptyEntry
<1>8. /\ BusyTags' = {t \in BusyTags : robEntries[t].id <= k} /\ slot \in BusyTags'
      /\ \A t \in BusyTags' : t # slot => robEntries'[t] = robEntries[t]
      /\ \A t \in BusyTags' : robEntries'[t].id = robEntries[t].id
  <2>1. \A t \in Tags : t \in BusyTags' <=> t \in BusyTags /\ robEntries[t].id <= k
      BY <1>2, <1>5, <1>6, <1>7 DEF BusyTags
  <2>2. BusyTags' = {t \in BusyTags : robEntries[t].id <= k} /\ slot \in BusyTags'
      BY <1>1, <1>2, <2>1 DEF BusyTags
  <2>3. \A t \in BusyTags' : t \in Tags /\ t \notin FlushedSlots(k)
      BY <1>7 DEF BusyTags
  <2> QED
      BY <1>5, <1>7, <2>2, <2>3
<1>9. [NextAnyTiming]_vars
    BY DEF NextAnyTiming
<1>10. \A t \in BusyTags' : Writer(t)' = Writer(t)
    BY <1>1, <1>8, <1>9, WritersStay, SlotOwners DEF Writer, InstructionOf
<1> QED
    BY <1>2, <1>3, <1>5, <1>7, <1>8, <1>10 DEF entry

\* Everything younger than the branch is forgotten at once, and whatever stays
\* depends on older instructions only.
LEMMA FlushKeepsResults ==
    ASSUME ResultInv, NEW k \in todo, ResolveMispredicted(k)
    PROVE  DataflowInv'
<1> DEFINE slot == active[k].robTag
<1>1. /\ TypeInv /\ RobInv /\ k \in DOMAIN active /\ k \in Nat
      /\ DOMAIN active \subseteq Nat /\ DOMAIN cdbQueue \subseteq Nat
      /\ regProducer \in [Registers -> Sources]
    BY DEF ResultInv, FateInv, RobInv, TypeInv, TypeOK, Ids
<1>2. /\ Unfinished(slot) /\ slot \in Tags /\ robEntries[slot].id = k
    BY FlushSlots
<1>3. Writer(slot).rd = None
    BY FlushSlots
<1>4. robEntries' = EntriesKept(k)
    BY DEF ResolveMispredicted
<1>7. /\ DOMAIN active' = {j \in DOMAIN active : j < k}
      /\ \A j \in DOMAIN active' : active'[j] = active[j]
  <2>1. active' = Remove(UpTo(active, k), k)
      BY DEF ResolveMispredicted
  <2> QED
      BY <1>1, <2>1 DEF Remove, UpTo, Restrict
<1>8. /\ DOMAIN cdbQueue' = {j \in DOMAIN cdbQueue : j < k}
      /\ \A j \in DOMAIN cdbQueue' : cdbQueue'[j] = cdbQueue[j]
  <2>1. cdbQueue' = UpTo(cdbQueue, k) /\ k \notin DOMAIN cdbQueue
      BY <1>1 DEF ResultInv, OwedOnce, ResolveMispredicted
  <2> QED
      BY <1>1, <2>1 DEF UpTo, Restrict
<1>9. \A r \in Registers : regProducer'[r] # None =>
          /\ regProducer'[r] = regProducer[r]
          /\ robEntries'[regProducer[r]].busy /\ robEntries'[regProducer[r]].id <= k
    BY <1>4 DEF ResolveMispredicted, ProducersKept
<1>10. /\ slot \in BusyTags
    BY <1>2 DEF Unfinished
<1>11. /\ BusyTags' = {t \in BusyTags : robEntries[t].id <= k} /\ BusyTags \subseteq Tags
       /\ \A t \in BusyTags' : robEntries'[t].id = robEntries[t].id
       /\ \A t \in BusyTags' : t # slot => robEntries'[t] = robEntries[t]
       /\ \A t : Unfinished(t)' <=> Unfinished(t) /\ robEntries[t].id <= k /\ t # slot
  <2>1. /\ BusyTags' = {t \in BusyTags : robEntries[t].id <= k} /\ slot \in BusyTags'
        /\ \A t \in BusyTags' : robEntries'[t].id = robEntries[t].id
        /\ \A t \in BusyTags' : t # slot => robEntries'[t] = robEntries[t]
        /\ robEntries'[slot].ready = TRUE
      BY FlushSlots
  <2> HIDE DEF slot
  <2> QED
      BY <2>1 DEF Unfinished, BusyTags
<1>12. [NextAnyTiming]_vars
    BY DEF NextAnyTiming
<1>13. /\ \A j \in DOMAIN active \cup DOMAIN cdbQueue : InstructionOf(j)' = InstructionOf(j)
       /\ \A t \in BusyTags' : Writer(t)' = Writer(t)
    BY <1>12, WritersStay, FlushSlots
<1> HIDE DEF slot
<1>14. OwedOnce'
  <2>1. DOMAIN active' \cap DOMAIN cdbQueue' = {}
      BY <1>7, <1>8 DEF ResultInv, OwedOnce
  <2>2. \A j \in DOMAIN active' :
          Unfinished(active[j].robTag)' /\ robEntries'[active'[j].robTag].id = j
      BY <1>1, <1>2, <1>7, <1>11 DEF ResultInv, OwedOnce, Unfinished
  <2>3. \A j \in DOMAIN cdbQueue' :
          Unfinished(cdbQueue[j].robTag)' /\ robEntries'[cdbQueue'[j].robTag].id = j
      BY <1>1, <1>2, <1>8, <1>11 DEF ResultInv, OwedOnce, Unfinished
  <2>4. \A t \in BusyTags' : Unfinished(t)' =>
          robEntries'[t].id \in DOMAIN active' \cup DOMAIN cdbQueue'
    <3> SUFFICES ASSUME NEW t \in BusyTags, Unfinished(t), robEntries[t].id <= k, t # slot
                 PROVE  robEntries[t].id \in DOMAIN active' \cup DOMAIN cdbQueue'
        BY <1>11
    <3>1. robEntries[t].id # k /\ robEntries[t].id \in Nat
        BY <1>1, <1>2, <1>10, SlotOwners
    <3>2. robEntries[t].id < k
        BY <1>1, <3>1
    <3> QED
        BY <1>7, <1>8, <3>2 DEF ResultInv, OwedOnce
  <2> QED
      BY <2>1, <2>2, <2>3, <2>4 DEF OwedOnce
<1>15. InstructionsAreStatic'
    BY <1>7, <1>13 DEF ResultInv, InstructionsAreStatic
<1>16. ResultsNameRegisters'
    BY <1>3, <1>8, <1>11, <1>13 DEF ResultInv, ResultsNameRegisters
<1>17. OperandsAwaitWriters'
  <2> DEFINE StillAwaits(j, tag, reg) ==
        tag # None => /\ reg # None /\ Unfinished(tag)'
                      /\ robEntries'[tag].id < j /\ Writer(tag)'.rd = reg
  <2>1. ASSUME NEW j \in DOMAIN active', NEW tag, NEW reg, AwaitsWriter(j, tag, reg)
        PROVE  StillAwaits(j, tag, reg)
    <3> SUFFICES ASSUME tag # None
                 PROVE  reg # None /\ Unfinished(tag)' /\ robEntries'[tag].id < j /\ Writer(tag)'.rd = reg
        OBVIOUS
    <3>1. /\ reg # None /\ Unfinished(tag) /\ tag \in BusyTags
          /\ robEntries[tag].id < j /\ Writer(tag).rd = reg
        BY <2>1 DEF AwaitsWriter, Unfinished
    <3>2. robEntries[tag].id \in Nat /\ j \in Nat /\ j < k
        BY <1>1, <1>7, <3>1, SlotOwners
    <3>3. robEntries[tag].id <= k /\ tag # slot
        BY <1>1, <1>3, <3>1, <3>2
    <3>4. tag \in BusyTags' /\ Unfinished(tag)'
        BY <1>11, <3>1, <3>3
    <3> QED
        BY <1>11, <1>13, <3>1, <3>4
  <2> HIDE DEF StillAwaits
  <2>2. \A j \in DOMAIN active' : /\ StillAwaits(j, active[j].qj, active[j].instr.rs1)
                                  /\ StillAwaits(j, active[j].qk, active[j].instr.rs2)
      BY <2>1, <1>7 DEF ResultInv, OperandsAwaitWriters
  <2> QED
      BY <2>2, <1>7 DEF StillAwaits, OperandsAwaitWriters, AwaitsWriter, Unfinished, Writer, InstructionOf
<1>18. ProducersAreYoungest'
  <2> SUFFICES ASSUME NEW r \in Registers, regProducer'[r] # None
               PROVE  /\ regProducer'[r] \in BusyTags'
                      /\ \A p \in Tags : p = regProducer'[r] =>
                           /\ Writer(p)'.rd = r
                           /\ \A t \in BusyTags' : Writer(t)'.rd = r =>
                                robEntries'[t].id <= robEntries'[p].id
      BY <1>11, SlotOwners DEF ProducersAreYoungest, Writer, InstructionOf, BusyTags
  <2>1. /\ regProducer'[r] = regProducer[r] /\ robEntries'[regProducer[r]].busy
        /\ regProducer[r] # None
      BY <1>9
  <2>2. /\ regProducer[r] \in BusyTags /\ Writer(regProducer[r]).rd = r
        /\ \A t \in BusyTags : Writer(t).rd = r =>
             robEntries[t].id <= robEntries[regProducer[r]].id
      BY <2>1 DEF ResultInv, ProducersAreYoungest
  <2>3. regProducer[r] \in BusyTags'
      BY <1>11, <2>1, <2>2 DEF BusyTags
  <2> QED
      BY <1>11, <1>13, <2>1, <2>2, <2>3
<1> QED
    BY <1>14, <1>15, <1>16, <1>17, <1>18 DEF DataflowInv

-----------------------------------------------------------------------------
(* Every step                                                                *)

\* Nothing is in flight at the start.
LEMMA InitResults == Init => ResultInv
<1> SUFFICES ASSUME Init PROVE ResultInv
    OBVIOUS
<1>1. FateInv
    BY InitFates
<1>2. /\ DOMAIN active = {} /\ DOMAIN cdbQueue = {} /\ BusyTags = {}
      /\ \A r \in Registers : regProducer[r] = None
    BY DEF Init, EmptyFunction, BusyTags, EmptyEntry
<1> QED
    BY <1>1, <1>2 DEF ResultInv, OwedOnce, InstructionsAreStatic, ResultsNameRegisters,
       OperandsAwaitWriters, ProducersAreYoungest

\* Whatever the timing, every step keeps what is owed, awaited and renamed.
LEMMA AnyTimingResults == ResultInv /\ [NextAnyTiming]_vars => ResultInv'
<1> SUFFICES ASSUME ResultInv, [NextAnyTiming]_vars PROVE ResultInv'
    OBVIOUS
<1>1. FateInv' /\ TypeInv
    BY AnyTimingFates DEF ResultInv, FateInv, RobInv
<1>2. ASSUME NEW predictedTaken \in BOOLEAN, Issue(predictedTaken) PROVE DataflowInv'
    BY <1>2, IssueKeepsResults
<1>3. ASSUME NEW k \in todo, VisitAnyTiming(k) PROVE DataflowInv'
    BY <1>1, <1>3, VisitIsQuiet, QuietKeepsResults
<1>4. CASE Commit
    BY <1>1, <1>4, CommitKeepsResults DEF ResultInv, DataflowInv
<1>5. ASSUME NEW k \in DOMAIN cdbQueue, Broadcast(k) PROVE DataflowInv'
    BY <1>5, BroadcastKeepsResults
<1>6. ASSUME NEW k \in todo,
             \/ CompleteRegister(k) \/ CompleteStore(k)
             \/ ResolveCorrect(k) \/ ResolveMispredicted(k)
      PROVE  DataflowInv'
    BY <1>6, CompleteRegisterKeepsResults, FinishKeepsResults, FlushKeepsResults
<1>7. CASE \/ StallIssue \/ Finish \/ NoCommit \/ NoBroadcast \/ EndCycle \/ Done
           \/ UNCHANGED vars
    BY <1>1, <1>7, IdleIsQuiet, QuietKeepsResults DEF ResultInv, DataflowInv
<1>8. DataflowInv'
    BY <1>2, <1>3, <1>4, <1>5, <1>6, <1>7, CommitKeepsResults, IdleIsQuiet, QuietKeepsResults
    DEF NextAnyTiming
<1> QED
    BY <1>1, <1>8 DEF ResultInv, DataflowInv

LEMMA NextResults == ResultInv /\ [Next]_vars => ResultInv'
BY AnyTimingResults, NextIsAnyTiming DEF ResultInv, FateInv, RobInv

\* The busy slots are those of the window.
LEMMA BusyTagsAreWindow ==
    ASSUME RobInv
    PROVE  BusyTags = {Slot(n) : n \in Window}
<1>1. /\ robHead \in Tags /\ robCount \in 0 .. RobCapacity /\ RobCapacity \in Nat \ {0}
      /\ \A t \in Tags : robEntries[t].busy <=> t \in RobSlots
    BY RobCapacityAssumption DEF RobInv, TypeInv, TypeOK, RobIsWindow
<1>2. RobSlots = {Slot(n) : n \in Window} /\ \A n \in Window : Slot(n) \in Tags
    BY <1>1, SlotFacts DEF RobSlots, Slot, Window
<1> QED
    BY <1>1, <1>2 DEF BusyTags

\* Slot by slot, position by position or id by id: the same claims.
LEMMA ResultsBySlot ==
    ResultInv => ResultsAreOwedOnce /\ WaitersHaveProducers /\ RenameIsYoungestWriter
<1> SUFFICES ASSUME ResultInv
             PROVE  ResultsAreOwedOnce /\ WaitersHaveProducers /\ RenameIsYoungestWriter
    OBVIOUS
<1>1. RobInv /\ TypeInv
    BY DEF ResultInv, FateInv, RobInv
<1>2. BusyTags = {Slot(n) : n \in Window}
    BY <1>1, BusyTagsAreWindow
<1>3. ResultsAreOwedOnce
  <2>1. {Entry(n).id : n \in UnfinishedEntries} = {robEntries[t].id : t \in {t \in BusyTags : Unfinished(t)}}
      BY <1>2 DEF UnfinishedEntries, Entry, Unfinished
  <2>2. DOMAIN active \cup DOMAIN cdbQueue
            = {robEntries[t].id : t \in {t \in BusyTags : Unfinished(t)}}
      BY DEF ResultInv, OwedOnce, Unfinished
  <2> QED
      BY <2>1, <2>2 DEF ResultInv, OwedOnce, ResultsAreOwedOnce
<1>4. WaitersHaveProducers
    BY DEF ResultInv, OperandsAwaitWriters, AwaitsWriter, WaitersHaveProducers, Awaits,
       Unfinished, BusyTags, Writer
<1>5. RenameIsYoungestWriter
  <2>1. InFlight = {robEntries[t].id : t \in BusyTags}
      BY <1>1, InFlightByTag DEF InFlightHoldBusyTags
  <2> QED
      BY <2>1 DEF ResultInv, ProducersAreYoungest, RenameIsYoungestWriter, WritersInFlight, Writer
<1> QED
    BY <1>3, <1>4, <1>5

(***************************************************************************)
(* For every machine and program, each unfinished ROB entry is owed its      *)
(* result exactly once: completion, broadcast and flush lose none, duplicate *)
(* none, and deliver none to a slot that has changed hands.                  *)
(***************************************************************************)
THEOREM ResultsOwedOnce == Spec => []ResultsAreOwedOnce
<1>1. ResultInv => ResultsAreOwedOnce
    BY ResultsBySlot
<1> QED
    BY <1>1, InitResults, NextResults, PTL DEF Spec

(***************************************************************************)
(* For every machine and program, an operand that waits names an older,      *)
(* unfinished instruction that writes the register it reads: no operand is   *)
(* woken by a stranger, none waits for a result that will not come.          *)
(***************************************************************************)
THEOREM WaitersProducers == Spec => []WaitersHaveProducers
<1>1. ResultInv => WaitersHaveProducers
    BY ResultsBySlot
<1> QED
    BY <1>1, InitResults, NextResults, PTL DEF Spec

(***************************************************************************)
(* For every machine and program, a rename names the youngest instruction in *)
(* flight that writes the register, after any commits and flushes.           *)
(***************************************************************************)
THEOREM RenameYoungest == Spec => []RenameIsYoungestWriter
<1>1. ResultInv => RenameIsYoungestWriter
    BY ResultsBySlot
<1> QED
    BY <1>1, InitResults, NextResults, PTL DEF Spec

-----------------------------------------------------------------------------
(* Loads against the stores before them.  The load/store queue and the        *)
(* reorder buffer agree, a store's queue entry is final once its address is   *)
(* known, and what a load has seen when it starts - the youngest older store  *)
(* to its address, or memory - is what it would see at any later step, until  *)
(* it completes.                                                              *)

-----------------------------------------------------------------------------
(* Slots from one step to the next                                           *)

\* What a broadcast leaves in the slot it fills.
LEMMA BroadcastFields ==
    ASSUME ResultInv, NEW b \in DOMAIN cdbQueue, Broadcast(b)
    PROVE  LET filled == cdbQueue[b].robTag IN
           /\ filled \in BusyTags /\ filled \in BusyTags' /\ ~robEntries[filled].ready
           /\ robEntries[filled].id = b /\ robEntries'[filled].id = b
           /\ Writer(filled).rd # None
           /\ \A t \in BusyTags : Writer(t)' = Writer(t)
           /\ robEntries'[filled].ready /\ robEntries'[filled].value = cdbQueue[b].value
           /\ robEntries'[filled].writesMemory = robEntries[filled].writesMemory
<1> DEFINE msg == cdbQueue[b]
           filled == msg.robTag
<1>1. /\ Unfinished(filled) /\ robEntries[filled].id = b /\ msg.rd = InstructionOf(b).rd
      /\ BusyTags' = BusyTags /\ filled \in Tags
      /\ robEntries'[filled] =
           [robEntries[filled] EXCEPT !.ready = TRUE, !.writesRegister = TRUE,
                                      !.rd = msg.rd, !.value = msg.value]
      /\ \A t \in BusyTags : robEntries'[t].id = robEntries[t].id /\ Writer(t)' = Writer(t)
    BY BroadcastSlots
<1>2. robEntries[filled] \in RobRecords /\ msg \in Messages
    BY <1>1 DEF ResultInv, FateInv, RobInv, TypeInv, TypeOK
<1>3. msg.rd # None
    BY <1>2 DEF Messages, Registers, None
<1>4. Writer(filled).rd # None
    BY <1>1, <1>3 DEF Writer
<1> HIDE DEF msg, filled
<1>5. /\ robEntries'[filled].ready /\ robEntries'[filled].value = msg.value
      /\ robEntries'[filled].writesMemory = robEntries[filled].writesMemory
    BY <1>1, <1>2 DEF RobRecords
<1>6. filled \in BusyTags /\ ~robEntries[filled].ready
    BY <1>1 DEF Unfinished
<1> QED
    BY <1>1, <1>4, <1>5, <1>6 DEF msg, filled

\* What a store or a branch leaves in its slot.
LEMMA FinishFields ==
    ASSUME ResultInv, NEW k \in todo,
           CompleteStore(k) \/ ResolveCorrect(k) \/ ResolveMispredicted(k)
    PROVE  LET slot == active[k].robTag IN
           /\ slot \in BusyTags /\ slot \in BusyTags' /\ ~robEntries[slot].ready
           /\ robEntries[slot].id = k /\ robEntries'[slot].id = k /\ robEntries'[slot].ready
           /\ Writer(slot) = active[k].instr /\ Writer(slot).rd = None
           /\ \A t \in BusyTags' : t \in BusyTags => Writer(t)' = Writer(t)
           /\ robEntries'[slot].writesRegister = robEntries[slot].writesRegister
           /\ IF active[k].instr.op = "SD"
              THEN /\ CompleteStore(k) /\ robEntries'[slot].writesMemory
                   /\ robEntries'[slot].address = Address(k)
                   /\ robEntries'[slot].memoryValue = active[k].vk
              ELSE /\ IsBranch(active[k].instr)
                   /\ robEntries'[slot].writesMemory = robEntries[slot].writesMemory
<1> DEFINE slot == active[k].robTag
<1>1. /\ Unfinished(slot) /\ slot \in BusyTags' /\ slot \in Tags
      /\ robEntries[slot].id = k /\ robEntries'[slot].id = k /\ robEntries'[slot].ready
      /\ Writer(slot) = active[k].instr /\ Writer(slot).rd = None
      /\ \A t \in BusyTags' : t \in BusyTags => Writer(t)' = Writer(t)
      /\ robEntries'[slot] = FinishedSlot(k)
  <2>1. CASE CompleteStore(k) \/ ResolveCorrect(k)
    <3>1. /\ Unfinished(slot) /\ BusyTags' = BusyTags /\ slot \in Tags
          /\ robEntries[slot].id = k /\ robEntries'[slot].ready
          /\ Writer(slot) = active[k].instr /\ Writer(slot).rd = None
          /\ robEntries'[slot] = FinishedSlot(k)
          /\ \A t \in BusyTags : robEntries'[t].id = robEntries[t].id /\ Writer(t)' = Writer(t)
        BY <2>1, FinishSlots
    <3> QED
        BY <3>1 DEF Unfinished
  <2>2. CASE ResolveMispredicted(k)
    <3>1. /\ Unfinished(slot) /\ slot \in BusyTags' /\ slot \in Tags
          /\ robEntries[slot].id = k /\ robEntries'[slot].ready
          /\ Writer(slot) = active[k].instr /\ Writer(slot).rd = None
          /\ robEntries'[slot] = [robEntries[slot] EXCEPT !.ready = TRUE]
          /\ \A t \in BusyTags' : robEntries'[t].id = robEntries[t].id /\ Writer(t)' = Writer(t)
        BY <2>2, FlushSlots
    <3>2. active[k].instr.op # "SD"
        BY <2>2 DEF ResolveMispredicted, IsBranch, BranchOps
    <3> QED
        BY <3>1, <3>2 DEF FinishedSlot
  <2> QED
      BY <2>1, <2>2
<1>2. robEntries[slot] \in RobRecords
    BY <1>1 DEF ResultInv, FateInv, RobInv, TypeInv, TypeOK
<1>3. CASE active[k].instr.op = "SD"
  <2>1. CompleteStore(k)
      BY <1>3 DEF ResolveCorrect, ResolveMispredicted, IsBranch, BranchOps
  <2>2. robEntries'[slot] = [robEntries[slot] EXCEPT !.ready = TRUE, !.writesMemory = TRUE,
                                 !.address = Address(k), !.memoryValue = active[k].vk]
      BY <1>1, <1>3 DEF FinishedSlot
  <2> HIDE DEF slot
  <2>3. /\ robEntries'[slot].writesRegister = robEntries[slot].writesRegister
        /\ robEntries'[slot].writesMemory /\ robEntries'[slot].address = Address(k)
        /\ robEntries'[slot].memoryValue = active[k].vk
      BY <1>2, <2>2 DEF RobRecords
  <2> QED
      BY <1>1, <1>3, <2>1, <2>3 DEF Unfinished, slot
<1>4. CASE active[k].instr.op # "SD"
  <2>1. robEntries'[slot] = [robEntries[slot] EXCEPT !.ready = TRUE]
      BY <1>1, <1>4 DEF FinishedSlot
  <2>2. IsBranch(active[k].instr)
      BY <1>4 DEF CompleteStore, ResolveCorrect, ResolveMispredicted
  <2> HIDE DEF slot
  <2>3. /\ robEntries'[slot].writesRegister = robEntries[slot].writesRegister
        /\ robEntries'[slot].writesMemory = robEntries[slot].writesMemory
      BY <1>2, <2>1 DEF RobRecords
  <2> QED
      BY <1>1, <1>4, <2>2, <2>3 DEF Unfinished, slot
<1> QED
    BY <1>3, <1>4

\* An entry stays as it is, or it is the one the step issues, fills or finishes.
LEMMA EntrySteps ==
    ASSUME ResultInv, [NextAnyTiming]_vars, NEW t \in BusyTags'
    PROVE  \/ t \in BusyTags /\ robEntries'[t] = robEntries[t] /\ Writer(t)' = Writer(t)
           \/ \E predictedTaken \in BOOLEAN : Issue(predictedTaken) /\ t = robTail
           \/ \E b \in DOMAIN cdbQueue : Broadcast(b) /\ t = cdbQueue[b].robTag
           \/ \E k \in todo :
                /\ CompleteStore(k) \/ ResolveCorrect(k) \/ ResolveMispredicted(k)
                /\ t = active[k].robTag
<1> DEFINE Kept == t \in BusyTags /\ robEntries'[t] = robEntries[t] /\ Writer(t)' = Writer(t)
<1>1. RobInv /\ TypeInv /\ t \in Tags
    BY DEF ResultInv, FateInv, RobInv, BusyTags
<1>2. ASSUME UNCHANGED robEntries PROVE Kept
  <2>1. t \in BusyTags /\ robEntries'[t] = robEntries[t]
      BY <1>2 DEF BusyTags
  <2> QED
      BY <1>1, <2>1, WritersStay, SlotOwners DEF Writer, InstructionOf
<1>3. ASSUME NEW predictedTaken \in BOOLEAN, Issue(predictedTaken), t # robTail PROVE Kept
    BY <1>3, IssueSlots
<1>4. ASSUME Commit PROVE Kept
    BY <1>4, CommitSlots
<1>5. ASSUME NEW b \in DOMAIN cdbQueue, Broadcast(b), t # cdbQueue[b].robTag PROVE Kept
  <2>1. /\ BusyTags' = BusyTags
        /\ \A s \in Tags : s # cdbQueue[b].robTag => robEntries'[s] = robEntries[s]
        /\ \A s \in BusyTags : Writer(s)' = Writer(s)
      BY <1>5, BroadcastSlots
  <2> QED
      BY <1>1, <1>5, <2>1
<1>6. ASSUME NEW k \in todo, CompleteStore(k) \/ ResolveCorrect(k), t # active[k].robTag
      PROVE  Kept
  <2>1. /\ BusyTags' = BusyTags
        /\ \A s \in Tags : s # active[k].robTag => robEntries'[s] = robEntries[s]
        /\ \A s \in BusyTags : Writer(s)' = Writer(s)
      BY <1>6, FinishSlots
  <2> QED
      BY <1>1, <1>6, <2>1
<1>7. ASSUME NEW k \in todo, ResolveMispredicted(k), t # active[k].robTag PROVE Kept
  <2>1. /\ BusyTags' \subseteq BusyTags
        /\ \A s \in BusyTags' : s # active[k].robTag => robEntries'[s] = robEntries[s]
        /\ \A s \in BusyTags' : Writer(s)' = Writer(s)
      BY <1>7, FlushSlots
  <2> QED
      BY <1>1, <1>7, <2>1
<1>8. ASSUME NEW k \in todo, VisitAnyTiming(k) \/ CompleteRegister(k) PROVE UNCHANGED robEntries
    BY <1>1, <1>8, VisitIsQuiet DEF QuietStep, CompleteRegister
<1>9. ASSUME \/ StallIssue \/ Finish \/ NoCommit \/ NoBroadcast \/ EndCycle \/ Done
             \/ UNCHANGED vars
      PROVE  UNCHANGED robEntries
    BY <1>9, IdleIsQuiet DEF QuietStep
<1> HIDE DEF Kept
<1>10. \/ Kept
       \/ \E predictedTaken \in BOOLEAN : Issue(predictedTaken) /\ t = robTail
       \/ \E b \in DOMAIN cdbQueue : Broadcast(b) /\ t = cdbQueue[b].robTag
       \/ \E k \in todo :
            /\ CompleteStore(k) \/ ResolveCorrect(k) \/ ResolveMispredicted(k)
            /\ t = active[k].robTag
    BY <1>2, <1>3, <1>4, <1>5, <1>6, <1>7, <1>8, <1>9 DEF NextAnyTiming
<1> QED
    BY <1>10 DEF Kept

\* An entry that stays keeps its instruction, and a finished one all it holds.
LEMMA FinishedEntriesStay ==
    ASSUME ResultInv, [NextAnyTiming]_vars
    PROVE  \A t \in BusyTags : t \in BusyTags' =>
             /\ robEntries'[t].id = robEntries[t].id /\ Writer(t)' = Writer(t)
             /\ robEntries[t].ready => robEntries'[t] = robEntries[t]
<1> SUFFICES ASSUME NEW t \in BusyTags, t \in BusyTags'
             PROVE  /\ robEntries'[t].id = robEntries[t].id /\ Writer(t)' = Writer(t)
                    /\ robEntries[t].ready => robEntries'[t] = robEntries[t]
    OBVIOUS
<1>1. ASSUME NEW predictedTaken \in BOOLEAN, Issue(predictedTaken) PROVE t # robTail
    BY <1>1, IssueSlots
<1>2. ASSUME NEW b \in DOMAIN cdbQueue, Broadcast(b), t = cdbQueue[b].robTag
      PROVE  /\ robEntries'[t].id = robEntries[t].id /\ Writer(t)' = Writer(t)
             /\ ~robEntries[t].ready
    BY <1>2, BroadcastFields
<1>3. ASSUME NEW k \in todo, t = active[k].robTag,
             CompleteStore(k) \/ ResolveCorrect(k) \/ ResolveMispredicted(k)
      PROVE  /\ robEntries'[t].id = robEntries[t].id /\ Writer(t)' = Writer(t)
             /\ ~robEntries[t].ready
    BY <1>3, FinishFields
<1> QED
    BY <1>1, <1>2, <1>3, EntrySteps

\* Only these steps free a slot or give one away.
MovesSlots ==
    \/ \E predictedTaken \in BOOLEAN : Issue(predictedTaken)
    \/ Commit
    \/ \E k \in todo : ResolveMispredicted(k)

LEMMA BusyTagsStay ==
    ASSUME ResultInv, [NextAnyTiming]_vars, ~MovesSlots
    PROVE  BusyTags' = BusyTags
<1>1. ASSUME UNCHANGED robEntries PROVE BusyTags' = BusyTags
    BY <1>1 DEF BusyTags
<1>2. ASSUME NEW k \in todo, VisitAnyTiming(k) \/ CompleteRegister(k) PROVE UNCHANGED robEntries
    BY <1>2, VisitIsQuiet DEF QuietStep, CompleteRegister, ResultInv, FateInv, RobInv
<1>3. CASE \/ StallIssue \/ Finish \/ NoCommit \/ NoBroadcast \/ EndCycle \/ Done
           \/ UNCHANGED vars
    BY <1>1, <1>3, IdleIsQuiet DEF QuietStep
<1>4. ASSUME NEW k \in DOMAIN cdbQueue, Broadcast(k) PROVE BusyTags' = BusyTags
    BY <1>4, BroadcastSlots
<1>5. ASSUME NEW k \in todo, CompleteStore(k) \/ ResolveCorrect(k) PROVE BusyTags' = BusyTags
    BY <1>5, FinishSlots
<1> QED
    BY <1>1, <1>2, <1>3, <1>4, <1>5 DEF NextAnyTiming, MovesSlots

\* What is in flight after a step, in terms of what was.
LEMMA InFlightSteps ==
    ASSUME ResultInv, [NextAnyTiming]_vars
    PROVE  /\ InFlight = {robEntries[t].id : t \in BusyTags} /\ InFlight \subseteq Ids
           /\ InFlight' = {robEntries'[t].id : t \in BusyTags'}
           /\ \A id \in InFlight' : id \in InFlight \/ id = nextId
           /\ ~MovesSlots => InFlight' = InFlight
           /\ nextId \in Nat /\ Ids \subseteq Nat
<1>1. RobInv /\ RobInv' /\ TypeInv
    BY AnyTimingWindow DEF ResultInv, FateInv, RobInv
<1>2. /\ InFlight = {robEntries[t].id : t \in BusyTags} /\ InFlight \subseteq Ids
      /\ InFlight' = {robEntries'[t].id : t \in BusyTags'}
    BY <1>1, InFlightByTag, InFlightByTagNext DEF InFlightHoldBusyTags
<1>3. nextId \in Nat /\ Ids \subseteq Nat
    BY <1>1 DEF TypeInv, TypeOK, Ids
<1>4. ASSUME NEW predictedTaken \in BOOLEAN, Issue(predictedTaken)
      PROVE  InFlight' = InFlight \cup {nextId}
    BY <1>1, <1>4, IssueInFlight
<1>5. ASSUME Commit PROVE InFlight' \subseteq InFlight
    BY <1>1, <1>5, CommitInFlight
<1>6. ASSUME NEW k \in todo, ResolveMispredicted(k) PROVE InFlight' \subseteq InFlight
    BY <1>1, <1>6, ResolveMispredictedInFlight
<1>7. ASSUME ~MovesSlots PROVE InFlight' = InFlight
    BY <1>2, <1>7, BusyTagsStay, FinishedEntriesStay
<1> QED
    BY <1>2, <1>3, <1>4, <1>5, <1>6, <1>7 DEF MovesSlots

OlderSlots(id) == {t \in BusyTags : robEntries[t].id < id}

\* Seen from an instruction that stays in flight, only a commit changes which
\* slots are older.
LEMMA OlderSlotsStay ==
    ASSUME ResultInv, [NextAnyTiming]_vars, ~Commit, NEW id \in InFlight, id \in InFlight'
    PROVE  OlderSlots(id)' = OlderSlots(id)
<1>1. RobInv /\ TypeInv /\ id \in Nat /\ id < nextId /\ nextId \in Nat /\ RobInv'
    BY InFlightSteps, AnyTimingWindow DEF ResultInv, FateInv, RobInv, Ids
<1>2. /\ \A t \in BusyTags : robEntries[t].id \in Nat
      /\ \A t \in BusyTags : t \in BusyTags' => robEntries'[t].id = robEntries[t].id
    BY <1>1, SlotOwners, FinishedEntriesStay
<1>3. ASSUME NEW predictedTaken \in BOOLEAN, Issue(predictedTaken)
      PROVE  OlderSlots(id)' = OlderSlots(id)
  <2>1. BusyTags' = BusyTags \cup {robTail} /\ robEntries'[robTail].id = nextId
      BY <1>3, IssueSlots
  <2> QED
      BY <1>1, <1>2, <2>1 DEF OlderSlots
<1>4. ASSUME NEW k \in todo, ResolveMispredicted(k) PROVE OlderSlots(id)' = OlderSlots(id)
  <2>1. BusyTags' = {t \in BusyTags : robEntries[t].id <= k}
      BY <1>4, FlushSlots
  <2>2. id <= k /\ k \in Nat
      BY <1>1, <1>4, ResolveMispredictedInFlight DEF TypeInv, TypeOK, Ids
  <2> QED
      BY <1>1, <1>2, <2>1, <2>2 DEF OlderSlots
<1>5. CASE ~MovesSlots
    BY <1>2, <1>5, BusyTagsStay DEF OlderSlots
<1> QED
    BY <1>3, <1>4, <1>5 DEF MovesSlots

\* A commit takes the oldest away.
LEMMA CommitOlderSlots ==
    ASSUME ResultInv, Commit, NEW id \in InFlight, id \in InFlight'
    PROVE  /\ robHead \in OlderSlots(id) /\ robEntries[robHead].ready
           /\ OlderSlots(id)' = OlderSlots(id) \ {robHead}
<1>1. /\ robHead \in BusyTags /\ robEntries[robHead].ready
      /\ BusyTags' = BusyTags \ {robHead}
      /\ \A t \in BusyTags' : robEntries'[t] = robEntries[t]
      /\ \A t \in BusyTags' : robEntries[robHead].id < robEntries[t].id
    BY CommitSlots
<1>2. [NextAnyTiming]_vars
    BY DEF NextAnyTiming
<1>3. \E t \in BusyTags' : robEntries[t].id = id
    BY <1>1, <1>2, InFlightSteps
<1> QED
    BY <1>1, <1>3 DEF OlderSlots

-----------------------------------------------------------------------------
(* Instructions from one step to the next                                    *)

\* A visit changes how far an instruction is, not what it is or works on; what a
\* load found forwarded is settled when it starts.
LEMMA VisitedFields ==
    ASSUME TypeInv, NEW k \in todo, VisitAnyTiming(k)
    PROVE  /\ k \in DOMAIN active /\ DOMAIN active' = DOMAIN active
           /\ \A j \in DOMAIN active : j # k => active'[j] = active[j]
           /\ active'[k].instr = active[k].instr /\ active'[k].robTag = active[k].robTag
           /\ active'[k].predictedTaken = active[k].predictedTaken
           /\ active'[k].qj = active[k].qj /\ active'[k].qk = active[k].qk
           /\ active'[k].vj = active[k].vj /\ active'[k].vk = active[k].vk
           /\ IF active[k].executing
              THEN /\ active'[k].executing
                   /\ active'[k].hasForwarded = active[k].hasForwarded
                   /\ active'[k].forwarded = active[k].forwarded
              ELSE active'[k].executing =>
                   /\ CanStart(k)
                   /\ active'[k].hasForwarded = Checked(k).hasForwarded
                   /\ active'[k].forwarded = Checked(k).forwarded
<1> DEFINE Visited(a) ==
        /\ a.instr = active[k].instr /\ a.robTag = active[k].robTag
        /\ a.predictedTaken = active[k].predictedTaken
        /\ a.qj = active[k].qj /\ a.qk = active[k].qk
        /\ a.vj = active[k].vj /\ a.vk = active[k].vk
        /\ IF active[k].executing
           THEN /\ a.executing
                /\ a.hasForwarded = active[k].hasForwarded
                /\ a.forwarded = active[k].forwarded
           ELSE a.executing =>
                /\ CanStart(k)
                /\ a.hasForwarded = Checked(k).hasForwarded
                /\ a.forwarded = Checked(k).forwarded
<1>1. k \in DOMAIN active /\ active[k] \in ActiveRecords /\ active \in [DOMAIN active -> ActiveRecords]
    BY DEF TypeInv, TypeOK
<1>2. \E a : active' = [active EXCEPT ![k] = a] /\ Visited(a)
  <2>1. CASE Progress(k)
    <3> DEFINE a == [active[k] EXCEPT !.remaining = @ - 1]
    <3>1. active' = [active EXCEPT ![k] = a] /\ active[k].executing
        BY <2>1 DEF Progress
    <3>2. Visited(a)
        BY <1>1, <3>1 DEF ActiveRecords
    <3> QED
        BY <3>1, <3>2
  <2>2. CASE Hold(k)
    <3>1. active' = [active EXCEPT ![k] = Checked(k)] /\ ~active[k].executing
        BY <2>2 DEF Hold
    <3>2. Visited(Checked(k))
        BY <1>1, <3>1, CheckedFields
    <3> QED
        BY <3>1, <3>2
  <2>3. ASSUME NEW latency \in Nat \ {0}, StartWith(k, latency)
        PROVE  \E a : active' = [active EXCEPT ![k] = a] /\ Visited(a)
    <3> DEFINE c == Checked(k)
               a == [c EXCEPT !.executing = TRUE, !.remaining = latency - 1]
    <3>1. active' = [active EXCEPT ![k] = a] /\ ~active[k].executing /\ CanStart(k)
        BY <2>3 DEF StartWith
    <3>2. /\ c.instr = active[k].instr /\ c.robTag = active[k].robTag
          /\ c.predictedTaken = active[k].predictedTaken
          /\ c.qj = active[k].qj /\ c.qk = active[k].qk
          /\ c.vj = active[k].vj /\ c.vk = active[k].vk
        BY <1>1, CheckedFields
    <3>3. /\ a.instr = c.instr /\ a.robTag = c.robTag /\ a.predictedTaken = c.predictedTaken
          /\ a.qj = c.qj /\ a.qk = c.qk /\ a.vj = c.vj /\ a.vk = c.vk
          /\ a.hasForwarded = c.hasForwarded /\ a.forwarded = c.forwarded
      <4> HIDE DEF c
      <4> QED
          OBVIOUS
    <3> HIDE DEF a
    <3>4. Visited(a)
        BY <3>1, <3>2, <3>3
    <3> QED
        BY <3>1, <3>4
  <2> QED
      BY <2>1, <2>2, <2>3 DEF VisitAnyTiming
<1>3. PICK a : active' = [active EXCEPT ![k] = a] /\ Visited(a)
    BY <1>2
<1>4. active'[k] = a /\ DOMAIN active' = DOMAIN active
      /\ \A j \in DOMAIN active : j # k => active'[j] = active[j]
    BY <1>1, <1>3
<1> QED
    BY <1>1, <1>3, <1>4

\* Any other step leaves alone the instructions it does not remove.
LEMMA OthersStayActive ==
    ASSUME TypeInv, [NextAnyTiming]_vars, ~ \E k \in todo : VisitAnyTiming(k),
           ~ \E b \in DOMAIN cdbQueue : Broadcast(b)
    PROVE  /\ \A k \in DOMAIN active' : k \in DOMAIN active => active'[k] = active[k]
           /\ (~ \E predictedTaken \in BOOLEAN : Issue(predictedTaken))
                => DOMAIN active' \subseteq DOMAIN active
<1>1. nextId \notin DOMAIN active
    BY DEF TypeInv, TypeOK, Ids
<1>2. ASSUME NEW predictedTaken \in BOOLEAN, Issue(predictedTaken)
      PROVE  \A k \in DOMAIN active : active'[k] = active[k]
    BY <1>1, <1>2 DEF Issue, Extend
<1>3. ASSUME NEW k \in todo, CompleteRegister(k) \/ CompleteStore(k) \/ ResolveCorrect(k)
      PROVE  /\ DOMAIN active' \subseteq DOMAIN active
             /\ \A j \in DOMAIN active' : active'[j] = active[j]
  <2>1. active' = Remove(active, k)
      BY <1>3 DEF CompleteRegister, CompleteStore, ResolveCorrect, Retire
  <2> QED
      BY <2>1 DEF Remove, Restrict
<1>4. ASSUME NEW k \in todo, ResolveMispredicted(k)
      PROVE  /\ DOMAIN active' \subseteq DOMAIN active
             /\ \A j \in DOMAIN active' : active'[j] = active[j]
  <2>1. active' = Remove(UpTo(active, k), k)
      BY <1>4 DEF ResolveMispredicted
  <2> QED
      BY <2>1 DEF Remove, UpTo, Restrict
<1>5. CASE Commit
    BY <1>5 DEF Commit, CommitStage
<1>6. CASE \/ StallIssue \/ Finish \/ NoCommit \/ NoBroadcast \/ EndCycle \/ Done
           \/ UNCHANGED vars
  <2>1. active' = active
    <3>1. CASE UNCHANGED vars
        BY <3>1 DEF vars
    <3> QED
        BY <1>6, <3>1 DEF StallIssue, Finish, NoCommit, CommitStage, NoBroadcast, EndCycle, Done
  <2> QED
      BY <2>1
<1> QED
    BY <1>2, <1>3, <1>4, <1>5, <1>6 DEF NextAnyTiming

-----------------------------------------------------------------------------
(* The load/store queue against the reorder buffer                           *)

LsqHoldsMemoryOps ==
    /\ DOMAIN lsq = {id \in InFlight : IsMemoryOp(InstructionOf(id))}
    /\ \A k \in DOMAIN lsq : lsq[k].isStore <=> InstructionOf(k).op = "SD"

\* Only a writer of registers marks its entry so, only a store its own.
EntriesWriteTheirOwn ==
    \A t \in BusyTags :
        /\ robEntries[t].writesRegister => Writer(t).rd # None
        /\ robEntries[t].writesMemory => Writer(t).op = "SD"

StoresAgree ==
    \A t \in BusyTags : Writer(t).op = "SD" =>
        /\ lsq[robEntries[t].id].valueReady <=> robEntries[t].ready
        /\ robEntries[t].ready =>
             /\ robEntries[t].writesMemory
             /\ lsq[robEntries[t].id].address = robEntries[t].address
             /\ lsq[robEntries[t].id].value = robEntries[t].memoryValue

\* What the loop waits for is over when it executes: no result of the bus can
\* still change the operands an instruction started with.
ExecutingHasOperands == \A k \in DOMAIN active : active[k].executing => OperandsReady(k)

\* An address once recorded for a store is the one it will be stored to.
AddressesAreFinal ==
    \A k \in DOMAIN active : active[k].instr.op = "SD" /\ lsq[k].addressReady =>
        active[k].qj = None /\ lsq[k].address = Address(k)

FetchedFromProgram == \A id \in Ids : statusTable[id].staticPc \in 0 .. Len(program) - 1

QueueInv ==
    /\ ResultInv /\ LsqHoldsMemoryOps /\ EntriesWriteTheirOwn /\ StoresAgree
    /\ ExecutingHasOperands /\ AddressesAreFinal /\ FetchedFromProgram

\* The instructions in flight come from the program.
LEMMA IssuedAreWellFormed ==
    ASSUME QueueInv
    PROVE  /\ \A id \in Ids : InstructionOf(id) \in WellFormedInstructions
           /\ \A t \in BusyTags : Writer(t) \in WellFormedInstructions
<1>1. program \in Seq(WellFormedInstructions) /\ RobInv
    BY DEF QueueInv, ResultInv, FateInv, RobInv, TypeInv, TypeOK
<1>2. ASSUME NEW id \in Ids PROVE InstructionOf(id) \in WellFormedInstructions
  <2>1. statusTable[id].staticPc \in 0 .. Len(program) - 1
      BY DEF QueueInv, FetchedFromProgram
  <2>2. Len(program) \in Nat
      BY <1>1
  <2>3. statusTable[id].staticPc + 1 \in 1 .. Len(program)
      BY <2>1, <2>2
  <2> QED
      BY <1>1, <2>3 DEF InstructionOf
<1>3. \A t \in BusyTags : robEntries[t].id \in Ids
    BY <1>1, SlotOwners
<1> QED
    BY <1>2, <1>3 DEF Writer

\* Every active instruction is in flight, and has a queue entry if it accesses memory.
LEMMA ActiveInFlight ==
    ASSUME QueueInv
    PROVE  /\ DOMAIN active \subseteq InFlight /\ DOMAIN lsq \subseteq InFlight
           /\ InFlight \subseteq Ids /\ Ids \subseteq Nat /\ nextId \in Nat /\ nextId \notin InFlight
           /\ \A k \in DOMAIN active : active[k].instr = InstructionOf(k)
           /\ \A k \in DOMAIN active : IsMemoryOp(active[k].instr) <=> k \in DOMAIN lsq
           /\ lsq \in [DOMAIN lsq -> LsqRecords]
           /\ active \in [DOMAIN active -> ActiveRecords]
<1>1. /\ RobInv /\ TypeInv /\ OwedOnce /\ InstructionsAreStatic
    BY DEF QueueInv, ResultInv, FateInv, RobInv
<1>2. InFlight = {robEntries[t].id : t \in BusyTags} /\ InFlight \subseteq Ids
    BY <1>1, InFlightByTag DEF InFlightHoldBusyTags
<1>3. DOMAIN active \subseteq InFlight
    BY <1>1, <1>2 DEF OwedOnce, Unfinished
<1>4. nextId \in Nat /\ Ids \subseteq Nat /\ nextId \notin Ids
    BY <1>1 DEF TypeInv, TypeOK, Ids
<1>5. /\ lsq \in [DOMAIN lsq -> LsqRecords]
      /\ active \in [DOMAIN active -> ActiveRecords]
    BY <1>1 DEF TypeInv, TypeOK
<1>6. \A k \in DOMAIN active : active[k].instr = InstructionOf(k)
    BY <1>1 DEF InstructionsAreStatic
<1> QED
    BY <1>2, <1>3, <1>4, <1>5, <1>6 DEF QueueInv, LsqHoldsMemoryOps

\* Recording an address touches only the address of that entry.
LEMMA MarkedFields ==
    ASSUME TypeInv, NEW k \in DOMAIN active
    PROVE  /\ DOMAIN markAddressReady(k) = DOMAIN lsq
           /\ \A j \in DOMAIN lsq : j # k => markAddressReady(k)[j] = lsq[j]
           /\ k \in DOMAIN lsq =>
                /\ markAddressReady(k)[k].isStore = lsq[k].isStore
                /\ markAddressReady(k)[k].valueReady = lsq[k].valueReady
                /\ markAddressReady(k)[k].value = lsq[k].value
                /\ \/ /\ markAddressReady(k)[k].addressReady = lsq[k].addressReady
                      /\ markAddressReady(k)[k].address = lsq[k].address
                   \/ /\ AddressKnown(k) /\ markAddressReady(k)[k].addressReady = TRUE
                      /\ markAddressReady(k)[k].address = Address(k)
<1>1. lsq \in [DOMAIN lsq -> LsqRecords]
    BY DEF TypeInv, TypeOK
<1>2. CASE AddressKnown(k) /\ ~active[k].addressComputed
  <2> DEFINE e == [[lsq[k] EXCEPT !.addressReady = TRUE] EXCEPT !.address = Address(k)]
  <2>1. markAddressReady(k) = [lsq EXCEPT ![k].addressReady = TRUE, ![k].address = Address(k)]
      BY <1>2 DEF markAddressReady
  <2>2. /\ DOMAIN markAddressReady(k) = DOMAIN lsq
        /\ \A j \in DOMAIN lsq : j # k => markAddressReady(k)[j] = lsq[j]
        /\ k \in DOMAIN lsq => markAddressReady(k)[k] = e
      BY <1>1, <2>1
  <2>3. k \in DOMAIN lsq =>
          /\ e.isStore = lsq[k].isStore /\ e.valueReady = lsq[k].valueReady
          /\ e.value = lsq[k].value /\ e.addressReady = TRUE /\ e.address = Address(k)
      BY <1>1 DEF LsqRecords
  <2> HIDE DEF e
  <2> QED
      BY <1>2, <2>2, <2>3
<1>3. CASE ~(AddressKnown(k) /\ ~active[k].addressComputed)
    BY <1>3 DEF markAddressReady
<1> QED
    BY <1>2, <1>3

\* A visit changes at most the address of its own entry, and no memory.
LEMMA VisitQueue ==
    ASSUME TypeInv, NEW k \in todo, VisitAnyTiming(k)
    PROVE  /\ mem' = mem /\ rf' = rf /\ DOMAIN lsq' = DOMAIN lsq
           /\ \A j \in DOMAIN lsq : j # k => lsq'[j] = lsq[j]
           /\ k \in DOMAIN lsq =>
                /\ lsq'[k].isStore = lsq[k].isStore
                /\ lsq'[k].valueReady = lsq[k].valueReady /\ lsq'[k].value = lsq[k].value
                /\ \/ /\ lsq'[k].addressReady = lsq[k].addressReady
                      /\ lsq'[k].address = lsq[k].address
                   \/ /\ AddressKnown(k) /\ lsq'[k].addressReady = TRUE
                      /\ lsq'[k].address = Address(k)
<1>1. k \in DOMAIN active
    BY DEF TypeInv, TypeOK
<1>2. mem' = mem /\ rf' = rf /\ (lsq' = lsq \/ lsq' = markAddressReady(k))
    BY DEF VisitAnyTiming, Progress, Hold, StartWith, Visit, archVars
<1> QED
    BY <1>1, <1>2, MarkedFields

\* A store's completion settles its own entry.
LEMMA CompletedStoreQueue ==
    ASSUME TypeInv, NEW k \in todo, CompleteStore(k)
    PROVE  /\ mem' = mem /\ rf' = rf /\ DOMAIN lsq' = DOMAIN lsq
           /\ \A j \in DOMAIN lsq : j # k => lsq'[j] = lsq[j]
           /\ k \in DOMAIN lsq =>
                /\ lsq'[k].isStore = lsq[k].isStore
                /\ lsq'[k].addressReady = TRUE /\ lsq'[k].address = Address(k)
                /\ lsq'[k].valueReady = TRUE /\ lsq'[k].value = active[k].vk
<1> DEFINE e == [lsq[k] EXCEPT !.addressReady = TRUE, !.address = Address(k),
                               !.valueReady = TRUE, !.value = active[k].vk]
<1>1. lsq \in [DOMAIN lsq -> LsqRecords]
    BY DEF TypeInv, TypeOK
<1>2. lsq' = [lsq EXCEPT ![k] = e]
    BY DEF CompleteStore
<1>3. k \in DOMAIN lsq =>
        /\ e.isStore = lsq[k].isStore /\ e.addressReady = TRUE /\ e.address = Address(k)
        /\ e.valueReady = TRUE /\ e.value = active[k].vk
    BY <1>1 DEF LsqRecords
<1>4. mem' = mem /\ rf' = rf
    BY DEF CompleteStore, Complete, archVars
<1> HIDE DEF e
<1> QED
    BY <1>1, <1>2, <1>3, <1>4

\* Every other step but issue, commit and recovery leaves queue and memory alone.
LEMMA OthersKeepQueue ==
    ASSUME [NextAnyTiming]_vars, ~MovesSlots,
           ~ \E k \in todo : VisitAnyTiming(k) \/ CompleteStore(k)
    PROVE  lsq' = lsq /\ mem' = mem /\ rf' = rf
<1>1. CASE \E k \in todo : CompleteRegister(k) \/ ResolveCorrect(k)
    BY <1>1 DEF CompleteRegister, ResolveCorrect, Complete, archVars
<1>2. CASE \E k \in DOMAIN cdbQueue : Broadcast(k)
    BY <1>2 DEF Broadcast, BroadcastStage, archVars
<1>3. CASE StallIssue \/ Finish \/ NoCommit \/ NoBroadcast \/ EndCycle
    BY <1>3 DEF StallIssue, Finish, NoCommit, NoBroadcast, BroadcastStage, EndCycle, archVars
<1>4. CASE Done \/ UNCHANGED vars
    BY <1>4 DEF Done, vars, archVars
<1> QED
    BY <1>1, <1>2, <1>3, <1>4 DEF NextAnyTiming, MovesSlots

\* Only a commit writes the architectural state.
LEMMA OnlyCommitWrites ==
    ASSUME TypeInv, [NextAnyTiming]_vars, ~Commit
    PROVE  mem' = mem /\ rf' = rf
<1>1. ASSUME NEW predictedTaken \in BOOLEAN, Issue(predictedTaken) PROVE mem' = mem /\ rf' = rf
    BY <1>1 DEF Issue, archVars
<1>2. ASSUME NEW k \in todo, ResolveMispredicted(k) PROVE mem' = mem /\ rf' = rf
    BY <1>2 DEF ResolveMispredicted, Complete, archVars
<1>3. ASSUME NEW k \in todo, VisitAnyTiming(k) \/ CompleteStore(k) PROVE mem' = mem /\ rf' = rf
    BY <1>3, VisitQueue, CompletedStoreQueue
<1> QED
    BY <1>1, <1>2, <1>3, OthersKeepQueue DEF MovesSlots

\* What becomes of a queue entry that stays: an address once known, and a value
\* once known, are kept.
StoreStays(j) ==
    /\ lsq'[j].isStore = lsq[j].isStore
    /\ lsq[j].isStore /\ lsq[j].addressReady =>
         lsq'[j].addressReady /\ lsq'[j].address = lsq[j].address
    /\ \/ lsq'[j].valueReady = lsq[j].valueReady /\ lsq'[j].value = lsq[j].value
       \/ j \in todo /\ CompleteStore(j)

LEMMA StoresStay ==
    ASSUME QueueInv, [NextAnyTiming]_vars
    PROVE  \A j \in DOMAIN lsq : j \in DOMAIN lsq' => StoreStays(j)
<1> SUFFICES ASSUME NEW j \in DOMAIN lsq, j \in DOMAIN lsq' PROVE StoreStays(j)
    OBVIOUS
<1>1. /\ TypeInv /\ j \in InFlight /\ nextId \notin InFlight
      /\ DOMAIN lsq \subseteq Ids /\ lsq \in [DOMAIN lsq -> LsqRecords]
    BY ActiveInFlight DEF QueueInv, ResultInv, FateInv, RobInv
<1>2. ASSUME lsq'[j] = lsq[j] PROVE StoreStays(j)
    BY <1>2 DEF StoreStays
<1>3. ASSUME NEW k \in todo, k \in DOMAIN lsq, lsq[k].isStore, lsq[k].addressReady
      PROVE  lsq[k].address = Address(k)
  <2>1. k \in DOMAIN active
      BY <1>1 DEF TypeInv, TypeOK
  <2>2. active[k].instr.op = "SD"
      BY <1>3, <2>1, ActiveInFlight DEF QueueInv, LsqHoldsMemoryOps
  <2> QED
      BY <1>3, <2>1, <2>2 DEF QueueInv, AddressesAreFinal
<1>4. ASSUME NEW k \in todo, VisitAnyTiming(k) PROVE StoreStays(j)
  <2>1. CASE j = k
    <3>1. /\ lsq'[j].isStore = lsq[j].isStore
          /\ lsq'[j].valueReady = lsq[j].valueReady /\ lsq'[j].value = lsq[j].value
        BY <1>1, <1>4, <2>1, VisitQueue
    <3>2. lsq[j].isStore /\ lsq[j].addressReady =>
            lsq'[j].addressReady /\ lsq'[j].address = lsq[j].address
        BY <1>1, <1>3, <1>4, <2>1, VisitQueue
    <3> QED
        BY <3>1, <3>2 DEF StoreStays
  <2> QED
      BY <1>1, <1>2, <1>4, <2>1, VisitQueue
<1>5. ASSUME NEW k \in todo, CompleteStore(k) PROVE StoreStays(j)
  <2>1. CASE j = k
    <3>1. /\ lsq'[j].isStore = lsq[j].isStore /\ j \in todo /\ CompleteStore(j)
        BY <1>1, <1>5, <2>1, CompletedStoreQueue
    <3>2. lsq[j].isStore /\ lsq[j].addressReady =>
            lsq'[j].addressReady /\ lsq'[j].address = lsq[j].address
        BY <1>1, <1>3, <1>5, <2>1, CompletedStoreQueue
    <3> QED
        BY <3>1, <3>2 DEF StoreStays
  <2> QED
      BY <1>1, <1>2, <1>5, <2>1, CompletedStoreQueue
<1>6. ASSUME NEW predictedTaken \in BOOLEAN, Issue(predictedTaken) PROVE lsq'[j] = lsq[j]
    BY <1>1, <1>6 DEF Issue, Extend
<1>7. ASSUME Commit PROVE lsq'[j] = lsq[j]
    BY <1>7 DEF Commit, Remove, Restrict
<1>8. ASSUME NEW k \in todo, ResolveMispredicted(k) PROVE lsq'[j] = lsq[j]
    BY <1>8 DEF ResolveMispredicted, UpTo, Restrict
<1> QED
    BY <1>2, <1>4, <1>5, <1>6, <1>7, <1>8, OthersKeepQueue DEF MovesSlots

\* The new instruction waits, with a fresh queue entry if it accesses memory.
LEMMA IssuedFields ==
    ASSUME QueueInv, NEW predictedTaken \in BOOLEAN, Issue(predictedTaken)
    PROVE  /\ DOMAIN active' = DOMAIN active \cup {nextId}
           /\ \A k \in DOMAIN active : active'[k] = active[k]
           /\ active'[nextId] = IssuedInstruction(NextInstruction, predictedTaken)
           /\ active'[nextId].executing = FALSE
           /\ DOMAIN lsq' = DOMAIN lsq \cup (IF IsMemoryOp(NextInstruction) THEN {nextId} ELSE {})
           /\ \A j \in DOMAIN lsq : lsq'[j] = lsq[j]
           /\ nextId \in DOMAIN lsq' =>
                /\ lsq'[nextId].isStore <=> NextInstruction.op = "SD"
                /\ lsq'[nextId].addressReady = FALSE /\ lsq'[nextId].valueReady = FALSE
<1>1. nextId \notin DOMAIN active /\ nextId \notin DOMAIN lsq
    BY ActiveInFlight
<1>2. /\ DOMAIN active' = DOMAIN active \cup {nextId}
      /\ \A k \in DOMAIN active : active'[k] = active[k]
      /\ active'[nextId] = IssuedInstruction(NextInstruction, predictedTaken)
    BY <1>1 DEF Issue, Extend
<1>3. lsq' = IF IsMemoryOp(NextInstruction)
             THEN Extend(lsq, nextId, NewLsqEntry(NextInstruction)) ELSE lsq
    BY DEF Issue
<1>4. /\ DOMAIN lsq' = DOMAIN lsq \cup (IF IsMemoryOp(NextInstruction) THEN {nextId} ELSE {})
      /\ \A j \in DOMAIN lsq : lsq'[j] = lsq[j]
      /\ nextId \in DOMAIN lsq' => lsq'[nextId] = NewLsqEntry(NextInstruction)
    BY <1>1, <1>3 DEF Extend
<1>5. active'[nextId].executing = FALSE
    BY <1>2 DEF IssuedInstruction
<1>6. /\ NewLsqEntry(NextInstruction).isStore <=> NextInstruction.op = "SD"
      /\ NewLsqEntry(NextInstruction).addressReady = FALSE
      /\ NewLsqEntry(NextInstruction).valueReady = FALSE
    BY DEF NewLsqEntry
<1> QED
    BY <1>2, <1>4, <1>5, <1>6

\* The queue holds the memory operations in flight: an entry is added with its
\* instruction, and goes when it commits or is flushed.
LEMMA LsqStaysMemoryOps ==
    ASSUME QueueInv, [NextAnyTiming]_vars
    PROVE  LsqHoldsMemoryOps'
<1>1. /\ RobInv /\ RobInv' /\ TypeInv /\ InFlight \subseteq Ids /\ nextId \in Nat
      /\ DOMAIN lsq = {id \in InFlight : IsMemoryOp(InstructionOf(id))}
      /\ DOMAIN lsq \subseteq Ids /\ nextId \notin Ids /\ Ids \subseteq Nat
      /\ \A j \in DOMAIN lsq : lsq[j].isStore <=> InstructionOf(j).op = "SD"
    BY ActiveInFlight, AnyTimingWindow
    DEF QueueInv, ResultInv, FateInv, RobInv, LsqHoldsMemoryOps, Ids
<1>2. \A id \in Ids : InstructionOf(id)' = InstructionOf(id)
    BY <1>1, InstructionsStay
<1>3. DOMAIN lsq' = {id \in InFlight' : IsMemoryOp(InstructionOf(id)')}
  <2>1. ASSUME NEW predictedTaken \in BOOLEAN, Issue(predictedTaken)
        PROVE  DOMAIN lsq' = {id \in InFlight' : IsMemoryOp(InstructionOf(id)')}
    <3>1. InFlight' = InFlight \cup {nextId}
        BY <1>1, <2>1, IssueInFlight
    <3>2. \A id \in Nat : id = nextId => InstructionOf(id)' = NextInstruction
        BY <2>1, IssueSlots DEF QueueInv
    <3>3. DOMAIN lsq' = DOMAIN lsq \cup (IF IsMemoryOp(NextInstruction) THEN {nextId} ELSE {})
        BY <2>1, IssuedFields
    <3> QED
        BY <1>1, <1>2, <3>1, <3>2, <3>3
  <2>2. ASSUME Commit
        PROVE  DOMAIN lsq' = {id \in InFlight' : IsMemoryOp(InstructionOf(id)')}
    <3>1. InFlight' = InFlight \ {robEntries[robHead].id}
        BY <1>1, <2>2, CommitInFlight
    <3>2. DOMAIN lsq' = DOMAIN lsq \ {robEntries[robHead].id}
        BY <2>2 DEF Commit, Remove, Restrict
    <3> QED
        BY <1>1, <1>2, <3>1, <3>2
  <2>3. ASSUME NEW k \in todo, ResolveMispredicted(k)
        PROVE  DOMAIN lsq' = {id \in InFlight' : IsMemoryOp(InstructionOf(id)')}
    <3>1. InFlight' = {id \in InFlight : id <= k}
        BY <1>1, <2>3, ResolveMispredictedInFlight
    <3>2. DOMAIN lsq' = {id \in DOMAIN lsq : id <= k}
        BY <2>3 DEF ResolveMispredicted, UpTo, Restrict
    <3> QED
        BY <1>1, <1>2, <3>1, <3>2
  <2>4. ASSUME ~MovesSlots
        PROVE  DOMAIN lsq' = {id \in InFlight' : IsMemoryOp(InstructionOf(id)')}
    <3>1. InFlight' = InFlight
        BY <2>4, InFlightSteps DEF QueueInv
    <3>2. DOMAIN lsq' = DOMAIN lsq
        BY <1>1, <2>4, VisitQueue, CompletedStoreQueue, OthersKeepQueue
    <3> QED
        BY <1>1, <1>2, <3>1, <3>2
  <2> QED
      BY <2>1, <2>2, <2>3, <2>4 DEF MovesSlots
<1>4. ASSUME NEW j \in DOMAIN lsq' PROVE lsq'[j].isStore <=> InstructionOf(j)'.op = "SD"
  <2>1. CASE j \in DOMAIN lsq
    <3>1. lsq'[j].isStore = lsq[j].isStore
        BY <2>1, StoresStay DEF StoreStays
    <3> QED
        BY <1>1, <1>2, <2>1, <3>1
  <2>2. CASE j \notin DOMAIN lsq
    <3>1. j \in InFlight' /\ (j \in InFlight \/ j = nextId)
        BY <1>3, InFlightSteps DEF QueueInv
    <3>2. j \notin InFlight
        BY <1>1, <1>2, <1>3, <2>2, <3>1
    <3>3. PICK predictedTaken \in BOOLEAN : Issue(predictedTaken)
      <4>1. InFlight' # InFlight
          BY <3>1, <3>2
      <4>2. MovesSlots
          BY <4>1, InFlightSteps DEF QueueInv
      <4>3. ~Commit
          BY <1>1, <3>1, <3>2, CommitInFlight
      <4>4. \A k \in todo : ~ResolveMispredicted(k)
          BY <1>1, <3>1, <3>2, ResolveMispredictedInFlight
      <4> QED
          BY <4>2, <4>3, <4>4 DEF MovesSlots
    <3>4. InstructionOf(j)' = NextInstruction
        BY <1>1, <3>1, <3>2, <3>3, IssueSlots DEF QueueInv
    <3> QED
        BY <3>1, <3>2, <3>3, <3>4, IssuedFields
  <2> QED
      BY <2>1, <2>2
<1> QED
    BY <1>3, <1>4 DEF LsqHoldsMemoryOps

\* An entry is marked as writing a register by a broadcast to it, as writing
\* memory by a store that finishes it.
LEMMA EntriesKeepWritingTheirOwn ==
    ASSUME QueueInv, [NextAnyTiming]_vars
    PROVE  EntriesWriteTheirOwn'
<1> SUFFICES ASSUME NEW t \in BusyTags'
             PROVE  /\ robEntries'[t].writesRegister => Writer(t)'.rd # None
                    /\ robEntries'[t].writesMemory => Writer(t)'.op = "SD"
    BY DEF EntriesWriteTheirOwn
<1>1. ResultInv /\ RobInv /\ robEntries \in [Tags -> RobRecords]
    BY DEF QueueInv, ResultInv, FateInv, RobInv, TypeInv, TypeOK
<1>2. CASE t \in BusyTags /\ robEntries'[t] = robEntries[t] /\ Writer(t)' = Writer(t)
    BY <1>2 DEF QueueInv, EntriesWriteTheirOwn
<1>3. ASSUME NEW predictedTaken \in BOOLEAN, Issue(predictedTaken), t = robTail
      PROVE  robEntries'[t].writesRegister = FALSE /\ robEntries'[t].writesMemory = FALSE
  <2>1. robTail \in Tags /\ robEntries' = EntriesAllocated
      BY <1>1, <1>3, IssueSlots
  <2> QED
      BY <1>1, <1>3, <2>1 DEF EntriesAllocated, EmptyEntry
<1>4. ASSUME NEW b \in DOMAIN cdbQueue, Broadcast(b), t = cdbQueue[b].robTag
      PROVE  /\ robEntries'[t].writesRegister => Writer(t)'.rd # None
             /\ robEntries'[t].writesMemory => Writer(t)'.op = "SD"
    BY <1>1, <1>4, BroadcastFields DEF QueueInv, EntriesWriteTheirOwn
<1>5. ASSUME NEW k \in todo, t = active[k].robTag,
             CompleteStore(k) \/ ResolveCorrect(k) \/ ResolveMispredicted(k)
      PROVE  /\ robEntries'[t].writesRegister => Writer(t)'.rd # None
             /\ robEntries'[t].writesMemory => Writer(t)'.op = "SD"
    BY <1>1, <1>5, FinishFields DEF QueueInv, EntriesWriteTheirOwn
<1> QED
    BY <1>1, <1>2, <1>3, <1>4, <1>5, EntrySteps

\* A store's two entries are finished in the same step, with the same contents.
LEMMA StoresKeepAgreeing ==
    ASSUME QueueInv, [NextAnyTiming]_vars
    PROVE  StoresAgree'
<1> DEFINE Agrees(t) ==
        /\ lsq'[robEntries'[t].id].valueReady <=> robEntries'[t].ready
        /\ robEntries'[t].ready =>
             /\ robEntries'[t].writesMemory
             /\ lsq'[robEntries'[t].id].address = robEntries'[t].address
             /\ lsq'[robEntries'[t].id].value = robEntries'[t].memoryValue
<1> SUFFICES ASSUME NEW t \in BusyTags', Writer(t)'.op = "SD" PROVE Agrees(t)
    BY DEF StoresAgree
<1>1. ResultInv /\ TypeInv /\ RobInv /\ RobInv'
    BY AnyTimingWindow DEF QueueInv, ResultInv, FateInv, RobInv
<1>2. robEntries'[t].id \in DOMAIN lsq'
  <2>1. robEntries'[t].id \in InFlight'
      BY <1>1, InFlightSteps
  <2>2. \A id : id = robEntries'[t].id => InstructionOf(id)' = Writer(t)'
      BY DEF Writer, InstructionOf
  <2> QED
      BY <2>1, <2>2, LsqStaysMemoryOps DEF LsqHoldsMemoryOps, IsMemoryOp
<1>3. ASSUME t \in BusyTags, robEntries'[t] = robEntries[t], Writer(t)' = Writer(t)
      PROVE  Agrees(t)
  <2> DEFINE id == robEntries[t].id
  <2>1. id \in DOMAIN lsq /\ id \in DOMAIN lsq' /\ lsq[id].isStore
    <3>1. id \in InFlight
        BY <1>1, <1>3, InFlightSteps
    <3> QED
        BY <1>2, <1>3, <3>1 DEF QueueInv, LsqHoldsMemoryOps, IsMemoryOp, Writer
  <2>2. /\ lsq[id].valueReady <=> robEntries[t].ready
        /\ robEntries[t].ready =>
             /\ robEntries[t].writesMemory
             /\ lsq[id].address = robEntries[t].address
             /\ lsq[id].value = robEntries[t].memoryValue
      BY <1>3 DEF QueueInv, StoresAgree
  <2>3. ~(id \in todo /\ CompleteStore(id))
    <3> SUFFICES ASSUME id \in todo, CompleteStore(id) PROVE FALSE
        OBVIOUS
    <3>1. /\ active[id].robTag \in BusyTags /\ robEntries[active[id].robTag].id = id
          /\ ~robEntries[active[id].robTag].ready /\ robEntries'[active[id].robTag].ready
        BY <1>1, FinishFields
    <3>2. active[id].robTag = t
        BY <1>1, <1>3, <3>1, SlotOwners
    <3> QED
        BY <1>3, <3>1, <3>2
  <2>4. lsq'[id].valueReady = lsq[id].valueReady /\ lsq'[id].value = lsq[id].value
      BY <2>1, <2>3, StoresStay DEF StoreStays
  <2>5. robEntries[t].ready => lsq'[id].address = lsq[id].address
    <3> SUFFICES ASSUME robEntries[t].ready PROVE lsq'[id].address = lsq[id].address
        OBVIOUS
    <3>1. id \notin DOMAIN active
      <4> SUFFICES ASSUME id \in DOMAIN active PROVE FALSE
          OBVIOUS
      <4>1. /\ active[id].robTag \in BusyTags /\ robEntries[active[id].robTag].id = id
            /\ ~robEntries[active[id].robTag].ready
          BY DEF QueueInv, ResultInv, OwedOnce, Unfinished
      <4> QED
          BY <1>1, <1>3, <4>1, SlotOwners
    <3>2. lsq'[id] = lsq[id]
      <4>1. \A k \in todo : k # id
          BY <1>1, <3>1 DEF TypeInv, TypeOK
      <4>2. ASSUME NEW k \in todo, VisitAnyTiming(k) \/ CompleteStore(k) PROVE lsq'[id] = lsq[id]
          BY <1>1, <2>1, <4>1, <4>2, VisitQueue, CompletedStoreQueue
      <4>3. ASSUME NEW predictedTaken \in BOOLEAN, Issue(predictedTaken) PROVE lsq'[id] = lsq[id]
          BY <2>1, <4>3, IssuedFields
      <4>4. ASSUME Commit PROVE lsq'[id] = lsq[id]
          BY <2>1, <4>4 DEF Commit, Remove, Restrict
      <4>5. ASSUME NEW k \in todo, ResolveMispredicted(k) PROVE lsq'[id] = lsq[id]
          BY <2>1, <4>5 DEF ResolveMispredicted, UpTo, Restrict
      <4> QED
          BY <4>2, <4>3, <4>4, <4>5, OthersKeepQueue DEF MovesSlots
    <3> QED
        BY <3>2
  <2> QED
      BY <1>3, <2>2, <2>4, <2>5
<1>4. ASSUME NEW predictedTaken \in BOOLEAN, Issue(predictedTaken), t = robTail PROVE Agrees(t)
  <2>1. robEntries'[robTail].id = nextId /\ ~robEntries'[robTail].ready
      BY <1>1, <1>4, IssueSlots
  <2> QED
      BY <1>2, <1>4, <2>1, IssuedFields
<1>5. ASSUME NEW b \in DOMAIN cdbQueue, Broadcast(b), t = cdbQueue[b].robTag PROVE FALSE
  <2>1. Writer(t)' = Writer(t) /\ Writer(t).rd # None /\ t \in BusyTags
      BY <1>1, <1>5, BroadcastFields
  <2>2. Writer(t).op # "SD"
      BY <1>1, <2>1, IssuedAreWellFormed DEF WellFormedInstructions, WellFormed
  <2> QED
      BY <2>1, <2>2
<1>6. ASSUME NEW k \in todo, t = active[k].robTag,
             CompleteStore(k) \/ ResolveCorrect(k) \/ ResolveMispredicted(k)
      PROVE  Agrees(t)
  <2>1. /\ t \in BusyTags /\ robEntries'[t].id = k /\ robEntries'[t].ready
        /\ Writer(t)' = Writer(t) /\ Writer(t) = active[k].instr
        /\ active[k].instr.op = "SD" =>
             /\ CompleteStore(k) /\ robEntries'[t].writesMemory
             /\ robEntries'[t].address = Address(k) /\ robEntries'[t].memoryValue = active[k].vk
      BY <1>1, <1>6, FinishFields
  <2>2. CompleteStore(k) /\ k \in DOMAIN lsq'
      BY <1>2, <2>1
  <2>3. k \in DOMAIN lsq
      BY <1>1, <2>2, CompletedStoreQueue
  <2> QED
      BY <1>1, <2>1, <2>2, <2>3, CompletedStoreQueue
<1> HIDE DEF Agrees
<1> QED
    BY <1>1, <1>3, <1>4, <1>5, <1>6, EntrySteps

\* An instruction in flight has been fetched from the program.
LEMMA FetchedStay ==
    ASSUME QueueInv, [NextAnyTiming]_vars
    PROVE  FetchedFromProgram'
<1>1. /\ statusTable \in [Ids -> Statuses] /\ nextId \in Nat /\ Ids \subseteq Nat
      /\ DOMAIN statusTable = Ids
    BY DEF QueueInv, ResultInv, FateInv, RobInv, TypeInv, TypeOK, Ids
<1>2. \A id \in Ids : statusTable[id].staticPc \in 0 .. Len(program) - 1
    BY DEF QueueInv, FetchedFromProgram
<1>3. ASSUME NEW predictedTaken \in BOOLEAN, Issue(predictedTaken) PROVE FetchedFromProgram'
  <2>1. /\ program' = program /\ pc \in 0 .. Len(program) - 1
        /\ statusTable' = Extend(statusTable, nextId, NewStatus)
      BY <1>3 DEF Issue, Fetchable
  <2>2. Ids' = Ids \cup {nextId} /\ nextId \notin Ids
      BY <1>1, <1>3 DEF Issue, Ids
  <2>3. statusTable'[nextId] = NewStatus /\ \A id \in Ids : statusTable'[id] = statusTable[id]
      BY <1>1, <2>1, <2>2 DEF Extend
  <2>4. statusTable'[nextId].staticPc = pc
      BY <2>3 DEF NewStatus
  <2>5. ASSUME NEW id \in Ids' PROVE statusTable'[id].staticPc \in 0 .. Len(program) - 1
    <3>1. CASE id = nextId
        BY <2>1, <2>4, <3>1
    <3>2. CASE id \in Ids
        BY <1>2, <2>3, <3>2
    <3> QED
        BY <2>2, <3>1, <3>2
  <2> QED
      BY <2>1, <2>5 DEF FetchedFromProgram
<1>4. ASSUME ~ \E predictedTaken \in BOOLEAN : Issue(predictedTaken)
      PROVE  FetchedFromProgram'
  <2>1. /\ program' = program /\ nextId' = nextId
        /\ \A id \in Ids : statusTable'[id].staticPc = statusTable[id].staticPc
      BY <1>1, <1>4, StaticPcsStay DEF QueueInv, ResultInv, FateInv, RobInv
  <2>2. Ids' = Ids
      BY <2>1 DEF Ids
  <2> QED
      BY <1>2, <2>1, <2>2 DEF FetchedFromProgram
<1> QED
    BY <1>3, <1>4

\* An instruction stays as it is, or it is issued, visited or woken by the step.
LEMMA ActiveSteps ==
    ASSUME TypeInv, [NextAnyTiming]_vars, NEW k \in DOMAIN active'
    PROVE  \/ k \in DOMAIN active /\ active'[k] = active[k]
           \/ \E predictedTaken \in BOOLEAN : Issue(predictedTaken) /\ k = nextId
           \/ k \in todo /\ VisitAnyTiming(k)
           \/ k \in DOMAIN active /\ \E b \in DOMAIN cdbQueue : Broadcast(b)
<1>1. CASE \E j \in todo : VisitAnyTiming(j)
    BY <1>1, VisitedFields
<1>2. CASE \E b \in DOMAIN cdbQueue : Broadcast(b)
    BY <1>2, WokenFields
<1>3. ASSUME NEW predictedTaken \in BOOLEAN, Issue(predictedTaken)
      PROVE  DOMAIN active' = DOMAIN active \cup {nextId}
    BY <1>3 DEF Issue, Extend
<1> QED
    BY <1>1, <1>2, <1>3, OthersStayActive

\* A queue entry stays as it is, or its own instruction is visited or completes.
LEMMA QueueSteps ==
    ASSUME QueueInv, [NextAnyTiming]_vars, NEW j \in DOMAIN lsq, j \in DOMAIN lsq'
    PROVE  lsq'[j] = lsq[j] \/ (j \in todo /\ (VisitAnyTiming(j) \/ CompleteStore(j)))
<1>1. TypeInv
    BY DEF QueueInv, ResultInv, FateInv, RobInv
<1>2. ASSUME NEW predictedTaken \in BOOLEAN, Issue(predictedTaken) PROVE lsq'[j] = lsq[j]
    BY <1>2, IssuedFields
<1>3. ASSUME Commit PROVE lsq'[j] = lsq[j]
    BY <1>3 DEF Commit, Remove, Restrict
<1>4. ASSUME NEW k \in todo, ResolveMispredicted(k) PROVE lsq'[j] = lsq[j]
    BY <1>4 DEF ResolveMispredicted, UpTo, Restrict
<1>5. ASSUME NEW k \in todo, VisitAnyTiming(k) \/ CompleteStore(k), k # j
      PROVE  lsq'[j] = lsq[j]
    BY <1>1, <1>5, VisitQueue, CompletedStoreQueue
<1> QED
    BY <1>2, <1>3, <1>4, <1>5, OthersKeepQueue DEF MovesSlots

\* An instruction starts with its operands, and the bus changes none it has.
LEMMA ExecutingKeepOperands ==
    ASSUME QueueInv, [NextAnyTiming]_vars
    PROVE  ExecutingHasOperands'
<1> SUFFICES ASSUME NEW k \in DOMAIN active', active'[k].executing
             PROVE  active'[k].qj = None /\ active'[k].qk = None
    BY DEF ExecutingHasOperands, OperandsReady
<1>1. TypeInv
    BY DEF QueueInv, ResultInv, FateInv, RobInv
<1>2. ASSUME k \in DOMAIN active, active[k].executing
      PROVE  active[k].qj = None /\ active[k].qk = None
    BY <1>2 DEF QueueInv, ExecutingHasOperands, OperandsReady
<1>3. CASE k \in DOMAIN active /\ active'[k] = active[k]
    BY <1>2, <1>3
<1>4. ASSUME NEW predictedTaken \in BOOLEAN, Issue(predictedTaken), k = nextId PROVE FALSE
    BY <1>4, IssuedFields
<1>5. CASE k \in todo /\ VisitAnyTiming(k)
    BY <1>1, <1>2, <1>5, VisitedFields DEF CanStart, OperandsReady
<1>6. ASSUME NEW b \in DOMAIN cdbQueue, Broadcast(b), k \in DOMAIN active
      PROVE  active'[k].qj = None /\ active'[k].qk = None
    BY <1>1, <1>2, <1>6, WokenFields
<1> QED
    BY <1>1, <1>3, <1>4, <1>5, <1>6, ActiveSteps

\* What is active after the step has a queue entry if it accesses memory.
LEMMA ActiveEntryNext ==
    ASSUME QueueInv, [NextAnyTiming]_vars
    PROVE  /\ DOMAIN active' \subseteq InFlight'
           /\ \A k \in DOMAIN active' : active'[k].instr = InstructionOf(k)'
           /\ \A k \in DOMAIN active' : IsMemoryOp(active'[k].instr) <=> k \in DOMAIN lsq'
<1>1. OwedOnce' /\ InstructionsAreStatic' /\ LsqHoldsMemoryOps'
    BY AnyTimingResults, LsqStaysMemoryOps DEF QueueInv, ResultInv
<1>2. DOMAIN active' \subseteq InFlight'
    BY <1>1, InFlightSteps DEF QueueInv, OwedOnce, Unfinished
<1>3. \A k \in DOMAIN active' : active'[k].instr = InstructionOf(k)'
    BY <1>1 DEF InstructionsAreStatic
<1> QED
    BY <1>1, <1>2, <1>3 DEF LsqHoldsMemoryOps

\* The address recorded for a store is that of the base register it has.
LEMMA AddressesStayFinal ==
    ASSUME QueueInv, [NextAnyTiming]_vars
    PROVE  AddressesAreFinal'
<1> DEFINE Final(k) ==
        /\ active'[k].qj = None
        /\ lsq'[k].address = effectiveAddress(active'[k].instr, active'[k].vj)
<1> SUFFICES ASSUME NEW k \in DOMAIN active', active'[k].instr.op = "SD", lsq'[k].addressReady
             PROVE  Final(k)
    BY DEF AddressesAreFinal, Address
<1>1. TypeInv
    BY DEF QueueInv, ResultInv, FateInv, RobInv
<1>2. k \in DOMAIN lsq'
    BY ActiveEntryNext DEF IsMemoryOp
<1>3. ASSUME k \in DOMAIN active, active[k].instr.op = "SD"
      PROVE  /\ k \in DOMAIN lsq
             /\ lsq[k].addressReady =>
                  /\ active[k].qj = None
                  /\ lsq[k].address = effectiveAddress(active[k].instr, active[k].vj)
    BY <1>3, ActiveInFlight DEF QueueInv, AddressesAreFinal, Address, IsMemoryOp
<1>4. ASSUME k \in DOMAIN active, active'[k] = active[k], ~(k \in todo /\ VisitAnyTiming(k))
      PROVE  Final(k)
  <2>1. ~(k \in todo /\ CompleteStore(k))
      BY <1>1 DEF CompleteStore, Retire, Remove, Restrict
  <2>2. lsq'[k] = lsq[k]
      BY <1>2, <1>3, <1>4, <2>1, QueueSteps
  <2> QED
      BY <1>3, <1>4, <2>2
<1>5. ASSUME NEW predictedTaken \in BOOLEAN, Issue(predictedTaken), k = nextId PROVE FALSE
    BY <1>2, <1>5, IssuedFields
<1>6. ASSUME k \in todo, VisitAnyTiming(k) PROVE Final(k)
  <2>1. /\ k \in DOMAIN active /\ active'[k].instr = active[k].instr
        /\ active'[k].qj = active[k].qj /\ active'[k].vj = active[k].vj
      BY <1>1, <1>6, VisitedFields
  <2>2. \/ lsq'[k].addressReady = lsq[k].addressReady /\ lsq'[k].address = lsq[k].address
        \/ AddressKnown(k) /\ lsq'[k].address = Address(k)
      BY <1>1, <1>3, <1>6, <2>1, VisitQueue
  <2>3. CASE AddressKnown(k) /\ lsq'[k].address = Address(k)
      BY <2>1, <2>3 DEF AddressKnown, Address
  <2> QED
      BY <1>3, <2>1, <2>2, <2>3
<1>7. ASSUME NEW b \in DOMAIN cdbQueue, Broadcast(b), k \in DOMAIN active PROVE Final(k)
  <2>1. lsq' = lsq
      BY <1>7 DEF Broadcast, BroadcastStage
  <2>2. active'[k].instr = active[k].instr
      BY <1>1, <1>7, WokenFields
  <2>3. active[k].qj = None /\ lsq[k].address = effectiveAddress(active[k].instr, active[k].vj)
      BY <1>3, <1>7, <2>1, <2>2
  <2>4. active'[k].qj = active[k].qj /\ active'[k].vj = active[k].vj
      BY <1>1, <1>7, <2>3, WokenFields
  <2> QED
      BY <2>1, <2>2, <2>3, <2>4
<1> HIDE DEF Final
<1> QED
    BY <1>1, <1>4, <1>5, <1>6, <1>7, ActiveSteps

LEMMA InitQueue == Init => QueueInv
<1> SUFFICES ASSUME Init PROVE QueueInv
    OBVIOUS
<1>1. ResultInv
    BY InitResults
<1>2. /\ DOMAIN active = {} /\ DOMAIN lsq = {} /\ BusyTags = {} /\ InFlight = {} /\ Ids = {}
  <2>1. BusyTags = {}
      BY DEF Init, EmptyEntry, BusyTags
  <2>2. InFlight = {}
      BY <1>1, <2>1, InFlightByTag DEF ResultInv, FateInv, RobInv, InFlightHoldBusyTags
  <2> QED
      BY <2>1, <2>2 DEF Init, EmptyFunction, Ids
<1> QED
    BY <1>1, <1>2
    DEF QueueInv, LsqHoldsMemoryOps, EntriesWriteTheirOwn, StoresAgree, ExecutingHasOperands,
        AddressesAreFinal, FetchedFromProgram

\* The queue stays in step with the reorder buffer, whatever the timing.
LEMMA AnyTimingQueue == QueueInv /\ [NextAnyTiming]_vars => QueueInv'
<1> SUFFICES ASSUME QueueInv, [NextAnyTiming]_vars PROVE QueueInv'
    OBVIOUS
<1>1. ResultInv'
    BY AnyTimingResults DEF QueueInv
<1> QED
    BY <1>1, LsqStaysMemoryOps, EntriesKeepWritingTheirOwn, StoresKeepAgreeing,
       ExecutingKeepOperands, AddressesStayFinal, FetchedStay
    DEF QueueInv

\* The queue holds the memory operations of the window, and a store's entry there
\* is the one of its slot.
LEMMA QueueBySlot == QueueInv => LsqMatchesRob
<1> SUFFICES ASSUME QueueInv PROVE LsqMatchesRob
    OBVIOUS
<1>1. RobInv /\ LsqHoldsMemoryOps /\ ResultInv
    BY DEF QueueInv, ResultInv, FateInv
<1>2. ASSUME NEW n \in Window, InstructionOf(Entry(n).id).op = "SD"
      PROVE  LET e == Entry(n) IN
               /\ lsq[e.id].isStore
               /\ lsq[e.id].valueReady <=> e.ready
               /\ e.ready => /\ e.writesMemory
                             /\ lsq[e.id].address = e.address
                             /\ lsq[e.id].value = e.memoryValue
  <2> DEFINE t == Slot(n)
  <2>1. t \in BusyTags
      BY <1>1, BusyTagsAreWindow
  <2>2. Entry(n) = robEntries[t] /\ Writer(t).op = "SD"
      BY <1>2 DEF Entry, Writer
  <2>3. robEntries[t].id \in DOMAIN lsq
    <3>1. robEntries[t].id \in InFlight
        BY <1>1, <2>1, InFlightByTag DEF InFlightHoldBusyTags
    <3> QED
        BY <1>1, <2>2, <3>1 DEF LsqHoldsMemoryOps, Writer, IsMemoryOp
  <2>4. lsq[robEntries[t].id].isStore
      BY <1>1, <2>2, <2>3 DEF LsqHoldsMemoryOps, Writer
  <2> HIDE DEF t
  <2> QED
      BY <2>1, <2>2, <2>4 DEF QueueInv, StoresAgree
<1> QED
    BY <1>1, <1>2 DEF LsqMatchesRob, LsqHoldsMemoryOps

(***************************************************************************)
(* For every machine and program, the queue holds exactly the memory          *)
(* operations in flight, and a store's queue entry and ROB entry agree on     *)
(* whether and what it writes, after any completions, commits and flushes.    *)
(***************************************************************************)
THEOREM LsqMatches == Spec => []LsqMatchesRob
<1>1. QueueInv /\ [Next]_vars => QueueInv'
    BY AnyTimingQueue, NextIsAnyTiming DEF QueueInv, ResultInv, FateInv, RobInv
<1> QED
    BY <1>1, InitQueue, QueueBySlot, PTL DEF Spec

-----------------------------------------------------------------------------
(* Loads                                                                     *)

OlderStoresKnown(id) == \A j \in OlderStores(id) : lsq[j].addressReady
StoresTo(id, a) == {j \in OlderStores(id) : lsq[j].address = a}

\* The value v is what a load of address a sees from the place of id in program
\* order: that of the youngest older store to a in flight, else of the memory.
LoadSees(id, a, v) ==
    /\ OlderStoresKnown(id)
    /\ \/ StoresTo(id, a) = {} /\ v \in loadValues(mem, a)
       \/ \E j \in StoresTo(id, a) :
            /\ \A i \in StoresTo(id, a) : i <= j
            /\ lsq[j].valueReady /\ v = lsq[j].value

\* A load that executes has what it sees, or will read it from the memory.
LoadsAreSafe ==
    \A k \in DOMAIN active, a \in Val, v \in Val :
        /\ active[k].instr.op = "LD" /\ active[k].executing
        /\ a = Address(k) /\ v = active[k].forwarded
        => IF active[k].hasForwarded
           THEN LoadSees(k, a, v)
           ELSE OlderStoresKnown(k) /\ StoresTo(k, a) = {}

MemoryInv == QueueInv /\ LoadsAreSafe

\* Seen from an instruction that stays in flight, only a commit removes a store.
LEMMA OlderStoresStay ==
    ASSUME QueueInv, [NextAnyTiming]_vars, ~Commit, NEW id \in InFlight, id \in InFlight'
    PROVE  /\ OlderStores(id)' = OlderStores(id)
           /\ \A j \in OlderStores(id) :
                j \in DOMAIN lsq' /\ StoreStays(j) /\ ~(j \in todo /\ lsq[j].valueReady /\ CompleteStore(j))
<1>1. /\ TypeInv /\ RobInv /\ ResultInv /\ id \in Nat /\ id < nextId /\ nextId \in Nat
      /\ DOMAIN lsq \subseteq Nat /\ RobInv'
    BY ActiveInFlight, AnyTimingWindow DEF QueueInv, ResultInv, FateInv, RobInv, Ids
<1>2. ASSUME NEW j \in Nat, j < id PROVE j \in DOMAIN lsq' <=> j \in DOMAIN lsq
  <2>1. ASSUME NEW predictedTaken \in BOOLEAN, Issue(predictedTaken)
        PROVE  j \in DOMAIN lsq' <=> j \in DOMAIN lsq
    <3>1. DOMAIN lsq' = DOMAIN lsq \cup (IF IsMemoryOp(NextInstruction) THEN {nextId} ELSE {})
        BY <2>1, IssuedFields
    <3> QED
        BY <1>1, <1>2, <3>1
  <2>2. ASSUME NEW k \in todo, ResolveMispredicted(k)
        PROVE  j \in DOMAIN lsq' <=> j \in DOMAIN lsq
    <3>1. id <= k /\ k \in Nat
        BY <1>1, <2>2, ResolveMispredictedInFlight DEF TypeInv, TypeOK, Ids
    <3>2. DOMAIN lsq' = {i \in DOMAIN lsq : i <= k}
        BY <2>2 DEF ResolveMispredicted, UpTo, Restrict
    <3> QED
        BY <1>1, <1>2, <3>1, <3>2
  <2>3. CASE ~MovesSlots
      BY <1>1, <2>3, VisitQueue, CompletedStoreQueue, OthersKeepQueue
  <2> QED
      BY <2>1, <2>2, <2>3 DEF MovesSlots
<1>3. \A j \in DOMAIN lsq : j \in DOMAIN lsq' => StoreStays(j)
    BY StoresStay
<1>4. DOMAIN lsq' \subseteq Nat
    BY <1>1, AnyTimingWindow DEF RobInv, TypeInv, TypeOK, Ids
<1>5. OlderStores(id)' = OlderStores(id)
    BY <1>1, <1>2, <1>3, <1>4 DEF OlderStores, StoreStays
<1>6. ASSUME NEW j \in todo, CompleteStore(j) PROVE ~lsq[j].valueReady
  <2>1. /\ active[j].robTag \in BusyTags /\ ~robEntries[active[j].robTag].ready
        /\ robEntries[active[j].robTag].id = j /\ Writer(active[j].robTag) = active[j].instr
        /\ active[j].instr.op = "SD"
      BY <1>1, <1>6, FinishFields DEF CompleteStore
  <2> QED
      BY <2>1 DEF QueueInv, StoresAgree
<1> QED
    BY <1>1, <1>2, <1>3, <1>5, <1>6 DEF OlderStores

\* Seen from an instruction that stays in flight, a store that commits moves its
\* value to the memory.
LEMMA CommitOlderStores ==
    ASSUME QueueInv, Commit, NEW id \in InFlight, id \in InFlight'
    PROVE  LET head == robEntries[robHead].id IN
           /\ OlderStores(id)' = OlderStores(id) \ {head}
           /\ \A j \in OlderStores(id)' : lsq'[j] = lsq[j]
           /\ \A j \in OlderStores(id) : head <= j
           /\ IF head \in OlderStores(id)
              THEN /\ mem' = memoryAfterStore(mem, lsq[head].address, lsq[head].value)
                   /\ lsq[head].valueReady
              ELSE mem' = mem
<1> DEFINE head == robEntries[robHead].id
<1>1. /\ ResultInv /\ RobInv /\ robHead \in BusyTags /\ robEntries[robHead].ready
      /\ \A t \in BusyTags' : robEntries[robHead].id < robEntries[t].id
      /\ BusyTags' = BusyTags \ {robHead}
    BY CommitSlots DEF QueueInv, ResultInv, FateInv
<1>2. /\ DOMAIN lsq \subseteq InFlight /\ InFlight \subseteq Nat
      /\ InFlight = {robEntries[t].id : t \in BusyTags}
    BY <1>1, ActiveInFlight, InFlightByTag DEF InFlightHoldBusyTags
<1>3. /\ lsq' = Remove(lsq, head)
      /\ mem' = IF robEntries[robHead].writesMemory
                THEN memoryAfterStore(mem, robEntries[robHead].address,
                                      robEntries[robHead].memoryValue)
                ELSE mem
    BY DEF Commit
<1>4. head \in Nat /\ \A j \in InFlight : head <= j
    BY <1>1, <1>2
<1>5. head < id
  <2>1. RobInv'
      BY <1>1, AnyTimingWindow DEF NextAnyTiming
  <2>2. InFlight' = InFlight \ {head}
      BY <1>1, <2>1, CommitInFlight
  <2> QED
      BY <1>2, <1>4, <2>2
<1>6. DOMAIN lsq' = DOMAIN lsq \ {head} /\ \A j \in DOMAIN lsq' : lsq'[j] = lsq[j]
    BY <1>3 DEF Remove, Restrict
<1>7. head \in OlderStores(id) <=> Writer(robHead).op = "SD"
    BY <1>1, <1>2, <1>5 DEF OlderStores, QueueInv, LsqHoldsMemoryOps, Writer, IsMemoryOp
<1>8. Writer(robHead).op = "SD" =>
        /\ robEntries[robHead].writesMemory /\ lsq[head].valueReady
        /\ lsq[head].address = robEntries[robHead].address
        /\ lsq[head].value = robEntries[robHead].memoryValue
    BY <1>1 DEF QueueInv, StoresAgree
<1>9. Writer(robHead).op # "SD" => ~robEntries[robHead].writesMemory
    BY <1>1 DEF QueueInv, EntriesWriteTheirOwn
<1>10. OlderStores(id)' = OlderStores(id) \ {head}
    BY <1>6 DEF OlderStores
<1> HIDE DEF head
<1>11. /\ \A j \in OlderStores(id)' : lsq'[j] = lsq[j]
       /\ \A j \in OlderStores(id) : head <= j
    BY <1>2, <1>4, <1>6 DEF OlderStores
<1> QED
    BY <1>3, <1>7, <1>8, <1>9, <1>10, <1>11 DEF head

\* What is known of the older stores stays known, and no other gets their address.
LEMMA NoStoreToStays ==
    ASSUME QueueInv, [NextAnyTiming]_vars, NEW id \in InFlight, id \in InFlight',
           OlderStoresKnown(id)
    PROVE  /\ OlderStoresKnown(id)'
           /\ \A a : StoresTo(id, a) = {} => StoresTo(id, a)' = {}
           /\ ~Commit => \A a : StoresTo(id, a)' = StoresTo(id, a)
<1>1. CASE Commit
    BY <1>1, CommitOlderStores DEF OlderStoresKnown, StoresTo
<1>2. CASE ~Commit
  <2>1. OlderStores(id)' = OlderStores(id) /\ \A j \in OlderStores(id) : StoreStays(j)
      BY <1>2, OlderStoresStay
  <2>2. \A j \in OlderStores(id) : lsq'[j].addressReady /\ lsq'[j].address = lsq[j].address
      BY <2>1 DEF StoreStays, OlderStoresKnown, OlderStores
  <2> QED
      BY <2>1, <2>2 DEF OlderStoresKnown, StoresTo
<1> QED
    BY <1>1, <1>2

\* What a load has seen is what it would see at any later step.
LEMMA LoadSeesStays ==
    ASSUME QueueInv, [NextAnyTiming]_vars, NEW id \in InFlight, id \in InFlight',
           NEW a \in Val, NEW v \in Val, LoadSees(id, a, v)
    PROVE  LoadSees(id, a, v)'
<1>1. OlderStoresKnown(id) /\ OlderStoresKnown(id)'
    BY NoStoreToStays DEF LoadSees
<1>2. TypeInv /\ OlderStores(id) \subseteq Nat
    BY ActiveInFlight DEF QueueInv, ResultInv, FateInv, RobInv, OlderStores
<1>3. CASE ~Commit
  <2>1. mem' = mem
      BY <1>2, <1>3, OnlyCommitWrites
  <2>2. StoresTo(id, a)' = StoresTo(id, a)
      BY <1>1, <1>3, NoStoreToStays
  <2>3. ASSUME NEW j \in StoresTo(id, a), lsq[j].valueReady
        PROVE  lsq'[j].valueReady /\ lsq'[j].value = lsq[j].value
    <3>1. StoreStays(j) /\ ~(j \in todo /\ CompleteStore(j))
        BY <1>3, <2>3, OlderStoresStay DEF StoresTo
    <3> QED
        BY <2>3, <3>1 DEF StoreStays
  <2> QED
      BY <1>1, <2>1, <2>2, <2>3 DEF LoadSees
<1>4. CASE Commit
  <2> DEFINE head == robEntries[robHead].id
  <2>1. /\ OlderStores(id)' = OlderStores(id) \ {head}
        /\ \A j \in OlderStores(id)' : lsq'[j] = lsq[j]
        /\ \A j \in OlderStores(id) : head <= j
        /\ IF head \in OlderStores(id)
           THEN /\ mem' = memoryAfterStore(mem, lsq[head].address, lsq[head].value)
                /\ lsq[head].valueReady
           ELSE mem' = mem
      BY <1>4, CommitOlderStores
  <2>2. /\ mem \in [Addresses -> Val] /\ lsq \in [DOMAIN lsq -> LsqRecords]
      BY <1>2 DEF TypeInv, TypeOK
  <2> HIDE DEF head
  <2>3. StoresTo(id, a)' = StoresTo(id, a) \ {head}
      BY <2>1 DEF StoresTo
  <2>4. CASE StoresTo(id, a) = {} /\ v \in loadValues(mem, a)
    <3>1. loadValues(mem, a)' = loadValues(mem, a)
      <4>1. head \in OlderStores(id) => lsq[head].address # a
          BY <2>4 DEF StoresTo
      <4> QED
          BY <2>1, <2>2, <4>1 DEF loadValues, memoryAfterStore
    <3> QED
        BY <1>1, <2>3, <2>4, <3>1 DEF LoadSees
  <2>5. ASSUME NEW j \in StoresTo(id, a), \A i \in StoresTo(id, a) : i <= j,
               lsq[j].valueReady, v = lsq[j].value
        PROVE  LoadSees(id, a, v)'
    <3>1. CASE j # head
      <4>1. j \in StoresTo(id, a)' /\ lsq'[j] = lsq[j]
          BY <2>1, <2>3, <2>5, <3>1 DEF StoresTo
      <4> QED
          BY <1>1, <2>3, <2>5, <4>1 DEF LoadSees
    <3>2. CASE j = head
      <4>1. StoresTo(id, a)' = {}
        <5>1. \A i \in StoresTo(id, a) : head <= i /\ i \in Nat /\ head \in Nat
            BY <1>2, <2>1, <2>5, <3>2 DEF StoresTo
        <5>2. \A i \in StoresTo(id, a) : i = head
            BY <2>5, <3>2, <5>1
        <5> QED
            BY <2>3, <5>2
      <4>2. mem' = memoryAfterStore(mem, a, v)
          BY <2>1, <2>5, <3>2 DEF StoresTo
      <4>3. v \in loadValues(mem', a)
          BY <2>2, <4>2 DEF loadValues, memoryAfterStore
      <4> QED
          BY <1>1, <4>1, <4>3 DEF LoadSees
    <3> QED
        BY <3>1, <3>2
  <2> QED
      BY <2>4, <2>5 DEF LoadSees
<1> QED
    BY <1>3, <1>4

\* A load that starts has passed checkLoad: it takes the value of the youngest
\* older store to its address, or there is none.
LEMMA StartedLoadSees ==
    ASSUME QueueInv, NEW k \in DOMAIN active, active[k].instr.op = "LD", CanStart(k)
    PROVE  /\ OlderStoresKnown(k)
           /\ Checked(k).hasForwarded <=> StoresTo(k, Address(k)) # {}
           /\ Checked(k).hasForwarded => LoadSees(k, Address(k), Checked(k).forwarded)
<1>1. TypeInv /\ active[k] \in ActiveRecords
    BY DEF QueueInv, ResultInv, FateInv, RobInv, TypeInv, TypeOK
<1>2. OperandsReady(k) /\ LoadMayExecute(k)
    BY DEF CanStart, PassesLoadCheck
<1>3. OlderStoresKnown(k) /\ \A j \in StoresTo(k, Address(k)) : lsq[j].valueReady
    BY <1>2 DEF LoadMayExecute, OlderStoresKnown, StoresTo, SameAddressStores
<1>4. /\ Checked(k).hasForwarded <=> StoresTo(k, Address(k)) # {}
      /\ StoresTo(k, Address(k)) # {} =>
           Checked(k).forwarded = lsq[ForwardingStore(k)].value
  <2> DEFINE forwards == SameAddressStores(k) # {}
  <2>1. Checked(k) = [active[k] EXCEPT
            !.addressComputed = @ \/ AddressKnown(k),
            !.hasForwarded = forwards,
            !.forwarded = IF forwards THEN lsq[ForwardingStore(k)].value ELSE 0]
      BY <1>2 DEF Checked
  <2>2. forwards <=> StoresTo(k, Address(k)) # {}
      BY DEF StoresTo, SameAddressStores
  <2> HIDE DEF forwards
  <2>3. /\ Checked(k).hasForwarded = forwards
        /\ forwards => Checked(k).forwarded = lsq[ForwardingStore(k)].value
      BY <1>1, <2>1 DEF ActiveRecords
  <2> QED
      BY <2>2, <2>3
<1>5. StoresTo(k, Address(k)) # {} =>
        /\ ForwardingStore(k) \in StoresTo(k, Address(k))
        /\ \A j \in StoresTo(k, Address(k)) : j <= ForwardingStore(k)
    BY <1>1, ForwardingStoreExists DEF TypeInv, StoresTo, SameAddressStores
<1> QED
    BY <1>3, <1>4, <1>5 DEF LoadSees

\* A load keeps what it has seen until it completes.
LEMMA LoadsStaySafe ==
    ASSUME MemoryInv, [NextAnyTiming]_vars
    PROVE  LoadsAreSafe'
<1> SUFFICES ASSUME NEW k \in DOMAIN active', NEW a \in Val, NEW v \in Val,
                    active'[k].instr.op = "LD", active'[k].executing,
                    a = Address(k)', v = active'[k].forwarded
             PROVE  IF active'[k].hasForwarded
                    THEN LoadSees(k, a, v)'
                    ELSE OlderStoresKnown(k)' /\ StoresTo(k, a)' = {}
    BY DEF LoadsAreSafe
<1>1. QueueInv /\ TypeInv /\ k \in InFlight'
    BY ActiveEntryNext DEF MemoryInv, QueueInv, ResultInv, FateInv, RobInv
<1>2. ASSUME k \in DOMAIN active,
             IF active'[k].hasForwarded
             THEN LoadSees(k, a, v) ELSE OlderStoresKnown(k) /\ StoresTo(k, a) = {}
      PROVE  IF active'[k].hasForwarded
             THEN LoadSees(k, a, v)' ELSE OlderStoresKnown(k)' /\ StoresTo(k, a)' = {}
  <2>1. k \in InFlight
      BY <1>1, <1>2, ActiveInFlight
  <2> QED
      BY <1>1, <1>2, <2>1, LoadSeesStays, NoStoreToStays
<1>3. ASSUME k \in DOMAIN active, active[k].executing,
             active'[k].instr = active[k].instr, active'[k].vj = active[k].vj,
             active'[k].hasForwarded = active[k].hasForwarded,
             active'[k].forwarded = active[k].forwarded
      PROVE  IF active'[k].hasForwarded
             THEN LoadSees(k, a, v) ELSE OlderStoresKnown(k) /\ StoresTo(k, a) = {}
  <2>1. a = Address(k) /\ v = active[k].forwarded /\ active[k].instr.op = "LD"
      BY <1>3 DEF Address
  <2> QED
      BY <1>3, <2>1 DEF MemoryInv, LoadsAreSafe
<1>4. CASE k \in DOMAIN active /\ active'[k] = active[k]
    BY <1>2, <1>3, <1>4
<1>5. ASSUME NEW predictedTaken \in BOOLEAN, Issue(predictedTaken), k = nextId PROVE FALSE
    BY <1>1, <1>5, IssuedFields
<1>6. CASE k \in todo /\ VisitAnyTiming(k)
  <2>1. /\ k \in DOMAIN active
        /\ active'[k].instr = active[k].instr /\ active'[k].vj = active[k].vj
        /\ IF active[k].executing
           THEN /\ active'[k].hasForwarded = active[k].hasForwarded
                /\ active'[k].forwarded = active[k].forwarded
           ELSE /\ CanStart(k)
                /\ active'[k].hasForwarded = Checked(k).hasForwarded
                /\ active'[k].forwarded = Checked(k).forwarded
      BY <1>1, <1>6, VisitedFields
  <2>2. CASE ~active[k].executing
    <3>1. a = Address(k) /\ v = Checked(k).forwarded /\ active[k].instr.op = "LD"
        BY <2>1, <2>2 DEF Address
    <3>2. IF active'[k].hasForwarded
          THEN LoadSees(k, a, v) ELSE OlderStoresKnown(k) /\ StoresTo(k, a) = {}
        BY <1>1, <2>1, <2>2, <3>1, StartedLoadSees
    <3> QED
        BY <1>2, <2>1, <3>2
  <2> QED
      BY <1>2, <1>3, <2>1, <2>2
<1>7. ASSUME NEW b \in DOMAIN cdbQueue, Broadcast(b), k \in DOMAIN active
      PROVE  IF active'[k].hasForwarded
             THEN LoadSees(k, a, v)' ELSE OlderStoresKnown(k)' /\ StoresTo(k, a)' = {}
  <2>1. /\ active'[k].instr = active[k].instr /\ active'[k].executing = active[k].executing
        /\ active'[k].hasForwarded = active[k].hasForwarded
        /\ active'[k].forwarded = active[k].forwarded
      BY <1>1, <1>7, WokenFields
  <2>2. active[k].qj = None
      BY <1>1, <1>7, <2>1 DEF QueueInv, ExecutingHasOperands, OperandsReady
  <2>3. active'[k].vj = active[k].vj
      BY <1>1, <1>7, <2>2, WokenFields
  <2> QED
      BY <1>2, <1>3, <1>7, <2>1, <2>3
<1> QED
    BY <1>1, <1>4, <1>5, <1>6, <1>7, ActiveSteps

LEMMA InitMemory == Init => MemoryInv
<1>1. Init => DOMAIN active = {}
    BY DEF Init, EmptyFunction
<1> QED
    BY <1>1, InitQueue DEF MemoryInv, LoadsAreSafe

LEMMA AnyTimingMemory == MemoryInv /\ [NextAnyTiming]_vars => MemoryInv'
BY AnyTimingQueue, LoadsStaySafe DEF MemoryInv

LEMMA NextMemory == MemoryInv /\ [Next]_vars => MemoryInv'
BY AnyTimingMemory, NextIsAnyTiming DEF MemoryInv, QueueInv, ResultInv, FateInv, RobInv

LEMMA SafeLoadsSeeLatest == MemoryInv => LoadsSeeLatestStore
<1> SUFFICES ASSUME MemoryInv, NEW k \in DOMAIN active,
                    active[k].instr.op = "LD", active[k].executing
             PROVE  /\ \A j \in OlderStores(k) : lsq[j].addressReady
                    /\ SameAddressStores(k) # {} =>
                         /\ active[k].hasForwarded
                         /\ active[k].forwarded = lsq[ForwardingStore(k)].value
    BY DEF LoadsSeeLatestStore
<1>1. TypeInv /\ active[k] \in ActiveRecords
    BY DEF MemoryInv, QueueInv, ResultInv, FateInv, RobInv, TypeInv, TypeOK
<1>2. Address(k) \in Val /\ active[k].forwarded \in Val
    BY <1>1, ActiveType DEF TypeInv, ActiveRecords
<1>3. SameAddressStores(k) = StoresTo(k, Address(k))
    BY DEF SameAddressStores, StoresTo
<1>4. IF active[k].hasForwarded
      THEN LoadSees(k, Address(k), active[k].forwarded)
      ELSE OlderStoresKnown(k) /\ StoresTo(k, Address(k)) = {}
    BY <1>2 DEF MemoryInv, LoadsAreSafe
<1>5. ASSUME StoresTo(k, Address(k)) # {}
      PROVE  active[k].hasForwarded /\ active[k].forwarded = lsq[ForwardingStore(k)].value
  <2>1. active[k].hasForwarded /\ LoadSees(k, Address(k), active[k].forwarded)
      BY <1>4, <1>5
  <2>2. PICK j \in StoresTo(k, Address(k)) :
            /\ \A i \in StoresTo(k, Address(k)) : i <= j
            /\ active[k].forwarded = lsq[j].value
      BY <1>5, <2>1 DEF LoadSees
  <2>3. /\ ForwardingStore(k) \in StoresTo(k, Address(k))
        /\ \A i \in StoresTo(k, Address(k)) : i <= ForwardingStore(k)
      BY <1>1, <1>3, <1>5, ForwardingStoreExists DEF TypeInv
  <2>4. StoresTo(k, Address(k)) \subseteq Nat
      BY <1>1 DEF StoresTo, OlderStores, TypeInv, TypeOK, Ids
  <2>5. j = ForwardingStore(k)
      BY <2>2, <2>3, <2>4
  <2> QED
      BY <2>1, <2>2, <2>5
<1> QED
    BY <1>3, <1>4, <1>5 DEF OlderStoresKnown, LoadSees

(***************************************************************************)
(* For every machine and program, a load that executes knows the address of   *)
(* every older store, and carries the value of the youngest to its own        *)
(* address: no store whose address or value comes late finds a younger load   *)
(* past it.                                                                   *)
(***************************************************************************)
THEOREM LoadsSeeLatest == Spec => []LoadsSeeLatestStore
BY InitMemory, NextMemory, SafeLoadsSeeLatest, PTL DEF Spec
=============================================================================

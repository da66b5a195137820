--------------------------- MODULE Sequential_proofs ---------------------------
(* What the loop commits is what the sequential machine computes.  An operand *)
(* is the value of the youngest older writer of its register, in flight or    *)
(* committed; a result is computed from such operands, and the instructions   *)
(* in flight follow one another as the branches among them are predicted or   *)
(* resolved.  All of this is inductive for programs that do not write R0, as  *)
(* long as a register without a rename has no writer in flight; a commit then *)
(* is a step of SequentialISA.                                                *)
EXTENDS DataFlow_proofs

-----------------------------------------------------------------------------
(* The invariant                                                             *)

\* The writers of r that come before id in program order and are in flight.
OlderWriters(id, r) == {t \in OlderSlots(id) : Writer(t).rd = r}
IsYoungest(t, T) == t \in T /\ \A s \in T : robEntries[s].id <= robEntries[t].id

\* The value v is what register r holds at the place of id in program order.
Sees(id, r, v) ==
    IF r = None THEN v = 0
    ELSE \/ OlderWriters(id, r) = {} /\ v = rf[r]
         \/ \E t \in BusyTags :
              /\ IsYoungest(t, OlderWriters(id, r))
              /\ robEntries[t].ready /\ v = robEntries[t].value

SeesOperands(id, i, vj, vk) == Sees(id, i.rs1, vj) /\ Sees(id, i.rs2, vk)

\* What the instruction i computes at that place: a register's value, a word to
\* store, or a direction.
Computes(id, i, v) ==
    \E vj \in Val, vk \in Val :
        /\ SeesOperands(id, i, vj, vk)
        /\ IF i.op = "LD" THEN LoadSees(id, effectiveAddress(i, vj), v)
                          ELSE v = computeResult(i, vj, vk)
Stores(id, i, a, v) ==
    \E vj \in Val : SeesOperands(id, i, vj, v) /\ a = effectiveAddress(i, vj)
Branches(id, i, taken) ==
    \E vj \in Val, vk \in Val : SeesOperands(id, i, vj, vk) /\ taken = branchTaken(i, vj, vk)

\* A source operand is the value seen, or waits for the writer that gives it.
Captured(id, tag, r, v) ==
    IF tag = None THEN Sees(id, r, v) ELSE IsYoungest(tag, OlderWriters(id, r))

OperandsAreCurrent ==
    \A k \in DOMAIN active :
        /\ Captured(k, active[k].qj, active[k].instr.rs1, active[k].vj)
        /\ Captured(k, active[k].qk, active[k].instr.rs2, active[k].vk)

ResultsAreCurrent ==
    /\ \A k \in DOMAIN cdbQueue : Computes(k, InstructionOf(k), cdbQueue[k].value)
    /\ \A t \in BusyTags : robEntries[t].ready =>
         LET e == robEntries[t] IN
           /\ Writer(t).rd # None => Computes(e.id, Writer(t), e.value)
           /\ Writer(t).op = "SD" => Stores(e.id, Writer(t), e.address, e.memoryValue)

\* From id the path goes to p: where its branch is predicted to go, once resolved
\* where it goes.
GoesTo(id, p) ==
    \E taken \in BOOLEAN :
        /\ p = IF taken THEN InstructionOf(id).target ELSE statusTable[id].staticPc + 1
        /\ IF ~IsBranch(InstructionOf(id)) THEN ~taken
           ELSE IF id \in DOMAIN active THEN taken = active[id].predictedTaken
           ELSE Branches(id, InstructionOf(id), taken)

Follows(k, j, S) == k \in S /\ j < k /\ \A i \in S : i <= j \/ k <= i
IsLast(j, S) == \A i \in S : i <= j

PathIsFollowed ==
    \A j \in InFlight :
        /\ \A k \in InFlight : Follows(k, j, InFlight) => GoesTo(j, statusTable[k].staticPc)
        /\ IsLast(j, InFlight) => GoesTo(j, pc)

SparesR0 == \A n \in 1 .. Len(program) : program[n].rd # 0

SequentialInv ==
    /\ MemoryInv /\ SparesR0
    /\ OperandsAreCurrent /\ ResultsAreCurrent /\ PathIsFollowed

-----------------------------------------------------------------------------
(* What an instruction sees stays what it sees                               *)

\* The facts of MemoryInv that are used throughout.
LEMMA MemoryFacts ==
    ASSUME MemoryInv
    PROVE  /\ QueueInv /\ ResultInv /\ RobInv /\ TypeInv /\ InFlight \subseteq Ids
           /\ Ids \subseteq Nat /\ nextId \in Nat /\ nextId \notin InFlight
           /\ InFlight = {robEntries[t].id : t \in BusyTags}
           /\ DOMAIN active \subseteq InFlight /\ DOMAIN cdbQueue \subseteq InFlight
           /\ \A id \in InFlight : InstructionOf(id) \in WellFormedInstructions
           /\ \A t \in BusyTags : Writer(t) \in WellFormedInstructions
           /\ \A t \in BusyTags : robEntries[t].id \in InFlight /\ robEntries[t].id \in Nat
           /\ BusyTags \subseteq Tags /\ robEntries \in [Tags -> RobRecords]
<1>1. QueueInv /\ ResultInv /\ RobInv /\ TypeInv
    BY DEF MemoryInv, QueueInv, ResultInv, FateInv, RobInv
<1>2. /\ InFlight \subseteq Ids /\ Ids \subseteq Nat /\ nextId \in Nat /\ nextId \notin InFlight
      /\ DOMAIN active \subseteq InFlight
    BY <1>1, ActiveInFlight
<1>3. InFlight = {robEntries[t].id : t \in BusyTags}
    BY <1>1, InFlightByTag DEF InFlightHoldBusyTags
<1>4. DOMAIN cdbQueue \subseteq InFlight
    BY <1>1, <1>3 DEF ResultInv, OwedOnce, Unfinished
<1>5. BusyTags \subseteq Tags /\ robEntries \in [Tags -> RobRecords]
    BY <1>1 DEF BusyTags, TypeInv, TypeOK
<1> QED
    BY <1>1, <1>2, <1>3, <1>4, <1>5, IssuedAreWellFormed

\* Only a commit removes a writer older than an instruction that stays in flight.
LEMMA OlderWritersStay ==
    ASSUME MemoryInv, [NextAnyTiming]_vars, ~Commit, NEW id \in InFlight, id \in InFlight'
    PROVE  /\ \A r : OlderWriters(id, r)' = OlderWriters(id, r)
           /\ \A t \in OlderSlots(id) :
                /\ t \in BusyTags /\ t \in BusyTags' /\ robEntries'[t].id = robEntries[t].id
                /\ robEntries[t].ready => robEntries'[t] = robEntries[t]
<1>1. ResultInv /\ OlderSlots(id)' = OlderSlots(id)
    BY MemoryFacts, OlderSlotsStay
<1>2. ASSUME NEW t \in OlderSlots(id)
      PROVE  /\ t \in BusyTags /\ t \in BusyTags' /\ robEntries'[t].id = robEntries[t].id
             /\ robEntries[t].ready => robEntries'[t] = robEntries[t]
             /\ Writer(t)' = Writer(t)
  <2>1. t \in BusyTags /\ t \in BusyTags'
      BY <1>1 DEF OlderSlots
  <2> QED
      BY <1>1, <2>1, FinishedEntriesStay
<1>3. ASSUME NEW r PROVE OlderWriters(id, r)' = OlderWriters(id, r)
    BY <1>1, <1>2 DEF OlderWriters
<1> QED
    BY <1>2, <1>3

LEMMA YoungestStays ==
    ASSUME MemoryInv, [NextAnyTiming]_vars, ~Commit, NEW id \in InFlight, id \in InFlight',
           NEW r, NEW t, IsYoungest(t, OlderWriters(id, r))
    PROVE  IsYoungest(t, OlderWriters(id, r))'
<1>1. /\ OlderWriters(id, r)' = OlderWriters(id, r)
      /\ \A s \in OlderWriters(id, r) : robEntries'[s].id = robEntries[s].id
    BY OlderWritersStay DEF OlderWriters
<1> QED
    BY <1>1 DEF IsYoungest

\* A commit takes away the oldest writer, or none.
LEMMA CommitOlderWriters ==
    ASSUME MemoryInv, Commit, NEW id \in InFlight, id \in InFlight'
    PROVE  /\ \A r : OlderWriters(id, r)' = OlderWriters(id, r) \ {robHead}
           /\ \A t \in OlderSlots(id) : t # robHead =>
                t \in BusyTags' /\ robEntries'[t] = robEntries[t]
           /\ \A t \in OlderSlots(id) : robEntries[robHead].id <= robEntries[t].id
           /\ robHead \in OlderSlots(id) /\ robEntries[robHead].ready
<1>1. /\ ResultInv /\ robHead \in BusyTags /\ robEntries[robHead].ready
      /\ robEntries[robHead].id \in Nat
      /\ BusyTags' = BusyTags \ {robHead}
      /\ \A t \in BusyTags' : robEntries'[t] = robEntries[t] /\ Writer(t)' = Writer(t)
      /\ \A t \in BusyTags' : robEntries[robHead].id < robEntries[t].id
      /\ \A t \in BusyTags : robEntries[t].id \in Nat
    BY MemoryFacts, CommitSlots
<1>2. robHead \in OlderSlots(id) /\ OlderSlots(id)' = OlderSlots(id) \ {robHead}
    BY <1>1, CommitOlderSlots
<1>3. OlderSlots(id) \subseteq BusyTags /\ OlderSlots(id)' \subseteq BusyTags'
    BY <1>1, <1>2 DEF OlderSlots
<1>4. ASSUME NEW r PROVE OlderWriters(id, r)' = OlderWriters(id, r) \ {robHead}
    BY <1>1, <1>2, <1>3 DEF OlderWriters
<1>5. ASSUME NEW t \in OlderSlots(id) PROVE robEntries[robHead].id <= robEntries[t].id
    BY <1>1, <1>3
<1> QED
    BY <1>1, <1>2, <1>3, <1>4, <1>5

\* The register a commit writes, if any, gets the value of the head.
LEMMA CommitWritesHead ==
    ASSUME MemoryInv, SparesR0, Commit
    PROVE  /\ Writer(robHead).rd # None =>
                rf' = [rf EXCEPT ![Writer(robHead).rd] = robEntries[robHead].value]
           /\ Writer(robHead).rd = None => rf' = rf
           /\ Writer(robHead).rd # 0
<1> DEFINE e == robEntries[robHead]
<1>1. robHead \in BusyTags /\ e.ready /\ ResultInv /\ QueueInv
    BY MemoryFacts, CommitSlots
<1>2. rf' = IF e.writesRegister THEN registersAfterWrite(rf, e.rd, e.value) ELSE rf
    BY DEF Commit
<1>3. Writer(robHead).rd # None => e.writesRegister /\ e.rd = Writer(robHead).rd
    BY <1>1 DEF ResultInv, ResultsNameRegisters
<1>4. e.writesRegister => Writer(robHead).rd # None
    BY <1>1 DEF QueueInv, EntriesWriteTheirOwn
<1>5. Writer(robHead).rd # 0
  <2>1. robEntries[robHead].id \in Ids
      BY <1>1, MemoryFacts
  <2>2. statusTable[robEntries[robHead].id].staticPc \in 0 .. Len(program) - 1
      BY <1>1, <2>1 DEF QueueInv, FetchedFromProgram
  <2>3. Len(program) \in Nat
      BY MemoryFacts DEF TypeInv, TypeOK
  <2>4. statusTable[robEntries[robHead].id].staticPc + 1 \in 1 .. Len(program)
      BY <2>2, <2>3
  <2> QED
      BY <2>4 DEF SparesR0, Writer, InstructionOf
<1> QED
    BY <1>2, <1>3, <1>4, <1>5 DEF registersAfterWrite

\* What an instruction sees of the registers does not depend on how far the older
\* ones have come: a commit moves the value it sees to the register file.
LEMMA SeesStays ==
    ASSUME MemoryInv, SparesR0, [NextAnyTiming]_vars, NEW id \in InFlight, id \in InFlight',
           NEW r \in Registers \cup {None}, NEW v, Sees(id, r, v)
    PROVE  Sees(id, r, v)'
<1>1. CASE r = None
    BY <1>1 DEF Sees
<1>2. CASE r # None /\ ~Commit
  <2>1. rf' = rf
      BY <1>2, MemoryFacts, OnlyCommitWrites
  <2>2. OlderWriters(id, r)' = OlderWriters(id, r)
      BY <1>2, OlderWritersStay
  <2>3. ASSUME NEW t \in BusyTags, IsYoungest(t, OlderWriters(id, r)), robEntries[t].ready
        PROVE  /\ t \in BusyTags' /\ IsYoungest(t, OlderWriters(id, r))'
               /\ robEntries'[t] = robEntries[t]
    <3>1. t \in OlderSlots(id)
        BY <2>3 DEF IsYoungest, OlderWriters
    <3> QED
        BY <1>2, <2>3, <3>1, OlderWritersStay, YoungestStays
  <2> QED
      BY <1>2, <2>1, <2>2, <2>3 DEF Sees
<1>3. CASE r # None /\ Commit
  <2>1. OlderWriters(id, r)' = OlderWriters(id, r) \ {robHead}
      BY <1>3, CommitOlderWriters
  <2>2. rf \in [Registers -> Val] /\ Writer(robHead).rd # 0
      BY <1>3, MemoryFacts, CommitWritesHead DEF TypeInv, TypeOK
  <2>3. CASE OlderWriters(id, r) = {} /\ v = rf[r]
    <3>1. Writer(robHead).rd # r
        BY <1>3, <2>3, CommitOlderWriters DEF OlderWriters
    <3>2. rf'[r] = rf[r]
        BY <1>3, <2>2, <3>1, CommitWritesHead
    <3> QED
        BY <1>3, <2>1, <2>3, <3>2 DEF Sees
  <2>4. ASSUME NEW t \in BusyTags, IsYoungest(t, OlderWriters(id, r)),
               robEntries[t].ready, v = robEntries[t].value
        PROVE  Sees(id, r, v)'
    <3>1. t \in OlderSlots(id) /\ Writer(t).rd = r
        BY <2>4 DEF IsYoungest, OlderWriters
    <3>2. CASE t = robHead
      <4>1. OlderWriters(id, r)' = {}
        <5> SUFFICES ASSUME NEW s \in OlderWriters(id, r) PROVE s = robHead
            BY <2>1
        <5>1. s \in OlderSlots(id) /\ s \in BusyTags /\ robHead \in BusyTags
            BY <3>1, <3>2 DEF OlderWriters, OlderSlots
        <5>2. /\ robEntries[s].id <= robEntries[robHead].id
              /\ robEntries[robHead].id <= robEntries[s].id
            BY <1>3, <2>4, <3>2, <5>1, CommitOlderWriters DEF IsYoungest
        <5> QED
            BY <5>1, <5>2, MemoryFacts, SlotOwners
      <4>2. rf'[r] = v
          BY <1>3, <2>2, <2>4, <3>1, <3>2, CommitWritesHead
      <4> QED
          BY <1>3, <4>1, <4>2 DEF Sees
    <3>3. CASE t # robHead
      <4>1. t \in BusyTags' /\ robEntries'[t] = robEntries[t]
          BY <1>3, <3>1, <3>3, CommitOlderWriters
      <4>2. \A s \in OlderWriters(id, r) : s # robHead => robEntries'[s] = robEntries[s]
          BY <1>3, CommitOlderWriters DEF OlderWriters
      <4>3. IsYoungest(t, OlderWriters(id, r))'
          BY <2>1, <2>4, <3>3, <4>1, <4>2 DEF IsYoungest
      <4> QED
          BY <1>3, <2>4, <4>1, <4>3 DEF Sees
    <3> QED
        BY <3>2, <3>3
  <2> QED
      BY <1>3, <2>3, <2>4 DEF Sees
<1> QED
    BY <1>1, <1>2, <1>3

\* So it computes the same.
LEMMA ComputedStays ==
    ASSUME MemoryInv, SparesR0, [NextAnyTiming]_vars, NEW id \in InFlight, id \in InFlight',
           NEW i \in WellFormedInstructions
    PROVE  /\ \A v \in Val : Computes(id, i, v) => Computes(id, i, v)'
           /\ \A a, v \in Val : Stores(id, i, a, v) => Stores(id, i, a, v)'
           /\ \A taken : Branches(id, i, taken) => Branches(id, i, taken)'
<1>1. i.rs1 \in Registers \cup {None} /\ i.rs2 \in Registers \cup {None}
    BY DEF WellFormedInstructions, Instructions
<1>2. ASSUME NEW vj \in Val, NEW vk \in Val, SeesOperands(id, i, vj, vk)
      PROVE  SeesOperands(id, i, vj, vk)'
    BY <1>1, <1>2, SeesStays DEF SeesOperands
<1>3. ASSUME NEW v \in Val, Computes(id, i, v) PROVE Computes(id, i, v)'
  <2>1. PICK vj \in Val, vk \in Val :
            /\ SeesOperands(id, i, vj, vk)
            /\ IF i.op = "LD" THEN LoadSees(id, effectiveAddress(i, vj), v)
                              ELSE v = computeResult(i, vj, vk)
      BY <1>3 DEF Computes
  <2>2. effectiveAddress(i, vj) \in Val
      BY EffectiveAddressType
  <2>3. i.op = "LD" => LoadSees(id, effectiveAddress(i, vj), v)'
      BY <2>1, <2>2, MemoryFacts, LoadSeesStays
  <2> QED
      BY <1>2, <2>1, <2>3 DEF Computes
<1> QED
    BY <1>2, <1>3 DEF Stores, Branches

\* An operand that waits keeps waiting for the same writer, or has its value.
LEMMA CapturedStays ==
    ASSUME MemoryInv, SparesR0, [NextAnyTiming]_vars, NEW id \in InFlight, id \in InFlight',
           NEW tag, tag # None => Unfinished(tag), NEW r \in Registers \cup {None}, NEW v,
           Captured(id, tag, r, v)
    PROVE  Captured(id, tag, r, v)'
<1>1. CASE tag = None
    BY <1>1, SeesStays DEF Captured
<1>2. CASE tag # None
  <2>1. IsYoungest(tag, OlderWriters(id, r))
      BY <1>2 DEF Captured
  <2>2. CASE ~Commit
      BY <1>2, <2>1, <2>2, YoungestStays DEF Captured
  <2>3. CASE Commit
    <3>1. tag # robHead
        BY <1>2, <2>3, CommitOlderWriters DEF Unfinished
    <3>2. \A s \in OlderWriters(id, r) : s # robHead => robEntries'[s] = robEntries[s]
        BY <2>3, CommitOlderWriters DEF OlderWriters
    <3>3. OlderWriters(id, r)' = OlderWriters(id, r) \ {robHead}
        BY <2>3, CommitOlderWriters
    <3>4. IsYoungest(tag, OlderWriters(id, r))'
        BY <2>1, <3>1, <3>2, <3>3 DEF IsYoungest
    <3> QED
        BY <1>2, <3>4 DEF Captured
  <2> QED
      BY <2>2, <2>3
<1> QED
    BY <1>1, <1>2

\* The bus brings an operand the value its writer has computed.
LEMMA WokenSees ==
    ASSUME MemoryInv, NEW b \in DOMAIN cdbQueue, Broadcast(b), NEW id \in InFlight,
           NEW r \in Registers, IsYoungest(cdbQueue[b].robTag, OlderWriters(id, r))
    PROVE  \A v : v = cdbQueue[b].value => Sees(id, r, v)'
<1> SUFFICES ASSUME NEW v, v = cdbQueue[b].value, NEW tag, tag = cdbQueue[b].robTag
             PROVE  Sees(id, r, v)'
    OBVIOUS
<1>1. ResultInv /\ [NextAnyTiming]_vars /\ ~Commit /\ ~MovesSlots
  <2>1. phase = "broadcast"
      BY DEF Broadcast, BroadcastStage
  <2>2. ~Commit
      BY <2>1 DEF Commit, CommitStage
  <2>3. \A predictedTaken \in BOOLEAN : ~Issue(predictedTaken)
      BY <2>1 DEF Issue, StartCycle
  <2>4. \A k \in todo : ~ResolveMispredicted(k)
      BY <2>1 DEF ResolveMispredicted, Complete
  <2> QED
      BY <2>2, <2>3, <2>4, MemoryFacts DEF NextAnyTiming, MovesSlots
<1>2. id \in InFlight'
    BY <1>1, InFlightSteps
<1>3. IsYoungest(tag, OlderWriters(id, r))'
    BY <1>1, <1>2, YoungestStays
<1>4. tag \in BusyTags' /\ robEntries'[tag].ready /\ robEntries'[tag].value = cdbQueue[b].value
    BY <1>1, BroadcastFields
<1>5. r # None
    BY DEF Registers, None
<1> QED
    BY <1>3, <1>4, <1>5 DEF Sees

-----------------------------------------------------------------------------
(* Operands                                                                  *)

\* Issue captures what the rename table says; this is the latest value as long as
\* a register without a rename has no writer in flight.
LEMMA IssuedOperand ==
    ASSUME MemoryInv, NoProducerMeansLatest, NEW predictedTaken \in BOOLEAN,
           Issue(predictedTaken), NEW r \in Registers \cup {None}
    PROVE  \A id, tag, v :
             /\ id = nextId /\ tag = OperandTag(EntriesAllocated, r)
             /\ v = OperandValue(EntriesAllocated, r)
             => Captured(id, tag, r, v)'
<1> SUFFICES ASSUME NEW id, NEW tag, NEW v,
                    id = nextId, tag = OperandTag(EntriesAllocated, r),
                    v = OperandValue(EntriesAllocated, r)
             PROVE  Captured(id, tag, r, v)'
    OBVIOUS
<1>1. /\ ResultInv /\ QueueInv /\ TypeInv /\ id \in Nat
      /\ \A t \in BusyTags : robEntries[t].id \in InFlight /\ robEntries[t].id \in Nat
      /\ \A t \in BusyTags : t # None
    BY MemoryFacts DEF Tags, None
<1>2. /\ BusyTags' = BusyTags \cup {robTail} /\ robTail \notin BusyTags
      /\ \A t \in BusyTags : robEntries'[t] = robEntries[t] /\ Writer(t)' = Writer(t)
      /\ \A t \in BusyTags : EntriesAllocated[t] = robEntries[t]
      /\ robEntries'[robTail].id = nextId
      /\ \A t \in BusyTags : robEntries[t].id < nextId
    BY <1>1, IssueSlots
<1> DEFINE W == {t \in BusyTags : Writer(t).rd = r}
<1>3. OlderWriters(id, r)' = W
  <2>1. OlderSlots(id)' = BusyTags
      BY <1>1, <1>2 DEF OlderSlots
  <2> QED
      BY <1>2, <2>1 DEF OlderWriters
<1>4. rf' = rf
    BY DEF Issue, archVars
<1>5. CASE r = None
    BY <1>5 DEF OperandTag, OperandValue, Pending, Captured, Sees
<1>6. CASE r # None /\ regProducer[r] = None
  <2>1. tag = None /\ v = rf[r]
      BY <1>6 DEF OperandTag, OperandValue, Pending
  <2>2. W = {}
    <3> SUFFICES ASSUME NEW t \in W PROVE FALSE
        OBVIOUS
    <3>1. robEntries[t].id \in WritersInFlight(r)
        BY <1>1 DEF WritersInFlight, Writer
    <3> QED
        BY <1>6, <3>1 DEF NoProducerMeansLatest
  <2> HIDE DEF W
  <2> QED
      BY <1>3, <1>4, <1>6, <2>1, <2>2 DEF Captured, Sees
<1>7. CASE r # None /\ regProducer[r] # None
  <2>0. PICK p : p = regProducer[r]
      OBVIOUS
  <2>1. p \in W /\ \A t \in W : robEntries[t].id <= robEntries[p].id
      BY <1>1, <1>7, <2>0 DEF ResultInv, ProducersAreYoungest
  <2>2. /\ p \in BusyTags /\ p # None
        /\ robEntries'[p] = robEntries[p] /\ EntriesAllocated[p] = robEntries[p]
      BY <1>1, <1>2, <2>1
  <2>3. \A t \in W : robEntries'[t] = robEntries[t]
      BY <1>2
  <2>4. IF robEntries[p].ready /\ robEntries[p].writesRegister
        THEN tag = None /\ v = robEntries[p].value ELSE tag = p
      BY <1>7, <2>0, <2>2 DEF OperandTag, OperandValue, Pending
  <2>5. p \in BusyTags'
      BY <1>2, <2>2
  <2> HIDE DEF W
  <2> QED
      BY <1>3, <1>7, <2>1, <2>2, <2>3, <2>4, <2>5 DEF Captured, Sees, IsYoungest
<1> QED
    BY <1>5, <1>6, <1>7

\* An operand of an instruction that stays: it keeps its tag, or the bus has just
\* brought its value.
LEMMA OperandStays ==
    ASSUME MemoryInv, SparesR0, [NextAnyTiming]_vars, NEW k \in InFlight, k \in InFlight',
           NEW tag, NEW r \in Registers \cup {None}, NEW v,
           AwaitsWriter(k, tag, r), Captured(k, tag, r, v)
    PROVE  /\ Captured(k, tag, r, v)'
           /\ \A b \in DOMAIN cdbQueue : Broadcast(b) /\ tag = cdbQueue[b].robTag =>
                \A w : w = cdbQueue[b].value => Captured(k, None, r, w)'
<1>1. Captured(k, tag, r, v)'
    BY CapturedStays DEF AwaitsWriter
<1>2. ASSUME NEW b \in DOMAIN cdbQueue, Broadcast(b), tag = cdbQueue[b].robTag,
             NEW w, w = cdbQueue[b].value
      PROVE  Captured(k, None, r, w)'
  <2>1. tag # None
      BY <1>2, MemoryFacts, WokenFields
  <2>2. r \in Registers /\ IsYoungest(tag, OlderWriters(k, r))
      BY <2>1 DEF AwaitsWriter, Captured
  <2>3. Sees(k, r, w)'
      BY <1>2, <2>2, WokenSees
  <2> QED
      BY <2>3 DEF Captured
<1> QED
    BY <1>1, <1>2

\* Operands are captured, kept and woken with what the instruction sees.
LEMMA OperandsStayCurrent ==
    ASSUME SequentialInv, NoProducerMeansLatest, [NextAnyTiming]_vars
    PROVE  OperandsAreCurrent'
<1> SUFFICES ASSUME NEW k \in DOMAIN active'
             PROVE  /\ Captured(k, active[k].qj, active[k].instr.rs1, active[k].vj)'
                    /\ Captured(k, active[k].qk, active[k].instr.rs2, active[k].vk)'
    BY DEF OperandsAreCurrent
<1>1. /\ MemoryInv /\ SparesR0 /\ QueueInv /\ TypeInv /\ k \in InFlight'
    BY MemoryFacts, ActiveEntryNext DEF SequentialInv
<1>2. ASSUME k \in DOMAIN active
      PROVE  /\ k \in InFlight
             /\ active[k].instr.rs1 \in Registers \cup {None}
             /\ active[k].instr.rs2 \in Registers \cup {None}
             /\ AwaitsWriter(k, active[k].qj, active[k].instr.rs1)
             /\ AwaitsWriter(k, active[k].qk, active[k].instr.rs2)
             /\ Captured(k, active[k].qj, active[k].instr.rs1, active[k].vj)
             /\ Captured(k, active[k].qk, active[k].instr.rs2, active[k].vk)
  <2>1. k \in InFlight /\ active[k].instr \in WellFormedInstructions
      BY <1>1, <1>2, MemoryFacts, ActiveType DEF TypeInv
  <2>2. /\ AwaitsWriter(k, active[k].qj, active[k].instr.rs1)
        /\ AwaitsWriter(k, active[k].qk, active[k].instr.rs2)
      BY <1>1, <1>2 DEF QueueInv, ResultInv, OperandsAwaitWriters
  <2> QED
      BY <1>2, <2>1, <2>2 DEF SequentialInv, OperandsAreCurrent, WellFormedInstructions, Instructions
<1>3. ASSUME k \in DOMAIN active, active'[k].instr = active[k].instr,
             active'[k].qj = active[k].qj, active'[k].vj = active[k].vj,
             active'[k].qk = active[k].qk, active'[k].vk = active[k].vk
      PROVE  /\ Captured(k, active[k].qj, active[k].instr.rs1, active[k].vj)'
             /\ Captured(k, active[k].qk, active[k].instr.rs2, active[k].vk)'
  <2>1. \A tag, r, v : tag = active[k].qj /\ r = active[k].instr.rs1 /\ v = active[k].vj
                       => Captured(k, tag, r, v)'
      BY <1>1, <1>2, <1>3, OperandStays
  <2>2. \A tag, r, v : tag = active[k].qk /\ r = active[k].instr.rs2 /\ v = active[k].vk
                       => Captured(k, tag, r, v)'
      BY <1>1, <1>2, <1>3, OperandStays
  <2> QED
      BY <1>3, <2>1, <2>2
<1>4. CASE k \in DOMAIN active /\ active'[k] = active[k]
    BY <1>3, <1>4
<1>5. ASSUME NEW predictedTaken \in BOOLEAN, Issue(predictedTaken), k = nextId
      PROVE  /\ Captured(k, active[k].qj, active[k].instr.rs1, active[k].vj)'
             /\ Captured(k, active[k].qk, active[k].instr.rs2, active[k].vk)'
  <2>1. active'[k] = IssuedInstruction(NextInstruction, predictedTaken)
      BY <1>1, <1>5, IssuedFields
  <2>2. /\ active'[k].instr = NextInstruction
        /\ active'[k].qj = OperandTag(EntriesAllocated, NextInstruction.rs1)
        /\ active'[k].vj = OperandValue(EntriesAllocated, NextInstruction.rs1)
        /\ active'[k].qk = OperandTag(EntriesAllocated, NextInstruction.rs2)
        /\ active'[k].vk = OperandValue(EntriesAllocated, NextInstruction.rs2)
      BY <2>1 DEF IssuedInstruction
  <2>3. /\ NextInstruction.rs1 \in Registers \cup {None}
        /\ NextInstruction.rs2 \in Registers \cup {None}
    <3>1. program \in Seq(WellFormedInstructions) /\ pc \in 0 .. Len(program) - 1
        BY <1>1, <1>5 DEF TypeInv, TypeOK, Issue, Fetchable
    <3>2. NextInstruction \in WellFormedInstructions
        BY <3>1 DEF NextInstruction
    <3> QED
        BY <3>2 DEF WellFormedInstructions, Instructions
  <2>4. \A r \in Registers \cup {None} : \A tag, v :
           /\ tag = OperandTag(EntriesAllocated, r) /\ v = OperandValue(EntriesAllocated, r)
           => Captured(k, tag, r, v)'
      BY <1>1, <1>5, IssuedOperand
  <2>5. \A r, tag, v : r = NextInstruction.rs1 /\ tag = active'[k].qj /\ v = active'[k].vj
                       => Captured(k, tag, r, v)'
      BY <2>2, <2>3, <2>4
  <2>6. \A r, tag, v : r = NextInstruction.rs2 /\ tag = active'[k].qk /\ v = active'[k].vk
                       => Captured(k, tag, r, v)'
      BY <2>2, <2>3, <2>4
  <2> QED
      BY <2>2, <2>5, <2>6
<1>6. CASE k \in todo /\ VisitAnyTiming(k)
    BY <1>1, <1>3, <1>6, VisitedFields
<1>7. ASSUME NEW b \in DOMAIN cdbQueue, Broadcast(b), k \in DOMAIN active
      PROVE  /\ Captured(k, active[k].qj, active[k].instr.rs1, active[k].vj)'
             /\ Captured(k, active[k].qk, active[k].instr.rs2, active[k].vk)'
  <2>1. active'[k].instr = active[k].instr
      BY <1>1, <1>7, WokenFields
  <2>2. /\ IF active[k].qj = cdbQueue[b].robTag
           THEN active'[k].qj = None /\ active'[k].vj = cdbQueue[b].value
           ELSE active'[k].qj = active[k].qj /\ active'[k].vj = active[k].vj
        /\ IF active[k].qk = cdbQueue[b].robTag
           THEN active'[k].qk = None /\ active'[k].vk = cdbQueue[b].value
           ELSE active'[k].qk = active[k].qk /\ active'[k].vk = active[k].vk
      BY <1>1, <1>7, WokenFields
  <2>3. \A r, tag, v : r = active[k].instr.rs1 /\ tag = active'[k].qj /\ v = active'[k].vj
                       => Captured(k, tag, r, v)'
      BY <1>1, <1>2, <1>7, <2>2, OperandStays
  <2>4. \A r, tag, v : r = active[k].instr.rs2 /\ tag = active'[k].qk /\ v = active'[k].vk
                       => Captured(k, tag, r, v)'
      BY <1>1, <1>2, <1>7, <2>2, OperandStays
  <2> QED
      BY <2>1, <2>3, <2>4
<1> QED
    BY <1>1, <1>4, <1>5, <1>6, <1>7, ActiveSteps

-----------------------------------------------------------------------------
(* Results                                                                   *)

\* A finished instruction has the operands it sees.
LEMMA FinishedSeesOperands ==
    ASSUME SequentialInv, NEW k \in todo, Complete(k)
    PROVE  /\ k \in DOMAIN active /\ active[k].executing /\ k \in InFlight
           /\ active[k].instr = InstructionOf(k) /\ active[k].instr \in WellFormedInstructions
           /\ active[k].vj \in Val /\ active[k].vk \in Val /\ Address(k) \in Val
           /\ active[k].forwarded \in Val
           /\ SeesOperands(k, active[k].instr, active[k].vj, active[k].vk)
<1>1. MemoryInv /\ QueueInv /\ ResultInv /\ RobInv /\ TypeInv
    BY MemoryFacts DEF SequentialInv
<1>2. k \in DOMAIN active /\ active[k].remaining = 0 /\ k \in InFlight
    BY <1>1, MemoryFacts DEF Complete, ResultInv, FateInv, VisitsFinished, TypeInv, TypeOK
<1>3. active[k].executing
    BY <1>1, <1>2 DEF TypeInv, CountdownIsCaught
<1>4. active[k].qj = None /\ active[k].qk = None
    BY <1>1, <1>2, <1>3 DEF QueueInv, ExecutingHasOperands, OperandsReady
<1>5. SeesOperands(k, active[k].instr, active[k].vj, active[k].vk)
    BY <1>2, <1>4 DEF SequentialInv, OperandsAreCurrent, Captured, SeesOperands
<1>6. /\ active[k].instr \in WellFormedInstructions
      /\ active[k].vj \in Val /\ active[k].vk \in Val /\ Address(k) \in Val
      /\ active[k].forwarded \in Val
    BY <1>1, <1>2, ActiveType DEF TypeInv, ActiveRecords
<1>7. active[k].instr = InstructionOf(k)
    BY <1>1, <1>2 DEF ResultInv, InstructionsAreStatic
<1> QED
    BY <1>2, <1>3, <1>5, <1>6, <1>7

\* So its result is what it computes at its place in program order.
LEMMA CompletedComputes ==
    ASSUME SequentialInv, NEW k \in todo, CompleteRegister(k), NEW v \in Results(k)
    PROVE  Computes(k, InstructionOf(k), v)
<1> DEFINE i == active[k].instr
<1>1. /\ k \in DOMAIN active /\ active[k].executing /\ i = InstructionOf(k)
      /\ active[k].vj \in Val /\ active[k].vk \in Val /\ Address(k) \in Val
      /\ active[k].forwarded \in Val
      /\ SeesOperands(k, i, active[k].vj, active[k].vk)
    BY FinishedSeesOperands DEF CompleteRegister
<1>2. CASE i.op # "LD"
  <2>1. v = computeResult(i, active[k].vj, active[k].vk)
      BY <1>2 DEF Results
  <2> QED
      BY <1>1, <1>2, <2>1 DEF Computes
<1>3. CASE i.op = "LD"
  <2>1. IF active[k].hasForwarded
        THEN LoadSees(k, Address(k), active[k].forwarded)
        ELSE OlderStoresKnown(k) /\ StoresTo(k, Address(k)) = {}
      BY <1>1, <1>3 DEF SequentialInv, MemoryInv, LoadsAreSafe
  <2>2. IF active[k].hasForwarded THEN v = active[k].forwarded
                                  ELSE v \in loadValues(mem, Address(k))
      BY <1>3 DEF Results
  <2>3. LoadSees(k, Address(k), v)
      BY <2>1, <2>2 DEF LoadSees
  <2>4. LoadSees(k, effectiveAddress(i, active[k].vj), v)
      BY <2>3 DEF Address
  <2> QED
      BY <1>1, <1>3, <2>4 DEF Computes
<1> QED
    BY <1>2, <1>3

\* A message stays, or is the result of the instruction that completes.
LEMMA MessageSteps ==
    ASSUME TypeInv, [NextAnyTiming]_vars, NEW k \in DOMAIN cdbQueue'
    PROVE  \/ k \in DOMAIN cdbQueue /\ cdbQueue'[k] = cdbQueue[k]
           \/ k \in todo /\ CompleteRegister(k) /\ cdbQueue'[k].value \in Results(k)
<1>1. ASSUME UNCHANGED cdbQueue PROVE k \in DOMAIN cdbQueue /\ cdbQueue'[k] = cdbQueue[k]
    BY <1>1
<1>2. ASSUME NEW j \in todo, CompleteRegister(j)
      PROVE  \/ k \in DOMAIN cdbQueue /\ cdbQueue'[k] = cdbQueue[k]
             \/ k = j /\ cdbQueue'[k].value \in Results(k)
  <2>1. PICK v \in Results(j) :
            cdbQueue' = Extend(cdbQueue, j,
                [robTag |-> active[j].robTag, rd |-> active[j].instr.rd,
                 value |-> v, order |-> nextOrder])
      BY <1>2 DEF CompleteRegister
  <2> QED
      BY <2>1 DEF Extend
<1>3. ASSUME NEW b \in DOMAIN cdbQueue, Broadcast(b)
      PROVE  k \in DOMAIN cdbQueue /\ cdbQueue'[k] = cdbQueue[k]
    BY <1>3 DEF Broadcast, Remove, Restrict
<1>4. ASSUME NEW j \in todo, ResolveMispredicted(j)
      PROVE  k \in DOMAIN cdbQueue /\ cdbQueue'[k] = cdbQueue[k]
    BY <1>4 DEF ResolveMispredicted, UpTo, Restrict
<1>5. ASSUME NEW j \in todo, VisitAnyTiming(j) \/ CompleteStore(j) \/ ResolveCorrect(j)
      PROVE  UNCHANGED cdbQueue
  <2>1. CASE VisitAnyTiming(j)
      BY <2>1, VisitIsQuiet DEF QuietStep
  <2> QED
      BY <1>5, <2>1 DEF CompleteStore, ResolveCorrect, cdbVars
<1>6. ASSUME NEW predictedTaken \in BOOLEAN, Issue(predictedTaken) PROVE UNCHANGED cdbQueue
    BY <1>6 DEF Issue, cdbVars
<1>7. CASE Commit
    BY <1>1, <1>7 DEF Commit, CommitStage, cdbVars
<1>8. ASSUME \/ StallIssue \/ Finish \/ NoCommit \/ NoBroadcast \/ EndCycle \/ Done
             \/ UNCHANGED vars
      PROVE  UNCHANGED cdbQueue
    BY <1>8, IdleIsQuiet DEF QuietStep
<1> QED
    BY <1>1, <1>2, <1>3, <1>4, <1>5, <1>6, <1>7, <1>8 DEF NextAnyTiming

\* Results stay current on the bus and in the reorder buffer.
LEMMA ResultsStayCurrent ==
    ASSUME SequentialInv, [NextAnyTiming]_vars
    PROVE  ResultsAreCurrent'
<1>1. /\ MemoryInv /\ SparesR0 /\ QueueInv /\ ResultInv /\ RobInv /\ TypeInv
      /\ ResultInv' /\ RobInv'
    BY MemoryFacts, AnyTimingResults, AnyTimingWindow DEF SequentialInv
<1>2. /\ InFlight' = {robEntries'[t].id : t \in BusyTags'}
      /\ DOMAIN cdbQueue' \subseteq InFlight'
    BY <1>1, InFlightSteps DEF ResultInv, OwedOnce, Unfinished
<1>3. ASSUME NEW k \in DOMAIN cdbQueue' PROVE Computes(k, InstructionOf(k), cdbQueue[k].value)'
  <2>1. /\ k \in InFlight /\ k \in InFlight'
        /\ Computes(k, InstructionOf(k), cdbQueue'[k].value) /\ cdbQueue'[k].value \in Val
    <3>1. CASE k \in DOMAIN cdbQueue /\ cdbQueue'[k] = cdbQueue[k]
      <4>1. cdbQueue[k].value \in Val
          BY <1>1, <3>1 DEF TypeInv, TypeOK, Messages
      <4> QED
          BY <1>1, <1>2, <3>1, <4>1, MemoryFacts DEF SequentialInv, ResultsAreCurrent
    <3>2. CASE k \in todo /\ CompleteRegister(k) /\ cdbQueue'[k].value \in Results(k)
      <4>1. k \in InFlight /\ Computes(k, InstructionOf(k), cdbQueue'[k].value)
          BY <3>2, CompletedComputes, FinishedSeesOperands DEF CompleteRegister
      <4>2. cdbQueue'[k].value \in Val
        <5>1. TypeInv'
            BY <1>1, AnyTimingTypes
        <5> QED
            BY <5>1 DEF TypeInv, TypeOK, Messages
      <4> QED
          BY <1>2, <4>1, <4>2
    <3> QED
        BY <1>1, <3>1, <3>2, MessageSteps
  <2>2. InstructionOf(k) \in WellFormedInstructions /\ InstructionOf(k)' = InstructionOf(k)
      BY <1>1, <2>1, MemoryFacts, InstructionsStay
  <2>3. \A i, v : i = InstructionOf(k) /\ v = cdbQueue'[k].value => Computes(k, i, v)'
      BY <1>1, <2>1, <2>2, ComputedStays
  <2> QED
      BY <2>2, <2>3
<1> DEFINE Current(t) ==
        robEntries'[t].ready =>
          \A id, i, value, address, memoryValue :
            /\ id = robEntries'[t].id /\ i = Writer(t)' /\ value = robEntries'[t].value
            /\ address = robEntries'[t].address /\ memoryValue = robEntries'[t].memoryValue
            => /\ i.rd # None => Computes(id, i, value)'
               /\ i.op = "SD" => Stores(id, i, address, memoryValue)'
<1>4. ASSUME NEW t \in BusyTags', NEW id \in InFlight, id = robEntries'[t].id,
             NEW i \in WellFormedInstructions, i = Writer(t)',
             i.rd # None => Computes(id, i, robEntries'[t].value),
             i.op = "SD" => Stores(id, i, robEntries'[t].address, robEntries'[t].memoryValue)
      PROVE  Current(t)
  <2>1. id \in InFlight'
      BY <1>2, <1>4
  <2>2. /\ robEntries'[t].value \in Val /\ robEntries'[t].address \in Val
        /\ robEntries'[t].memoryValue \in Val
      BY <1>1 DEF RobInv, TypeInv, TypeOK, RobRecords, BusyTags
  <2> QED
      BY <1>1, <1>4, <2>1, <2>2, ComputedStays
<1>5. ASSUME NEW t \in BusyTags' PROVE Current(t)
  <2>1. CASE t \in BusyTags /\ robEntries'[t] = robEntries[t] /\ Writer(t)' = Writer(t)
    <3>1. robEntries[t].id \in InFlight /\ Writer(t) \in WellFormedInstructions
        BY <1>1, <2>1, MemoryFacts
    <3>2. robEntries[t].ready =>
            /\ Writer(t).rd # None => Computes(robEntries[t].id, Writer(t), robEntries[t].value)
            /\ Writer(t).op = "SD" =>
                 Stores(robEntries[t].id, Writer(t), robEntries[t].address,
                        robEntries[t].memoryValue)
        BY <2>1 DEF SequentialInv, ResultsAreCurrent
    <3> HIDE DEF Current
    <3>3. robEntries[t].ready => Current(t)
        BY <1>4, <2>1, <3>1, <3>2
    <3> QED
        BY <2>1, <3>3 DEF Current
  <2>2. ASSUME NEW predictedTaken \in BOOLEAN, Issue(predictedTaken), t = robTail
        PROVE  Current(t)
      BY <1>1, <2>2, IssueSlots
  <2>3. ASSUME NEW b \in DOMAIN cdbQueue, Broadcast(b), t = cdbQueue[b].robTag
        PROVE  Current(t)
    <3>1. /\ robEntries'[t].id = b /\ robEntries'[t].value = cdbQueue[b].value
          /\ Writer(t)' = Writer(t) /\ Writer(t) = InstructionOf(b) /\ Writer(t).rd # None
      <4>1. /\ t \in BusyTags /\ robEntries[t].id = b /\ robEntries'[t].id = b
            /\ Writer(t).rd # None /\ Writer(t)' = Writer(t)
            /\ robEntries'[t].value = cdbQueue[b].value
          BY <1>1, <2>3, BroadcastFields
      <4> QED
          BY <4>1 DEF Writer
    <3>2. b \in InFlight /\ InstructionOf(b) \in WellFormedInstructions
        BY <1>1, MemoryFacts
    <3>3. InstructionOf(b).op # "SD"
        BY <3>1, <3>2 DEF WellFormedInstructions, WellFormed
    <3>4. Computes(b, InstructionOf(b), cdbQueue[b].value)
        BY DEF SequentialInv, ResultsAreCurrent
    <3> HIDE DEF Current
    <3> QED
        BY <1>4, <3>1, <3>2, <3>3, <3>4
  <2>4. ASSUME NEW k \in todo, t = active[k].robTag,
               CompleteStore(k) \/ ResolveCorrect(k) \/ ResolveMispredicted(k)
        PROVE  Current(t)
    <3>1. /\ t \in BusyTags /\ robEntries'[t].id = k
          /\ Writer(t)' = Writer(t) /\ Writer(t) = active[k].instr /\ Writer(t).rd = None
          /\ active[k].instr.op = "SD" =>
               /\ robEntries'[t].address = Address(k) /\ robEntries'[t].memoryValue = active[k].vk
        BY <1>1, <2>4, FinishFields
    <3>2. /\ k \in InFlight /\ active[k].instr \in WellFormedInstructions
          /\ active[k].vj \in Val /\ active[k].vk \in Val
          /\ SeesOperands(k, active[k].instr, active[k].vj, active[k].vk)
        BY <2>4, FinishedSeesOperands DEF CompleteStore, ResolveCorrect, ResolveMispredicted
    <3>3. Stores(k, active[k].instr, Address(k), active[k].vk)
        BY <3>2 DEF Stores, Address
    <3> HIDE DEF Current
    <3> QED
        BY <1>4, <3>1, <3>2, <3>3
  <2> HIDE DEF Current
  <2> QED
      BY <1>1, <2>1, <2>2, <2>3, <2>4, EntrySteps
<1>6. ASSUME NEW t \in BusyTags', robEntries'[t].ready
      PROVE  /\ Writer(t)'.rd # None =>
                  Computes(robEntries[t].id, Writer(t), robEntries[t].value)'
             /\ Writer(t)'.op = "SD" =>
                  Stores(robEntries[t].id, Writer(t), robEntries[t].address,
                         robEntries[t].memoryValue)'
    BY <1>5, <1>6
<1> QED
    BY <1>3, <1>6 DEF ResultsAreCurrent

-----------------------------------------------------------------------------
(* The path                                                                  *)

\* An instruction leaves the active list when it completes or is flushed.
LEMMA LeavesActive ==
    ASSUME TypeInv, [NextAnyTiming]_vars, NEW k \in DOMAIN active, k \notin DOMAIN active'
    PROVE  \/ k \in todo /\ (CompleteRegister(k) \/ CompleteStore(k) \/ ResolveCorrect(k))
           \/ \E b \in todo : ResolveMispredicted(b) /\ (k = b \/ ~(k <= b))
<1>1. ASSUME DOMAIN active \subseteq DOMAIN active' PROVE FALSE
    BY <1>1
<1>2. ASSUME NEW b \in todo, CompleteRegister(b) \/ CompleteStore(b) \/ ResolveCorrect(b)
      PROVE  k = b
    BY <1>2 DEF CompleteRegister, CompleteStore, ResolveCorrect, Retire, Remove, Restrict
<1>3. ASSUME NEW b \in todo, ResolveMispredicted(b) PROVE k = b \/ ~(k <= b)
  <2>1. active' = Remove(UpTo(active, b), b)
      BY <1>3 DEF ResolveMispredicted
  <2> QED
      BY <2>1 DEF Remove, UpTo, Restrict
<1>4. ASSUME NEW j \in todo, VisitAnyTiming(j) PROVE FALSE
    BY <1>1, <1>4, VisitedFields
<1>5. ASSUME NEW b \in DOMAIN cdbQueue, Broadcast(b) PROVE FALSE
    BY <1>1, <1>5, WokenFields
<1>6. ASSUME NEW predictedTaken \in BOOLEAN, Issue(predictedTaken) PROVE FALSE
    BY <1>1, <1>6 DEF Issue, Extend
<1>7. CASE Commit
    BY <1>1, <1>7 DEF Commit, CommitStage
<1>8. ASSUME \/ StallIssue \/ Finish \/ NoCommit \/ NoBroadcast \/ EndCycle \/ Done
             \/ UNCHANGED vars
      PROVE  FALSE
    BY <1>1, <1>8, IdleIsQuiet DEF QuietStep
<1> QED
    BY <1>2, <1>3, <1>4, <1>5, <1>6, <1>7, <1>8 DEF NextAnyTiming

\* An instruction in flight stays active, stays resolved, or resolves as predicted,
\* unless it is the mispredicted branch itself.
LEMMA GoesToStays ==
    ASSUME SequentialInv, [NextAnyTiming]_vars, NEW j \in InFlight, j \in InFlight',
           ~ (j \in todo /\ ResolveMispredicted(j)), NEW p, GoesTo(j, p)
    PROVE  GoesTo(j, p)'
<1>1. /\ MemoryInv /\ SparesR0 /\ TypeInv /\ RobInv /\ RobInv' /\ ResultInv
      /\ j \in Ids /\ j \in Nat /\ nextId \notin InFlight
      /\ InstructionOf(j) \in WellFormedInstructions
    BY MemoryFacts, AnyTimingWindow DEF SequentialInv
<1>2. /\ InstructionOf(j)' = InstructionOf(j)
      /\ statusTable'[j].staticPc = statusTable[j].staticPc
    BY <1>1, InstructionsStay, StaticPcsStay
<1>3. \A i, taken : i = InstructionOf(j) /\ Branches(j, i, taken) => Branches(j, i, taken)'
    BY <1>1, ComputedStays
<1>4. PICK taken \in BOOLEAN :
        /\ p = IF taken THEN InstructionOf(j).target ELSE statusTable[j].staticPc + 1
        /\ IF ~IsBranch(InstructionOf(j)) THEN ~taken
           ELSE IF j \in DOMAIN active THEN taken <=> active[j].predictedTaken
           ELSE Branches(j, InstructionOf(j), taken)
    BY DEF GoesTo
<1>5. CASE ~IsBranch(InstructionOf(j))
    BY <1>2, <1>4, <1>5 DEF GoesTo
<1>6. CASE IsBranch(InstructionOf(j)) /\ j \notin DOMAIN active
  <2>1. j \notin DOMAIN active'
      BY <1>1, <1>6, ActiveSteps DEF TypeInv, TypeOK
  <2>2. Branches(j, InstructionOf(j), taken)'
      BY <1>2, <1>3, <1>4, <1>6
  <2> QED
      BY <1>2, <1>4, <1>6, <2>1, <2>2 DEF GoesTo
<1>7. CASE IsBranch(InstructionOf(j)) /\ j \in DOMAIN active /\ j \in DOMAIN active'
  <2>1. active'[j].predictedTaken = active[j].predictedTaken
    <3>1. CASE active'[j] = active[j]
        BY <3>1
    <3>2. CASE j \in todo /\ VisitAnyTiming(j)
        BY <1>1, <3>2, VisitedFields
    <3>3. ASSUME NEW b \in DOMAIN cdbQueue, Broadcast(b)
          PROVE  active'[j].predictedTaken = active[j].predictedTaken
        BY <1>1, <1>7, <3>3, WokenFields
    <3> QED
        BY <1>1, <1>7, <3>1, <3>2, <3>3, ActiveSteps
  <2> QED
      BY <1>2, <1>4, <1>7, <2>1 DEF GoesTo
<1>8. CASE IsBranch(InstructionOf(j)) /\ j \in DOMAIN active /\ j \notin DOMAIN active'
  <2>1. j \in todo /\ ResolveCorrect(j)
    <3>1. ASSUME NEW b \in todo, ResolveMispredicted(b) PROVE j = b \/ j <= b
        BY <1>1, <3>1, ResolveMispredictedInFlight
    <3>2. ~(j \in todo /\ (CompleteRegister(j) \/ CompleteStore(j)))
      <4>1. active[j].instr = InstructionOf(j)
          BY <1>1, <1>8 DEF ResultInv, InstructionsAreStatic
      <4> QED
          BY <1>1, <1>8, <4>1 DEF CompleteRegister, CompleteStore, writesRegister, IsBranch,
             BranchOps, WellFormedInstructions, WellFormed
    <3> QED
        BY <1>1, <1>8, <3>1, <3>2, LeavesActive
  <2>2. /\ active[j].instr = InstructionOf(j)
        /\ active[j].vj \in Val /\ active[j].vk \in Val
        /\ SeesOperands(j, active[j].instr, active[j].vj, active[j].vk)
      BY <2>1, FinishedSeesOperands DEF ResolveCorrect
  <2>3. taken = branchTaken(active[j].instr, active[j].vj, active[j].vk)
    <3>1. taken <=> active[j].predictedTaken
        BY <1>4, <1>8
    <3>2. /\ ActualTaken(j) = active[j].predictedTaken
          /\ active[j].predictedTaken \in BOOLEAN
        BY <1>1, <1>8, <2>1, ActiveType DEF ResolveCorrect, TypeInv, ActiveRecords
    <3>3. taken = active[j].predictedTaken
        BY <3>1, <3>2
    <3> QED
        BY <3>2, <3>3 DEF ActualTaken
  <2>4. Branches(j, InstructionOf(j), taken)
      BY <2>2, <2>3 DEF Branches
  <2>5. Branches(j, InstructionOf(j), taken)'
      BY <1>2, <1>3, <2>4
  <2> QED
      BY <1>2, <1>4, <1>8, <2>5 DEF GoesTo
<1> QED
    BY <1>5, <1>6, <1>7, <1>8

\* The issued instruction is where the path of the last one goes.
LEMMA IssuedPath ==
    ASSUME SequentialInv, NEW predictedTaken \in BOOLEAN, Issue(predictedTaken)
    PROVE  PathIsFollowed'
<1>1. /\ MemoryInv /\ TypeInv /\ RobInv /\ RobInv' /\ ResultInv /\ QueueInv
      /\ [NextAnyTiming]_vars
      /\ InFlight \subseteq Ids /\ Ids \subseteq Nat /\ nextId \in Nat /\ nextId \notin InFlight
  <2>1. [NextAnyTiming]_vars
      BY DEF NextAnyTiming
  <2> QED
      BY <2>1, MemoryFacts, AnyTimingWindow DEF SequentialInv
<1>2. InFlight' = InFlight \cup {nextId} /\ \A j \in InFlight : j < nextId
    BY <1>1, IssueInFlight DEF Ids
<1>3. /\ \A j \in InFlight : statusTable'[j].staticPc = statusTable[j].staticPc
      /\ statusTable'[nextId].staticPc = pc
  <2>1. statusTable' = Extend(statusTable, nextId, NewStatus)
      BY DEF Issue
  <2> QED
      BY <1>1, <2>1, StaticPcsStay DEF Extend, NewStatus
<1>4. \A j \in InFlight : ~(j \in todo /\ ResolveMispredicted(j))
    BY DEF Issue, StartCycle, ResolveMispredicted, Complete
<1>5. \A j \in InFlight : \A p : GoesTo(j, p) => GoesTo(j, p)'
    BY <1>1, <1>2, <1>4, GoesToStays
<1>6. \A j, p : j = nextId /\ p = pc' => GoesTo(j, p)'
  <2> SUFFICES ASSUME NEW j, NEW p, j = nextId, p = pc' PROVE GoesTo(j, p)'
      OBVIOUS
  <2>1. InstructionOf(j)' = NextInstruction
      BY <1>1, IssueSlots
  <2>2. j \in DOMAIN active' /\ active'[j].predictedTaken = predictedTaken
    <3>1. /\ DOMAIN active' = DOMAIN active \cup {nextId}
          /\ active'[nextId] = IssuedInstruction(NextInstruction, predictedTaken)
        BY <1>1, IssuedFields
    <3>2. IssuedInstruction(NextInstruction, predictedTaken).predictedTaken = predictedTaken
        BY DEF IssuedInstruction
    <3> QED
        BY <3>1, <3>2
  <2>3. /\ pc' = IF predictedTaken THEN NextInstruction.target ELSE pc + 1
        /\ predictedTaken => IsBranch(NextInstruction)
      BY DEF Issue
  <2> QED
      BY <1>3, <2>1, <2>2, <2>3 DEF GoesTo
<1>7. ASSUME NEW j \in InFlight', NEW k \in InFlight', Follows(k, j, InFlight')
      PROVE  \A p : p = statusTable'[k].staticPc => GoesTo(j, p)'
  <2>1. j \in InFlight
      BY <1>1, <1>2, <1>7 DEF Follows
  <2>2. CASE k \in InFlight
    <3>1. Follows(k, j, InFlight)
        BY <1>2, <1>7, <2>2 DEF Follows
    <3>2. GoesTo(j, statusTable[k].staticPc)
        BY <2>1, <2>2, <3>1 DEF SequentialInv, PathIsFollowed
    <3> QED
        BY <1>3, <1>5, <2>1, <2>2, <3>2
  <2>3. CASE k = nextId
    <3>1. IsLast(j, InFlight)
        BY <1>1, <1>2, <1>7, <2>3 DEF Follows, IsLast
    <3>2. GoesTo(j, pc)
        BY <2>1, <3>1 DEF SequentialInv, PathIsFollowed
    <3> QED
        BY <1>3, <1>5, <2>1, <2>3, <3>2
  <2> QED
      BY <1>2, <2>2, <2>3
<1>8. ASSUME NEW j \in InFlight', IsLast(j, InFlight')
      PROVE  \A p : p = pc' => GoesTo(j, p)'
    BY <1>1, <1>2, <1>6, <1>8 DEF IsLast
<1> QED
    BY <1>7, <1>8 DEF PathIsFollowed

\* After a flush the path goes on from the branch, where it resolved.
LEMMA FlushedPath ==
    ASSUME SequentialInv, NEW b \in todo, ResolveMispredicted(b)
    PROVE  PathIsFollowed'
<1>1. /\ MemoryInv /\ SparesR0 /\ TypeInv /\ RobInv /\ RobInv' /\ ResultInv
      /\ [NextAnyTiming]_vars /\ \A i \in InFlight : i \in Ids /\ i \in Nat
  <2>1. [NextAnyTiming]_vars
      BY DEF NextAnyTiming
  <2> QED
      BY <2>1, MemoryFacts, AnyTimingWindow DEF SequentialInv
<1>2. /\ b \in DOMAIN active /\ b \in InFlight /\ b \in Ids /\ b \in Nat
      /\ active[b].instr = InstructionOf(b) /\ active[b].instr \in WellFormedInstructions
      /\ active[b].vj \in Val /\ active[b].vk \in Val
      /\ SeesOperands(b, active[b].instr, active[b].vj, active[b].vk)
    BY <1>1, FinishedSeesOperands DEF ResolveMispredicted
<1>3. InFlight' = {i \in InFlight : i <= b}
    BY <1>1, ResolveMispredictedInFlight
<1>4. /\ \A j \in Ids : statusTable'[j].staticPc = statusTable[j].staticPc
      /\ \A j \in Ids : InstructionOf(j)' = InstructionOf(j)
    BY <1>1, StaticPcsStay, InstructionsStay
<1>5. \A j, p : j = b /\ p = pc' => GoesTo(j, p)'
  <2> SUFFICES ASSUME NEW j, j = b, NEW p, p = pc' PROVE GoesTo(j, p)'
      OBVIOUS
  <2>1. PICK taken \in BOOLEAN : taken = ActualTaken(b)
      BY DEF ActualTaken, branchTaken
  <2>2. p = IF taken THEN InstructionOf(j).target ELSE statusTable[j].staticPc + 1
      BY <1>2, <2>1 DEF ResolveMispredicted, RedirectedPc
  <2>3. j \notin DOMAIN active'
      BY DEF ResolveMispredicted, Remove, UpTo, Restrict
  <2>4. Branches(j, InstructionOf(j), taken)
      BY <1>2, <2>1 DEF Branches, ActualTaken
  <2>5. \A i : i = InstructionOf(j) => Branches(j, i, taken)'
      BY <1>1, <1>2, <1>3, <2>4, ComputedStays
  <2>6. Branches(j, InstructionOf(j), taken)'
      BY <1>2, <1>4, <2>5
  <2>7. IsBranch(InstructionOf(j))
      BY <1>2 DEF ResolveMispredicted
  <2> QED
      BY <1>2, <1>4, <2>2, <2>3, <2>6, <2>7 DEF GoesTo
<1>6. \A j \in InFlight : \A p : j \in InFlight' /\ j # b /\ GoesTo(j, p) => GoesTo(j, p)'
  <2> SUFFICES ASSUME NEW j \in InFlight, j \in InFlight', j # b, NEW p, GoesTo(j, p)
               PROVE  GoesTo(j, p)'
      OBVIOUS
  <2>1. ~(j \in todo /\ ResolveMispredicted(j))
    <3> SUFFICES ASSUME j \in todo, ResolveMispredicted(j) PROVE FALSE
        OBVIOUS
    <3>1. InFlight' = {i \in InFlight : i <= j}
        BY <1>1, ResolveMispredictedInFlight
    <3>2. j <= b /\ b <= j
        BY <1>1, <1>2, <1>3, <3>1
    <3> QED
        BY <1>1, <1>2, <3>2
  <2> QED
      BY <1>1, <2>1, GoesToStays
<1>7. ASSUME NEW j \in InFlight', NEW k \in InFlight', Follows(k, j, InFlight')
      PROVE  \A p : p = statusTable'[k].staticPc => GoesTo(j, p)'
  <2>1. j \in InFlight /\ k \in InFlight /\ j # b
      BY <1>1, <1>2, <1>3, <1>7 DEF Follows
  <2>2. Follows(k, j, InFlight)
      BY <1>1, <1>2, <1>3, <1>7, <2>1 DEF Follows
  <2>3. GoesTo(j, statusTable[k].staticPc)
      BY <2>1, <2>2 DEF SequentialInv, PathIsFollowed
  <2> QED
      BY <1>1, <1>4, <1>6, <1>7, <2>1, <2>3
<1>8. ASSUME NEW j \in InFlight', IsLast(j, InFlight')
      PROVE  \A p : p = pc' => GoesTo(j, p)'
  <2>1. j = b
      BY <1>1, <1>2, <1>3, <1>8 DEF IsLast
  <2> QED
      BY <1>5, <2>1
<1> QED
    BY <1>7, <1>8 DEF PathIsFollowed

\* Only issue and recovery move the fetch pc.
LEMMA PcStays ==
    ASSUME [NextAnyTiming]_vars, ~MovesSlots
    PROVE  pc' = pc
<1>1. ASSUME NEW k \in todo, VisitAnyTiming(k) PROVE pc' = pc
    BY <1>1 DEF VisitAnyTiming, Progress, Hold, StartWith, Visit, fetchVars
<1>2. ASSUME NEW k \in todo, CompleteRegister(k) \/ CompleteStore(k) \/ ResolveCorrect(k)
      PROVE pc' = pc
    BY <1>2 DEF CompleteRegister, CompleteStore, ResolveCorrect, Retire
<1>3. ASSUME NEW b \in DOMAIN cdbQueue, Broadcast(b) PROVE pc' = pc
    BY <1>3 DEF Broadcast, BroadcastStage, fetchVars
<1>4. ASSUME \/ StallIssue \/ Finish \/ NoCommit \/ NoBroadcast \/ EndCycle \/ Done
             \/ UNCHANGED vars
      PROVE  pc' = pc
    BY <1>4 DEF StallIssue, Finish, NoCommit, CommitStage, NoBroadcast, BroadcastStage,
       EndCycle, Done, vars, fetchVars
<1> QED
    BY <1>1, <1>2, <1>3, <1>4 DEF NextAnyTiming, MovesSlots

\* The instructions in flight follow one another as predicted or resolved.
LEMMA PathStaysFollowed ==
    ASSUME SequentialInv, [NextAnyTiming]_vars
    PROVE  PathIsFollowed'
<1>1. /\ MemoryInv /\ TypeInv /\ RobInv /\ RobInv' /\ ResultInv
      /\ InFlight \subseteq Ids /\ Ids \subseteq Nat
    BY MemoryFacts, AnyTimingWindow DEF SequentialInv
<1>2. ASSUME NEW predictedTaken \in BOOLEAN, Issue(predictedTaken) PROVE PathIsFollowed'
    BY <1>2, IssuedPath
<1>3. ASSUME NEW b \in todo, ResolveMispredicted(b) PROVE PathIsFollowed'
    BY <1>3, FlushedPath
<1>4. CASE Commit \/ ~MovesSlots
  <2>1. pc' = pc /\ \A b \in todo : ~ResolveMispredicted(b)
    <3>1. CASE Commit
        BY <3>1 DEF Commit, CommitStage, ResolveMispredicted, Complete, fetchVars
    <3>2. CASE ~MovesSlots
        BY <3>2, PcStays DEF MovesSlots
    <3> QED
        BY <1>4, <3>1, <3>2
  <2>2. InFlight' \subseteq InFlight
    <3>1. CASE Commit
        BY <1>1, <3>1, CommitInFlight
    <3> QED
        BY <1>1, <1>4, <3>1, InFlightSteps
  <2>3. \A i \in InFlight, j \in InFlight' : i \in InFlight' \/ i <= j
    <3>1. CASE Commit
        BY <1>1, <3>1, CommitInFlight
    <3> QED
        BY <1>1, <1>4, <3>1, InFlightSteps
  <2>4. \A j \in InFlight' : \A p : GoesTo(j, p) => GoesTo(j, p)'
      BY <2>1, <2>2, GoesToStays
  <2>5. ASSUME NEW j \in InFlight', NEW k \in InFlight', Follows(k, j, InFlight')
        PROVE  \A p : p = statusTable'[k].staticPc => GoesTo(j, p)'
    <3>1. Follows(k, j, InFlight)
        BY <2>2, <2>3, <2>5 DEF Follows
    <3>2. GoesTo(j, statusTable[k].staticPc)
        BY <2>2, <2>5, <3>1 DEF SequentialInv, PathIsFollowed
    <3>3. statusTable'[k].staticPc = statusTable[k].staticPc
        BY <1>1, <2>2, StaticPcsStay
    <3> QED
        BY <2>4, <3>2, <3>3
  <2>6. ASSUME NEW j \in InFlight', IsLast(j, InFlight')
        PROVE  \A p : p = pc' => GoesTo(j, p)'
    <3>1. IsLast(j, InFlight)
        BY <2>2, <2>3, <2>6 DEF IsLast
    <3>2. GoesTo(j, pc)
        BY <2>2, <2>6, <3>1 DEF SequentialInv, PathIsFollowed
    <3> QED
        BY <2>1, <2>4, <3>2
  <2> QED
      BY <2>5, <2>6 DEF PathIsFollowed
<1> QED
    BY <1>2, <1>3, <1>4 DEF MovesSlots

\* The invariant holds as long as a register without a rename has no writer in
\* flight.
LEMMA AnyTimingSequential ==
    SequentialInv /\ NoProducerMeansLatest /\ [NextAnyTiming]_vars => SequentialInv'
<1> SUFFICES ASSUME SequentialInv, NoProducerMeansLatest, [NextAnyTiming]_vars
             PROVE  SequentialInv'
    OBVIOUS
<1>1. MemoryInv /\ SparesR0 /\ TypeInv
    BY MemoryFacts DEF SequentialInv
<1>2. MemoryInv'
    BY <1>1, AnyTimingMemory
<1>3. SparesR0'
    BY <1>1, StaticPcsStay DEF SparesR0
<1> QED
    BY <1>2, <1>3, OperandsStayCurrent, ResultsStayCurrent, PathStaysFollowed
    DEF SequentialInv

LEMMA InitSequential ==
    ASSUME Init, SparesR0
    PROVE  SequentialInv
<1>1. MemoryInv
    BY InitMemory
<1>2. DOMAIN active = {} /\ DOMAIN cdbQueue = {} /\ BusyTags = {}
    BY DEF Init, EmptyFunction, BusyTags, EmptyEntry
<1>3. InFlight = {}
    BY <1>1, <1>2, MemoryFacts
<1> QED
    BY <1>1, <1>2, <1>3 DEF SequentialInv, OperandsAreCurrent, ResultsAreCurrent,
       PathIsFollowed

-----------------------------------------------------------------------------
(* The head of the reorder buffer                                            *)

\* The head is the oldest instruction in flight.
HeadIsOldest ==
    ~RobEmpty => /\ robHead \in BusyTags /\ robEntries[robHead].id \in InFlight
                 /\ \A i \in InFlight : robEntries[robHead].id <= i

LEMMA OldestAtHead == RobInv => HeadIsOldest
<1> SUFFICES ASSUME RobInv, ~RobEmpty
             PROVE  /\ robHead \in BusyTags /\ robEntries[robHead].id \in InFlight
                    /\ \A i \in InFlight : robEntries[robHead].id <= i
    BY DEF HeadIsOldest
<1>1. robHead \in Tags /\ robCount \in 0 .. RobCapacity /\ robCount # 0
    BY DEF RobInv, TypeInv, TypeOK, RobEmpty
<1>2. 0 \in 0 .. robCount - 1 /\ (robHead + 0) % RobCapacity = robHead
    BY <1>1, HeadSlot, RobCapacityAssumption
<1>3. robHead \in RobSlots
    BY <1>2 DEF RobSlots
<1>4. robHead \in BusyTags
    BY <1>1, <1>3 DEF RobInv, RobIsWindow, BusyTags
<1> QED
    BY <1>4, InFlightByTag, SlotsHoldDifferentIds DEF InFlightHoldBusyTags

LEMMA OldestAtHeadNext == RobInv' => HeadIsOldest'
    BY OldestAtHead, PTL

\* Nothing is in flight when the buffer is empty.
EmptyHoldsNothing == RobEmpty => InFlight = {}

LEMMA EmptyRob == RobInv => EmptyHoldsNothing
<1> SUFFICES ASSUME RobEmpty PROVE InFlight = {}
    BY DEF EmptyHoldsNothing
<1>1. Window = {}
    BY DEF RobEmpty, Window
<1> QED
    BY <1>1 DEF InFlight

LEMMA EmptyRobNext == RobInv' => EmptyHoldsNothing'
    BY EmptyRob, PTL

\* With nothing older in flight, an instruction sees the architectural state.
LEMMA HeadSees ==
    ASSUME SequentialInv, Commit
    PROVE  LET id == robEntries[robHead].id IN
           /\ \A r, v : Sees(id, r, v) => v = IF r = None THEN 0 ELSE rf[r]
           /\ \A a, v : LoadSees(id, a, v) => v \in loadValues(mem, a)
           /\ id \notin DOMAIN active
<1> DEFINE id == robEntries[robHead].id
<1>1. /\ MemoryInv /\ QueueInv /\ ResultInv /\ RobInv /\ InFlight \subseteq Ids /\ Ids \subseteq Nat
      /\ robHead \in BusyTags /\ robEntries[robHead].ready
    BY MemoryFacts, CommitSlots DEF SequentialInv
<1>2. \A i \in InFlight : id <= i /\ i \in Nat
    BY <1>1, SlotsHoldDifferentIds
<1>3. \A t \in BusyTags : robEntries[t].id \in InFlight
    BY <1>1, MemoryFacts
<1>4. id \in Nat
    BY <1>1, <1>2, <1>3
<1>5. OlderSlots(id) = {}
    BY <1>2, <1>3, <1>4 DEF OlderSlots
<1>6. OlderStores(id) = {}
    BY <1>1, <1>2, <1>4, ActiveInFlight DEF OlderStores
<1>7. id \notin DOMAIN active
  <2> SUFFICES ASSUME NEW k \in DOMAIN active, k = id PROVE FALSE
      OBVIOUS
  <2>1. Unfinished(active[k].robTag) /\ robEntries[active[k].robTag].id = k
      BY <1>1 DEF ResultInv, OwedOnce
  <2>2. active[k].robTag = robHead
      BY <1>1, <2>1, SlotOwners DEF Unfinished
  <2> QED
      BY <1>1, <2>1, <2>2 DEF Unfinished
<1>8. \A r, v : Sees(id, r, v) => v = IF r = None THEN 0 ELSE rf[r]
    BY <1>5 DEF Sees, OlderWriters, IsYoungest
<1>9. \A a, v : LoadSees(id, a, v) => v \in loadValues(mem, a)
    BY <1>6 DEF LoadSees, StoresTo
<1> QED
    BY <1>7, <1>8, <1>9

\* So the head's entry holds what the sequential machine computes next.
LEMMA HeadComputes ==
    ASSUME SequentialInv, Commit
    PROVE  LET e == robEntries[robHead]
               i == Writer(robHead)
               vj == rf[i.rs1]
               vk == IF i.rs2 = None THEN 0 ELSE rf[i.rs2] IN
           /\ i.rd # None /\ i.op # "LD" => e.value = computeResult(i, vj, vk)
           /\ i.op = "LD" => e.value \in loadValues(mem, effectiveAddress(i, vj))
           /\ i.op = "SD" => e.address = effectiveAddress(i, vj) /\ e.memoryValue = vk
           /\ \A taken : IsBranch(i) /\ Branches(e.id, i, taken) => taken = branchTaken(i, vj, vk)
<1> DEFINE e == robEntries[robHead]
           i == Writer(robHead)
           reg(r) == IF r = None THEN 0 ELSE rf[r]
<1>1. /\ MemoryInv /\ robHead \in BusyTags /\ e.ready /\ i \in WellFormedInstructions
    BY MemoryFacts, CommitSlots DEF SequentialInv
<1>2. i.rs1 # None
    BY <1>1 DEF WellFormedInstructions, Instructions, Registers, None
<1>3. \A vj, vk : SeesOperands(e.id, i, vj, vk) => vj = rf[i.rs1] /\ vk = reg(i.rs2)
    BY <1>2, HeadSees DEF SeesOperands
<1>4. /\ i.rd # None => Computes(e.id, i, e.value)
      /\ i.op = "SD" => Stores(e.id, i, e.address, e.memoryValue)
    BY <1>1 DEF SequentialInv, ResultsAreCurrent
<1>5. i.op = "LD" => i.rd # None
    BY <1>1 DEF WellFormedInstructions, WellFormed, BranchOps
<1>6. i.rd # None /\ i.op # "LD" => e.value = computeResult(i, rf[i.rs1], reg(i.rs2))
    BY <1>3, <1>4 DEF Computes
<1>7. i.op = "LD" => e.value \in loadValues(mem, effectiveAddress(i, rf[i.rs1]))
  <2> SUFFICES ASSUME i.op = "LD" PROVE e.value \in loadValues(mem, effectiveAddress(i, rf[i.rs1]))
      OBVIOUS
  <2>1. PICK vj \in Val, vk \in Val :
            /\ SeesOperands(e.id, i, vj, vk)
            /\ LoadSees(e.id, effectiveAddress(i, vj), e.value)
      BY <1>4, <1>5 DEF Computes
  <2> QED
      BY <1>3, <2>1, HeadSees
<1>8. i.op = "SD" => e.address = effectiveAddress(i, rf[i.rs1]) /\ e.memoryValue = reg(i.rs2)
    BY <1>3, <1>4 DEF Stores
<1>9. \A taken : Branches(e.id, i, taken) => taken = branchTaken(i, rf[i.rs1], reg(i.rs2))
    BY <1>3 DEF Branches
<1> QED
    BY <1>6, <1>7, <1>8, <1>9

-----------------------------------------------------------------------------
(* The refinement                                                            *)

\* The commit point of the abstract machine stays where it is until a commit.
LEMMA CommitPcStays ==
    ASSUME SequentialInv, [NextAnyTiming]_vars, ~Commit
    PROVE  CommitPc' = CommitPc
<1>1. /\ MemoryInv /\ TypeInv /\ ResultInv /\ RobInv /\ RobInv' /\ QueueInv
      /\ HeadIsOldest /\ HeadIsOldest' /\ EmptyHoldsNothing /\ EmptyHoldsNothing'
      /\ InFlight \subseteq Ids /\ Ids \subseteq Nat /\ nextId \in Nat /\ nextId \notin InFlight
    BY MemoryFacts, AnyTimingWindow, OldestAtHead, OldestAtHeadNext, EmptyRob, EmptyRobNext
    DEF SequentialInv
<1>2. \A id \in Ids : statusTable'[id].staticPc = statusTable[id].staticPc
    BY <1>1, StaticPcsStay
<1>3. robHead' = robHead
  <2>1. ASSUME NEW k \in todo, VisitAnyTiming(k) PROVE robHead' = robHead
      BY <1>1, <2>1, OthersSameWindow DEF SameWindow
  <2>2. ASSUME NEW k \in todo, CompleteRegister(k) \/ CompleteStore(k) \/ ResolveCorrect(k)
                               \/ ResolveMispredicted(k)
        PROVE  robHead' = robHead
      BY <2>2 DEF CompleteRegister, CompleteStore, ResolveCorrect, ResolveMispredicted, Complete
  <2>3. ASSUME NEW b \in DOMAIN cdbQueue, Broadcast(b) PROVE robHead' = robHead
      BY <2>3 DEF Broadcast, BroadcastStage
  <2>4. ASSUME NEW predictedTaken \in BOOLEAN, Issue(predictedTaken) PROVE robHead' = robHead
      BY <2>4 DEF Issue
  <2>5. ASSUME \/ StallIssue \/ Finish \/ NoCommit \/ NoBroadcast \/ EndCycle \/ Done
               \/ UNCHANGED vars
        PROVE  robHead' = robHead
      BY <1>1, <2>5, OthersSameWindow DEF SameWindow
  <2> QED
      BY <2>1, <2>2, <2>3, <2>4, <2>5 DEF NextAnyTiming
<1>4. CASE ~RobEmpty
  <2>1. robHead \in BusyTags /\ robEntries[robHead].id \in InFlight
      BY <1>1, <1>4 DEF HeadIsOldest
  <2>2. InFlight' # {} /\ robHead \in BusyTags'
    <3>1. ASSUME NEW predictedTaken \in BOOLEAN, Issue(predictedTaken)
          PROVE  InFlight' # {} /\ robHead \in BusyTags'
        BY <1>1, <2>1, <3>1, IssueSlots, IssueInFlight
    <3>2. ASSUME NEW b \in todo, ResolveMispredicted(b)
          PROVE  InFlight' # {} /\ robHead \in BusyTags'
      <4>1. b \in InFlight
          BY <1>1, <3>2, FinishedSeesOperands DEF ResolveMispredicted
      <4>2. robEntries[robHead].id <= b
          BY <1>1, <1>4, <4>1 DEF HeadIsOldest
      <4>3. robEntries[robHead].id \in InFlight'
          BY <1>1, <2>1, <3>2, <4>2, ResolveMispredictedInFlight
      <4>4. BusyTags' = {t \in BusyTags : robEntries[t].id <= b}
          BY <1>1, <3>2, FlushSlots
      <4> QED
          BY <2>1, <4>2, <4>3, <4>4
    <3>3. CASE ~MovesSlots
        BY <1>1, <2>1, <3>3, BusyTagsStay, InFlightSteps
    <3> QED
        BY <3>1, <3>2, <3>3 DEF MovesSlots
  <2>3. ~RobEmpty'
      BY <1>1, <2>2 DEF EmptyHoldsNothing
  <2>4. robEntries'[robHead].id = robEntries[robHead].id
      BY <1>1, <2>1, <2>2, FinishedEntriesStay
  <2> QED
      BY <1>1, <1>2, <1>3, <1>4, <2>1, <2>3, <2>4 DEF CommitPc
<1>5. CASE RobEmpty
  <2>1. InFlight = {}
      BY <1>1, <1>5 DEF EmptyHoldsNothing
  <2>2. ASSUME NEW predictedTaken \in BOOLEAN, Issue(predictedTaken)
        PROVE  CommitPc' = pc
    <3>1. InFlight' = {nextId}
        BY <1>1, <2>1, <2>2, IssueInFlight
    <3>2. ~RobEmpty' /\ robEntries'[robHead].id = nextId
        BY <1>1, <1>3, <3>1 DEF HeadIsOldest, EmptyHoldsNothing
    <3>3. statusTable'[nextId].staticPc = pc
      <4>1. statusTable' = Extend(statusTable, nextId, NewStatus)
          BY <2>2 DEF Issue
      <4> QED
          BY <4>1 DEF Extend, NewStatus
    <3> QED
        BY <1>3, <3>2, <3>3 DEF CommitPc
  <2>3. CASE ~ \E predictedTaken \in BOOLEAN : Issue(predictedTaken)
    <3>1. \A b \in todo : ~ResolveMispredicted(b)
        BY <2>1, FinishedSeesOperands DEF ResolveMispredicted
    <3>2. ~MovesSlots
        BY <2>3, <3>1 DEF MovesSlots
    <3>3. pc' = pc
        BY <3>2, PcStays
    <3>4. InFlight' = {}
        BY <1>1, <2>1, <3>2, InFlightSteps
    <3>5. RobEmpty'
        BY <1>1, <3>4 DEF HeadIsOldest
    <3> QED
        BY <1>5, <3>3, <3>5 DEF CommitPc
  <2>4. CommitPc = pc
      BY <1>5 DEF CommitPc
  <2> QED
      BY <2>2, <2>3, <2>4
<1> QED
    BY <1>4, <1>5

\* A commit moves it along the path of the instruction that commits.
LEMMA CommitPcMoves ==
    ASSUME SequentialInv, Commit
    PROVE  /\ CommitPc = statusTable[robEntries[robHead].id].staticPc
           /\ GoesTo(robEntries[robHead].id, CommitPc')
<1> DEFINE id == robEntries[robHead].id
<1>1. /\ MemoryInv /\ TypeInv /\ ResultInv /\ RobInv /\ RobInv'
      /\ HeadIsOldest /\ HeadIsOldest' /\ EmptyHoldsNothing'
      /\ [NextAnyTiming]_vars
      /\ \A i \in InFlight : i \in Ids /\ i \in Nat
  <2>1. [NextAnyTiming]_vars
      BY DEF NextAnyTiming
  <2> QED
      BY <2>1, MemoryFacts, AnyTimingWindow, OldestAtHead, OldestAtHeadNext, EmptyRobNext
      DEF SequentialInv
<1>2. ~RobEmpty
    BY DEF Commit, HeadReady
<1>3. id \in InFlight /\ InFlight' = InFlight \ {id} /\ \A i \in InFlight : id <= i
    BY <1>1, CommitInFlight
<1>4. pc' = pc
    BY DEF Commit, CommitStage, fetchVars
<1>5. CASE RobEmpty'
  <2>1. InFlight' = {}
      BY <1>1, <1>5 DEF EmptyHoldsNothing
  <2>2. IsLast(id, InFlight)
      BY <1>1, <1>3, <2>1 DEF IsLast
  <2>3. GoesTo(id, pc)
      BY <1>3, <2>2 DEF SequentialInv, PathIsFollowed
  <2>4. CommitPc' = pc
      BY <1>4, <1>5 DEF CommitPc
  <2> QED
      BY <1>2, <2>3, <2>4 DEF CommitPc
<1>6. CASE ~RobEmpty'
  <2>1. PICK k : k = robEntries'[robHead'].id
      OBVIOUS
  <2>2. k \in InFlight' /\ \A i \in InFlight' : k <= i
      BY <1>1, <1>6, <2>1 DEF HeadIsOldest
  <2>3. Follows(k, id, InFlight)
    <3>1. k \in InFlight /\ k # id /\ \A i \in InFlight : i = id \/ k <= i
        BY <1>3, <2>2
    <3>2. \A i \in InFlight : i \in Nat /\ id <= i
        BY <1>1, <1>3
    <3> HIDE DEF id
    <3> QED
        BY <1>3, <3>1, <3>2 DEF Follows
  <2>4. GoesTo(id, statusTable[k].staticPc)
      BY <1>3, <2>2, <2>3 DEF SequentialInv, PathIsFollowed
  <2>5. CommitPc' = statusTable[k].staticPc
      BY <1>1, <1>3, <1>6, <2>1, <2>2, StaticPcsStay DEF CommitPc
  <2> QED
      BY <1>2, <2>4, <2>5 DEF CommitPc
<1> QED
    BY <1>5, <1>6

\* The abstract machine computes with the same operators.
LEMMA SameInstructionSet ==
    /\ ISA!None = None /\ ISA!Addresses = Addresses
    /\ \A i : /\ ISA!writesRegister(i) <=> writesRegister(i)
              /\ ISA!IsMemoryOp(i) <=> IsMemoryOp(i)
              /\ ISA!IsBranch(i) <=> IsBranch(i)
    /\ \A i, vj, vk : /\ ISA!computeResult(i, vj, vk) = computeResult(i, vj, vk)
                      /\ ISA!branchTaken(i, vj, vk) = branchTaken(i, vj, vk)
    /\ \A i, vj : ISA!effectiveAddress(i, vj) = effectiveAddress(i, vj)
    /\ \A m, a : ISA!loadValues(m, a) = loadValues(m, a)
    /\ \A m, a, v : ISA!memoryAfterStore(m, a, v) = memoryAfterStore(m, a, v)
    /\ \A r, d, v : ISA!registersAfterWrite(r, d, v) = registersAfterWrite(r, d, v)
<1>1. ISA!None = None /\ ISA!Addresses = Addresses
    BY DEF ISA!None, None, ISA!Addresses, Addresses
<1>2. \A i : /\ ISA!writesRegister(i) <=> writesRegister(i)
             /\ ISA!IsMemoryOp(i) <=> IsMemoryOp(i)
             /\ ISA!IsBranch(i) <=> IsBranch(i)
    BY <1>1 DEF ISA!writesRegister, writesRegister, ISA!IsMemoryOp, IsMemoryOp, ISA!IsBranch,
       IsBranch, ISA!BranchOps, BranchOps
<1>3. \A n : ISA!Wrap(n) = Wrap(n)
    BY DEF ISA!Wrap, Wrap
<1>4. \A a, b : ISA!Quotient(a, b) = Quotient(a, b)
    BY DEF ISA!Quotient, Quotient, ISA!Magnitude, Magnitude
<1>5. \A i, vj, vk : /\ ISA!computeResult(i, vj, vk) = computeResult(i, vj, vk)
                     /\ ISA!branchTaken(i, vj, vk) = branchTaken(i, vj, vk)
    BY <1>3, <1>4 DEF ISA!computeResult, computeResult, ISA!branchTaken, branchTaken
<1>6. \A i, vj : ISA!effectiveAddress(i, vj) = effectiveAddress(i, vj)
    BY <1>3 DEF ISA!effectiveAddress, effectiveAddress
<1>7. \A m, a : ISA!loadValues(m, a) = loadValues(m, a)
    BY <1>1 DEF ISA!loadValues, loadValues, ISA!Val, Val
<1>8. \A m, a, v : ISA!memoryAfterStore(m, a, v) = memoryAfterStore(m, a, v)
    BY <1>1 DEF ISA!memoryAfterStore, memoryAfterStore
<1>9. \A r, d, v : ISA!registersAfterWrite(r, d, v) = registersAfterWrite(r, d, v)
    BY DEF ISA!registersAfterWrite, registersAfterWrite
<1> QED
    BY <1>1, <1>2, <1>5, <1>6, <1>7, <1>8, <1>9

\* A commit is a step of the sequential machine.
LEMMA CommitIsStep ==
    ASSUME SequentialInv, Commit
    PROVE  ISA!Next
<1> DEFINE e == robEntries[robHead]
           i == Writer(robHead)
           vj == rf[i.rs1]
           vk == IF i.rs2 = None THEN 0 ELSE rf[i.rs2]
<1>1. /\ MemoryInv /\ QueueInv /\ TypeInv /\ ResultInv
      /\ robHead \in BusyTags /\ e.ready /\ i \in WellFormedInstructions
      /\ e.id \in InFlight /\ e.id \in Ids /\ e.id \notin DOMAIN active
    BY MemoryFacts, CommitSlots, HeadSees DEF SequentialInv
<1>2. CommitPc = statusTable[e.id].staticPc /\ GoesTo(e.id, CommitPc')
    BY CommitPcMoves
<1>3. ISA!Fetchable /\ ISA!Current = i
    BY <1>1, <1>2 DEF ISA!Fetchable, ISA!Current, QueueInv, FetchedFromProgram, Writer, InstructionOf
<1>4. ISA!Vj = vj /\ ISA!Vk = vk
    BY <1>3, SameInstructionSet DEF ISA!Vj, ISA!Vk
<1>5. program' = program
    BY DEF Commit, CommitStage, fetchVars
<1>6. /\ i.rd # None => rf' = registersAfterWrite(rf, i.rd, e.value)
      /\ i.rd = None => rf' = rf
  <2>1. i.rd # None => e.writesRegister /\ e.rd = i.rd
      BY <1>1 DEF ResultInv, ResultsNameRegisters
  <2>2. e.writesRegister => i.rd # None
      BY <1>1 DEF QueueInv, EntriesWriteTheirOwn
  <2>3. rf' = IF e.writesRegister THEN registersAfterWrite(rf, e.rd, e.value) ELSE rf
      BY DEF Commit
  <2> QED
      BY <2>1, <2>2, <2>3
<1>7. /\ i.op = "SD" => mem' = memoryAfterStore(mem, e.address, e.memoryValue)
      /\ i.op # "SD" => mem' = mem
  <2>1. i.op = "SD" => e.writesMemory
      BY <1>1 DEF QueueInv, StoresAgree
  <2>2. e.writesMemory => i.op = "SD"
      BY <1>1 DEF QueueInv, EntriesWriteTheirOwn
  <2>3. mem' = IF e.writesMemory THEN memoryAfterStore(mem, e.address, e.memoryValue) ELSE mem
      BY DEF Commit
  <2> QED
      BY <2>1, <2>2, <2>3
<1>8. ~IsBranch(i) => CommitPc' = CommitPc + 1
    BY <1>1, <1>2 DEF GoesTo, Writer
<1>9. IsBranch(i) => CommitPc' = IF branchTaken(i, vj, vk) THEN i.target ELSE CommitPc + 1
  <2> SUFFICES ASSUME IsBranch(i)
               PROVE  CommitPc' = IF branchTaken(i, vj, vk) THEN i.target ELSE CommitPc + 1
      OBVIOUS
  <2>1. PICK taken \in BOOLEAN :
            /\ CommitPc' = IF taken THEN i.target ELSE CommitPc + 1
            /\ Branches(e.id, i, taken)
      BY <1>1, <1>2 DEF GoesTo, Writer
  <2>2. taken = branchTaken(i, vj, vk)
      BY <2>1, HeadComputes
  <2> QED
      BY <2>1, <2>2
<1>10. /\ i.rd # None /\ i.op # "LD" => e.value = computeResult(i, vj, vk)
       /\ i.op = "LD" => e.value \in loadValues(mem, effectiveAddress(i, vj))
       /\ i.op = "SD" => e.address = effectiveAddress(i, vj) /\ e.memoryValue = vk
    BY HeadComputes
<1> HIDE DEF i, e, vj, vk
<1>11. /\ i.op \in {"LD", "SD"} \cup BranchOps \/ i.rd # None
       /\ i.rd # None <=> i.op \notin BranchOps \cup {"SD"}
    BY <1>1 DEF WellFormedInstructions, WellFormed
<1>12. CASE i.op = "LD"
  <2>1. ISA!Load
    <3>1. i.rd # None /\ ~IsBranch(i)
        BY <1>11, <1>12 DEF IsBranch, BranchOps
    <3> QED
        BY <1>3, <1>4, <1>5, <1>6, <1>7, <1>8, <1>10, <1>12, <3>1, SameInstructionSet DEF ISA!Load
  <2> QED
      BY <2>1 DEF ISA!Next
<1>13. CASE i.op = "SD"
  <2>1. ISA!Store
    <3>1. i.rd = None /\ ~IsBranch(i)
        BY <1>11, <1>13 DEF IsBranch, BranchOps
    <3> QED
        BY <1>3, <1>4, <1>5, <1>6, <1>7, <1>8, <1>10, <1>13, <3>1, SameInstructionSet DEF ISA!Store
  <2> QED
      BY <2>1 DEF ISA!Next
<1>14. CASE i.op \in BranchOps
  <2>1. ISA!Branch
    <3>1. i.rd = None /\ IsBranch(i) /\ i.op # "SD"
        BY <1>11, <1>14 DEF IsBranch, BranchOps
    <3> QED
        BY <1>3, <1>4, <1>5, <1>6, <1>7, <1>9, <3>1, SameInstructionSet DEF ISA!Branch
  <2> QED
      BY <2>1 DEF ISA!Next
<1>15. CASE i.op \notin BranchOps \cup {"LD", "SD"}
  <2>1. ISA!Arithmetic
    <3>1. i.rd # None /\ ~IsBranch(i) /\ ~IsMemoryOp(i) /\ i.op # "LD" /\ i.op # "SD"
        BY <1>11, <1>15 DEF IsBranch, IsMemoryOp
    <3> QED
        BY <1>3, <1>4, <1>5, <1>6, <1>7, <1>8, <1>10, <3>1, SameInstructionSet
        DEF ISA!Arithmetic, writesRegister
  <2> QED
      BY <2>1 DEF ISA!Next
<1> QED
    BY <1>12, <1>13, <1>14, <1>15

\* Every other step leaves the sequential machine where it is.
LEMMA StepIsSequential == SequentialInv /\ [NextAnyTiming]_vars => [ISA!Next]_(ISA!vars)
<1> SUFFICES ASSUME SequentialInv, [NextAnyTiming]_vars PROVE [ISA!Next]_(ISA!vars)
    OBVIOUS
<1>1. CASE Commit
    BY <1>1, CommitIsStep
<1>2. CASE ~Commit
  <2>1. MemoryInv /\ TypeInv
      BY MemoryFacts DEF SequentialInv
  <2>2. program' = program /\ rf' = rf /\ mem' = mem /\ CommitPc' = CommitPc
      BY <1>2, <2>1, StaticPcsStay, OnlyCommitWrites, CommitPcStays
  <2> QED
      BY <2>2 DEF ISA!vars
<1> QED
    BY <1>1, <1>2

LEMMA InitIsSequential == Init => ISA!Init
    BY DEF Init, ISA!Init, CommitPc, RobEmpty

-----------------------------------------------------------------------------
(* Renames                                                                   *)

RenamesAreComplete ==
    \A r \in Registers : regProducer[r] = None => \A t \in BusyTags : Writer(t).rd # r

LEMMA RenamesBySlot == RobInv => (NoProducerMeansLatest <=> RenamesAreComplete)
    BY InFlightByTag
    DEF InFlightHoldBusyTags, NoProducerMeansLatest, RenamesAreComplete, WritersInFlight, Writer

LEMMA RenamesBySlotNext == RobInv' => (NoProducerMeansLatest' <=> RenamesAreComplete')
    BY RenamesBySlot, PTL

\* Only a flush takes a rename away while a writer of the register is in flight.
LEMMA RenamesStayComplete ==
    ASSUME ResultInv, NoProducerMeansLatest, [NextAnyTiming]_vars,
           \A b \in todo : ~ResolveMispredicted(b)
    PROVE  NoProducerMeansLatest'
<1>1. RobInv /\ RobInv' /\ TypeInv /\ regProducer \in [Registers -> Sources]
    BY AnyTimingWindow DEF ResultInv, FateInv, RobInv, TypeInv, TypeOK
<1>2. RenamesAreComplete
    BY <1>1, RenamesBySlot
<1>3. RenamesAreComplete'
  <2>1. ASSUME NEW predictedTaken \in BOOLEAN, Issue(predictedTaken)
        PROVE  RenamesAreComplete'
    <3>1. /\ BusyTags' = BusyTags \cup {robTail}
          /\ \A t \in BusyTags : Writer(t)' = Writer(t)
          /\ \A t \in Tags : t = robTail => Writer(t)' = NextInstruction
          /\ robTail \in Tags
        BY <2>1, IssueSlots
    <3>2. regProducer' = IF writesRegister(NextInstruction)
                         THEN [regProducer EXCEPT ![NextInstruction.rd] = robTail]
                         ELSE regProducer
        BY <2>1 DEF Issue
    <3>3. robTail # None
        BY <3>1 DEF Tags, None
    <3> SUFFICES ASSUME NEW r \in Registers, regProducer'[r] = None, NEW t \in BusyTags'
                 PROVE  Writer(t)'.rd # r
        BY DEF RenamesAreComplete
    <3>4. regProducer[r] = None /\ NextInstruction.rd # r
        BY <1>1, <3>2, <3>3 DEF writesRegister, Registers, None
    <3>5. CASE t = robTail
        BY <3>1, <3>4, <3>5
    <3>6. CASE t \in BusyTags
        BY <1>2, <3>1, <3>4, <3>6 DEF RenamesAreComplete
    <3> QED
        BY <3>1, <3>5, <3>6
  <2>2. CASE Commit
    <3>1. /\ robHead \in BusyTags
          /\ BusyTags' = BusyTags \ {robHead}
          /\ \A t \in BusyTags' : Writer(t)' = Writer(t)
          /\ \A t \in BusyTags' : robEntries[robHead].id < robEntries[t].id
          /\ \A t \in BusyTags : robEntries[t].id \in Nat
        BY <1>1, <2>2, CommitSlots, SlotOwners
    <3> SUFFICES ASSUME NEW r \in Registers, regProducer'[r] = None, NEW t \in BusyTags'
                 PROVE  Writer(t)'.rd # r
        BY DEF RenamesAreComplete
    <3>2. regProducer[r] = None \/ regProducer[r] = robHead
        BY <1>1, <2>2 DEF Commit
    <3>3. CASE regProducer[r] = None
        BY <1>2, <3>1, <3>3 DEF RenamesAreComplete
    <3>4. CASE regProducer[r] = robHead /\ regProducer[r] # None
      <4>1. \A s \in BusyTags : Writer(s).rd = r => robEntries[s].id <= robEntries[robHead].id
          BY <3>4 DEF ResultInv, ProducersAreYoungest
      <4>2. t \in BusyTags /\ ~(robEntries[t].id <= robEntries[robHead].id)
          BY <3>1
      <4> QED
          BY <3>1, <4>1, <4>2
    <3> QED
        BY <3>2, <3>3, <3>4
  <2>3. CASE ~MovesSlots
    <3>1. BusyTags' = BusyTags /\ \A t \in BusyTags : Writer(t)' = Writer(t)
        BY <2>3, BusyTagsStay, FinishedEntriesStay
    <3>2. regProducer' = regProducer
      <4>1. ASSUME NEW k \in todo, VisitAnyTiming(k) PROVE regProducer' = regProducer
          BY <1>1, <4>1, VisitIsQuiet DEF QuietStep
      <4>2. ASSUME NEW k \in todo, CompleteRegister(k) \/ CompleteStore(k) \/ ResolveCorrect(k)
            PROVE  regProducer' = regProducer
          BY <4>2 DEF CompleteRegister, CompleteStore, ResolveCorrect, Retire
      <4>3. ASSUME NEW b \in DOMAIN cdbQueue, Broadcast(b) PROVE regProducer' = regProducer
          BY <4>3 DEF Broadcast, BroadcastStage
      <4>4. ASSUME \/ StallIssue \/ Finish \/ NoCommit \/ NoBroadcast \/ EndCycle \/ Done
                   \/ UNCHANGED vars
            PROVE  regProducer' = regProducer
          BY <4>4, IdleIsQuiet DEF QuietStep
      <4> QED
          BY <2>3, <4>1, <4>2, <4>3, <4>4 DEF NextAnyTiming, MovesSlots
    <3> QED
        BY <1>2, <3>1, <3>2 DEF RenamesAreComplete
  <2> QED
      BY <2>1, <2>2, <2>3 DEF MovesSlots
<1> QED
    BY <1>1, <1>3, RenamesBySlotNext

LEMMA InitRenames == Init => NoProducerMeansLatest
<1> SUFFICES ASSUME Init PROVE NoProducerMeansLatest
    OBVIOUS
<1>1. MemoryInv /\ BusyTags = {}
    BY InitMemory DEF Init, BusyTags, EmptyEntry
<1>2. InFlight = {}
    BY <1>1, MemoryFacts
<1> QED
    BY <1>2 DEF NoProducerMeansLatest, WritersInFlight

-----------------------------------------------------------------------------
(* The theorems                                                              *)

\* No program writes R0.
ProgramsSpareR0 == \A p \in Programs : \A n \in 1 .. Len(p) : p[n].rd # 0

\* No branch resolves against its prediction.
PredictionsAreRight == [][\A b \in todo : ~ResolveMispredicted(b)]_vars

ProgramsDoNotBranch == \A p \in Programs : \A n \in 1 .. Len(p) : ~IsBranch(p[n])

LEMMA InitSpares == ProgramsSpareR0 /\ Init => SequentialInv
    BY InitSequential DEF ProgramsSpareR0, Init, SparesR0

LEMMA NextSequential ==
    SequentialInv /\ NoProducerMeansLatest /\ [Next]_vars =>
        SequentialInv' /\ [ISA!Next]_(ISA!vars)
<1>1. SequentialInv => TypeInv
    BY MemoryFacts DEF SequentialInv
<1> QED
    BY <1>1, NextIsAnyTiming, AnyTimingSequential, StepIsSequential

(***************************************************************************)
(* For every machine and every program that does not write R0: as long as  *)
(* the comment on regProducer holds (a register without a rename has no      *)
(* writer in flight), each commit is a step of the sequential machine and    *)
(* nothing else changes the architectural state.                             *)
(***************************************************************************)
THEOREM SequentialWhileRenamed ==
    ASSUME ProgramsSpareR0
    PROVE  Spec /\ []NoProducerMeansLatest => CommitsSequentially
<1>1. Init => SequentialInv
    BY InitSpares
<1> QED
    BY <1>1, InitIsSequential, NextSequential, PTL DEF Spec, CommitsSequentially

LEMMA NextRightlyPredicted ==
    SequentialInv /\ NoProducerMeansLatest /\ [Next]_vars
    /\ [\A b \in todo : ~ResolveMispredicted(b)]_vars
    => NoProducerMeansLatest'
<1> SUFFICES ASSUME SequentialInv, NoProducerMeansLatest, [Next]_vars,
                    [\A b \in todo : ~ResolveMispredicted(b)]_vars
             PROVE  NoProducerMeansLatest'
    OBVIOUS
<1>1. ResultInv /\ TypeInv
    BY MemoryFacts DEF SequentialInv
<1>2. [NextAnyTiming]_vars
    BY <1>1, NextIsAnyTiming
<1>3. CASE \A b \in todo : ~ResolveMispredicted(b)
    BY <1>1, <1>2, <1>3, RenamesStayComplete
<1>4. CASE UNCHANGED vars
  <2>1. /\ UNCHANGED <<regProducer, statusTable, program>> /\ InFlight' = InFlight
    <3>1. UNCHANGED <<regProducer, statusTable, program, robEntries, robHead, robCount>>
        BY <1>4 DEF vars, fetchVars, robVars
    <3> QED
        BY <3>1 DEF InFlight, Entry, Slot, Window
  <2> QED
      BY <2>1 DEF NoProducerMeansLatest, WritersInFlight, InstructionOf
<1> QED
    BY <1>3, <1>4

(***************************************************************************)
(* Only recovery loses a rename: when every branch resolves as predicted,   *)
(* the comment on regProducer holds and the loop commits sequentially.      *)
(***************************************************************************)
THEOREM SequentialWhenPredicted ==
    ASSUME ProgramsSpareR0
    PROVE  Spec /\ PredictionsAreRight => []NoProducerMeansLatest /\ CommitsSequentially
<1>1. Init => SequentialInv
    BY InitSpares
<1> QED
    BY <1>1, InitRenames, InitIsSequential, NextSequential, NextRightlyPredicted, PTL
    DEF Spec, CommitsSequentially, PredictionsAreRight

\* Without branches no rename is lost, whatever the timing.
StraightLineInv ==
    /\ SequentialInv /\ NoProducerMeansLatest
    /\ \A n \in 1 .. Len(program) : ~IsBranch(program[n])

LEMMA InitStraightLine == ProgramsSpareR0 /\ ProgramsDoNotBranch /\ Init => StraightLineInv
BY InitSpares, InitRenames DEF ProgramsDoNotBranch, Init, StraightLineInv

LEMMA NextStraightLine ==
    StraightLineInv /\ [NextAnyTiming]_vars => StraightLineInv' /\ [ISA!Next]_(ISA!vars)
<1> SUFFICES ASSUME StraightLineInv, [NextAnyTiming]_vars
             PROVE  StraightLineInv' /\ [ISA!Next]_(ISA!vars)
    OBVIOUS
<1>1. SequentialInv /\ NoProducerMeansLatest /\ TypeInv /\ QueueInv /\ ResultInv
    BY MemoryFacts DEF StraightLineInv, SequentialInv
<1>2. SequentialInv' /\ [ISA!Next]_(ISA!vars)
    BY <1>1, AnyTimingSequential, StepIsSequential
<1>3. ASSUME NEW b \in todo, ResolveMispredicted(b) PROVE FALSE
  <2>1. b \in InFlight /\ IsBranch(InstructionOf(b)) /\ InFlight \subseteq Ids
      BY <1>1, <1>3, FinishedSeesOperands, MemoryFacts DEF ResolveMispredicted, SequentialInv
  <2>2. statusTable[b].staticPc \in 0 .. Len(program) - 1
      BY <1>1, <2>1 DEF QueueInv, FetchedFromProgram
  <2>3. Len(program) \in Nat
      BY <1>1 DEF TypeInv, TypeOK
  <2>4. statusTable[b].staticPc + 1 \in 1 .. Len(program)
      BY <2>2, <2>3
  <2> QED
      BY <2>1, <2>4 DEF InstructionOf, StraightLineInv
<1>4. NoProducerMeansLatest'
    BY <1>1, <1>3, RenamesStayComplete
<1>5. program' = program
    BY <1>1, StaticPcsStay
<1> QED
    BY <1>2, <1>4, <1>5 DEF StraightLineInv

(***************************************************************************)
(* A program without branches (and without writes of R0) is executed as the *)
(* sequential machine would, whatever the sizes, units and latencies.       *)
(***************************************************************************)
THEOREM StraightLineIsSequential ==
    ASSUME ProgramsSpareR0, ProgramsDoNotBranch
    PROVE  Spec => CommitsSequentially
<1>1. Init => StraightLineInv /\ ISA!Init
    BY InitStraightLine, InitIsSequential
<1>2. StraightLineInv /\ [Next]_vars => StraightLineInv' /\ [ISA!Next]_(ISA!vars)
  <2>1. StraightLineInv => TypeInv
      BY MemoryFacts DEF StraightLineInv, SequentialInv
  <2> QED
      BY <2>1, NextIsAnyTiming, NextStraightLine
<1> QED
    BY <1>1, <1>2, PTL DEF Spec, CommitsSequentially

-----------------------------------------------------------------------------
(* Register zero                                                             *)

ZeroInv ==
    /\ MemoryInv /\ SparesR0 /\ rf[0] = 0
    /\ \A k \in DOMAIN active : active[k].instr.rs1 = 0 => active[k].vj = 0
    /\ \A k \in DOMAIN active : active[k].instr.rs2 = 0 => active[k].vk = 0

\* No rename and no waiting operand names R0.
LEMMA ZeroIsNotRenamed ==
    ASSUME MemoryInv, SparesR0
    PROVE  /\ regProducer[0] = None /\ 0 \in Registers
           /\ \A k \in DOMAIN active : active[k].instr.rs1 = 0 => active[k].qj = None
           /\ \A k \in DOMAIN active : active[k].instr.rs2 = 0 => active[k].qk = None
<1>1. \A t \in BusyTags : Writer(t).rd # 0
  <2> SUFFICES ASSUME NEW t \in BusyTags PROVE Writer(t).rd # 0
      OBVIOUS
  <2>1. QueueInv /\ robEntries[t].id \in Ids /\ Len(program) \in Nat
      BY MemoryFacts DEF TypeInv, TypeOK
  <2>2. statusTable[robEntries[t].id].staticPc \in 0 .. Len(program) - 1
      BY <2>1 DEF QueueInv, FetchedFromProgram
  <2>3. statusTable[robEntries[t].id].staticPc + 1 \in 1 .. Len(program)
      BY <2>1, <2>2
  <2> QED
      BY <2>3 DEF SparesR0, Writer, InstructionOf
<1>2. 0 \in Registers
    BY NumRegsAssumption DEF Registers
<1>3. regProducer[0] = None
    BY <1>1, <1>2, MemoryFacts DEF ResultInv, ProducersAreYoungest
<1>4. ASSUME NEW k \in DOMAIN active, active[k].instr.rs1 = 0 PROVE active[k].qj = None
    BY <1>1, <1>4, MemoryFacts DEF ResultInv, OperandsAwaitWriters, AwaitsWriter, Unfinished
<1>5. ASSUME NEW k \in DOMAIN active, active[k].instr.rs2 = 0 PROVE active[k].qk = None
    BY <1>1, <1>5, MemoryFacts DEF ResultInv, OperandsAwaitWriters, AwaitsWriter, Unfinished
<1> QED
    BY <1>2, <1>3, <1>4, <1>5

LEMMA NextZero == ZeroInv /\ [NextAnyTiming]_vars => ZeroInv'
<1> SUFFICES ASSUME ZeroInv, [NextAnyTiming]_vars PROVE ZeroInv'
    OBVIOUS
<1>1. /\ MemoryInv /\ SparesR0 /\ TypeInv /\ QueueInv /\ MemoryInv' /\ TypeInv'
      /\ regProducer[0] = None /\ 0 \in Registers
      /\ \A k \in DOMAIN active : active[k].instr.rs1 = 0 => active[k].qj = None
      /\ \A k \in DOMAIN active : active[k].instr.rs2 = 0 => active[k].qk = None
    BY MemoryFacts, AnyTimingMemory, AnyTimingTypes, ZeroIsNotRenamed DEF ZeroInv
<1>2. SparesR0'
    BY <1>1, StaticPcsStay DEF SparesR0
<1>3. rf'[0] = 0
  <2>1. CASE Commit
    <3>1. rf \in [Registers -> Val]
        BY <1>1 DEF TypeInv, TypeOK
    <3> QED
        BY <1>1, <2>1, <3>1, CommitWritesHead DEF ZeroInv
  <2>2. CASE ~Commit
      BY <1>1, <2>2, OnlyCommitWrites DEF ZeroInv
  <2> QED
      BY <2>1, <2>2
<1>4. ASSUME NEW k \in DOMAIN active', active'[k].instr.rs1 = 0 PROVE active'[k].vj = 0
  <2>1. CASE k \in DOMAIN active /\ active'[k] = active[k]
      BY <1>4, <2>1 DEF ZeroInv
  <2>2. ASSUME NEW predictedTaken \in BOOLEAN, Issue(predictedTaken), k = nextId
        PROVE  active'[k].vj = 0
    <3>1. active'[k] = IssuedInstruction(NextInstruction, predictedTaken)
        BY <1>1, <2>2, IssuedFields
    <3>2. /\ NextInstruction.rs1 = 0
          /\ active'[k].vj = OperandValue(EntriesAllocated, NextInstruction.rs1)
        BY <1>4, <3>1 DEF IssuedInstruction
    <3> QED
        BY <1>1, <3>2 DEF OperandValue, Pending, ZeroInv, None
  <2>3. CASE k \in todo /\ VisitAnyTiming(k)
      BY <1>1, <1>4, <2>3, VisitedFields DEF ZeroInv
  <2>4. ASSUME NEW b \in DOMAIN cdbQueue, Broadcast(b), k \in DOMAIN active
        PROVE  active'[k].vj = 0
      BY <1>1, <1>4, <2>4, WokenFields DEF ZeroInv
  <2> QED
      BY <1>1, <2>1, <2>2, <2>3, <2>4, ActiveSteps
<1>5. ASSUME NEW k \in DOMAIN active', active'[k].instr.rs2 = 0 PROVE active'[k].vk = 0
  <2>1. CASE k \in DOMAIN active /\ active'[k] = active[k]
      BY <1>5, <2>1 DEF ZeroInv
  <2>2. ASSUME NEW predictedTaken \in BOOLEAN, Issue(predictedTaken), k = nextId
        PROVE  active'[k].vk = 0
    <3>1. active'[k] = IssuedInstruction(NextInstruction, predictedTaken)
        BY <1>1, <2>2, IssuedFields
    <3>2. /\ NextInstruction.rs2 = 0
          /\ active'[k].vk = OperandValue(EntriesAllocated, NextInstruction.rs2)
        BY <1>5, <3>1 DEF IssuedInstruction
    <3> QED
        BY <1>1, <3>2 DEF OperandValue, Pending, ZeroInv, None
  <2>3. CASE k \in todo /\ VisitAnyTiming(k)
      BY <1>1, <1>5, <2>3, VisitedFields DEF ZeroInv
  <2>4. ASSUME NEW b \in DOMAIN cdbQueue, Broadcast(b), k \in DOMAIN active
        PROVE  active'[k].vk = 0
      BY <1>1, <1>5, <2>4, WokenFields DEF ZeroInv
  <2> QED
      BY <1>1, <2>1, <2>2, <2>3, <2>4, ActiveSteps
<1> QED
    BY <1>1, <1>2, <1>3, <1>4, <1>5 DEF ZeroInv

LEMMA InitZero == ProgramsSpareR0 /\ Init => ZeroInv
<1> SUFFICES ASSUME ProgramsSpareR0, Init PROVE ZeroInv
    OBVIOUS
<1>1. rf[0] = 0 /\ DOMAIN active = {}
    BY SetupAssumption DEF Init, RegisterFiles, EmptyFunction
<1>2. MemoryInv /\ SparesR0
    BY InitSpares DEF SequentialInv
<1> QED
    BY <1>1, <1>2 DEF ZeroInv

(***************************************************************************)
(* "R0 is always zero" (applyProgramSetup) is true of every program that    *)
(* does not write it: every read of R0 gives zero, mispredictions or not.    *)
(***************************************************************************)
THEOREM ZeroWhenSpared ==
    ASSUME ProgramsSpareR0
    PROVE  Spec => []RegisterZeroReadsZero
<1>1. Init => ZeroInv
    BY InitZero
<1>2. ZeroInv /\ [Next]_vars => ZeroInv'
  <2>1. ZeroInv => TypeInv
      BY MemoryFacts DEF ZeroInv
  <2> QED
      BY <2>1, NextIsAnyTiming, NextZero
<1>3. ZeroInv => RegisterZeroReadsZero
    BY DEF ZeroInv, RegisterZeroReadsZero
<1> QED
    BY <1>1, <1>2, <1>3, PTL DEF Spec
=============================================================================

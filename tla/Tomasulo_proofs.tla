--------------------------- MODULE Tomasulo_proofs ---------------------------
(* Type correctness, the reorder buffer, the fates of instructions and the   *)
(* functional units, with the facts about sets of naturals and about machine *)
(* arithmetic that these and the later proofs rest on.                       *)
EXTENDS TomasuloProperties, FiniteSetTheorems, WellFoundedInduction, TLAPS

-----------------------------------------------------------------------------
(* Sets of natural numbers                                                   *)

(* A set of naturals below n is finite and has at most n elements.           *)
LEMMA BelowIsFinite ==
    ASSUME NEW n \in Nat, NEW S, S \subseteq 0 .. n - 1
    PROVE  IsFiniteSet(S) /\ Cardinality(S) \in Nat /\ Cardinality(S) <= n
<1>1. 0 \in Int /\ n - 1 \in Int
    OBVIOUS
<1>2. IsFiniteSet(0 .. n - 1) /\ Cardinality(0 .. n - 1) = n
    BY <1>1, FS_Interval
<1>3. IsFiniteSet(S) /\ Cardinality(S) <= Cardinality(0 .. n - 1)
    BY <1>2, FS_Subset
<1> QED
    BY <1>2, <1>3, FS_CardinalityType

(* A nonempty set of naturals has a least element: the initial segments it   *)
(* spans are finite sets, and strict inclusion of those is well-founded.     *)
LEMMA LeastExists ==
    ASSUME NEW S, S \subseteq Nat, S # {}
    PROVE  \E x \in S : \A y \in S : x <= y
<1> DEFINE T == {0 .. x : x \in S}
<1>1. \A x \in S : 0 .. x \in FiniteSubsetsOf(Nat)
    <2> SUFFICES ASSUME NEW x \in S PROVE 0 .. x \in FiniteSubsetsOf(Nat)
        OBVIOUS
    <2>1. 0 \in Int /\ x \in Int
        OBVIOUS
    <2>2. IsFiniteSet(0 .. x)
        BY <2>1, FS_Interval
    <2> QED
        BY <2>2 DEF FiniteSubsetsOf
<1>2. T \subseteq FiniteSubsetsOf(Nat) /\ T # {}
    BY <1>1
<1>3. \E t \in T : \A u \in T : <<u, t>> \notin StrictSubsetOrdering(Nat)
    BY <1>2, FS_StrictSubsetOrderingWellFounded, WFMin
<1>4. PICK x \in S : \A y \in S : <<0 .. y, 0 .. x>> \notin StrictSubsetOrdering(Nat)
    BY <1>3
<1>5. ASSUME NEW y \in S, y < x PROVE FALSE
    <2>1. 0 .. y \subseteq 0 .. x /\ 0 .. y \subseteq Nat /\ 0 .. x \subseteq Nat
        BY <1>5
    <2>2. x \in 0 .. x /\ x \notin 0 .. y
        BY <1>5
    <2>3. <<0 .. y, 0 .. x>> \in StrictSubsetOrdering(Nat)
        BY <2>1, <2>2 DEF StrictSubsetOrdering
    <2> QED
        BY <2>3, <1>4
<1>6. \A y \in S : x <= y
    BY <1>5
<1> QED
    BY <1>6

(* A nonempty set of naturals below n has a largest element.                 *)
LEMMA LargestExists ==
    ASSUME NEW n \in Nat, NEW S, S \subseteq 0 .. n - 1, S # {}
    PROVE  \E x \in S : \A y \in S : y <= x
<1> DEFINE T == {n - x : x \in S}
<1>1. T \subseteq Nat /\ T # {}
    OBVIOUS
<1>2. PICK t \in T : \A u \in T : t <= u
    BY <1>1, LeastExists
<1>3. PICK x \in S : t = n - x
    OBVIOUS
<1>4. \A y \in S : n - y \in T
    OBVIOUS
<1>5. \A y \in S : y <= x
    BY <1>2, <1>3, <1>4
<1> QED
    BY <1>5

(* A set of naturals below n that contains everything smaller than each of   *)
(* its elements is an initial segment, as long as its cardinality.           *)
LEMMA InitialSegment ==
    ASSUME NEW n \in Nat, NEW D, D \subseteq 0 .. n - 1,
           \A i \in D, j \in Nat : j < i => j \in D
    PROVE  D = 0 .. Cardinality(D) - 1 /\ Cardinality(D) \in 0 .. n
<1>1. n \in Nat \ D
    OBVIOUS
<1>2. PICK m \in Nat \ D : \A y \in Nat \ D : m <= y
    BY <1>1, LeastExists
<1>3. D = 0 .. m - 1 /\ m <= n
    <2>1. \A j \in 0 .. m - 1 : j \in D
        BY <1>2
    <2>2. \A i \in D : i < m
        BY <1>2
    <2>3. D \subseteq 0 .. m - 1
        BY <2>2
    <2> QED
        BY <2>1, <2>3, <1>1, <1>2
<1>4. 0 \in Int /\ m - 1 \in Int /\ m \in Nat
    BY <1>2
<1>5. Cardinality(D) = m
    BY <1>3, <1>4, FS_Interval
<1> QED
    BY <1>3, <1>4, <1>5
-----------------------------------------------------------------------------
(* What the instruction set computes stays inside the machine's types        *)

(* Wrap-around lands in the range of an int, whatever the exact result.      *)
LEMMA WrapType == \A n \in Int : Wrap(n) \in Val
<1> SUFFICES ASSUME NEW n \in Int PROVE Wrap(n) \in Val
    OBVIOUS
<1> DEFINE m == 2 * HalfRange
<1>1. m \in Nat /\ m > 0
    BY HalfRangeAssumption
<1>2. (n + HalfRange) % m \in 0 .. m - 1
    BY <1>1, HalfRangeAssumption
<1> QED
    BY <1>2, HalfRangeAssumption DEF Wrap, Val

\* Division by a nonzero divisor has an integer result.
LEMMA QuotientType ==
    ASSUME NEW a \in Int, NEW b \in Int, b # 0
    PROVE  Quotient(a, b) \in Int
<1>1. Magnitude(a) \in Int /\ Magnitude(b) \in Nat \ {0}
    BY DEF Magnitude
<1>2. Magnitude(a) \div Magnitude(b) \in Int
    BY <1>1
<1> QED
    BY <1>2 DEF Quotient

\* Whatever an instruction computes fits the register it is written to.
LEMMA ComputeResultType ==
    ASSUME NEW i \in WellFormedInstructions, writesRegister(i), i.op # "LD",
           NEW vj \in Val, NEW vk \in Val
    PROVE  computeResult(i, vj, vk) \in Val
<1>1. vj \in Int /\ vk \in Int /\ i.imm \in Int
    BY HalfRangeAssumption DEF Val, WellFormedInstructions, Instructions
<1>2. vk # 0 => Quotient(vj, vk) \in Int
    BY <1>1, QuotientType
<1>3. i.op \in {"ADD", "FADD", "ADDI", "SUB", "FSUB", "MUL", "FMUL", "FDIV"}
    BY DEF WellFormedInstructions, WellFormed, Instructions, OpCodes, ArithmeticOps,
           BranchOps, writesRegister
<1>4. (CASE i.op \in {"ADD", "FADD"} -> vj + vk
        [] i.op = "ADDI" -> vj + i.imm
        [] i.op \in {"SUB", "FSUB"} -> vj - vk
        [] i.op \in {"MUL", "FMUL"} -> vj * vk
        [] i.op = "FDIV" -> IF vk = 0 THEN 0 ELSE Quotient(vj, vk)) \in Int
    BY <1>1, <1>2, <1>3
<1> QED
    BY <1>4, WrapType DEF computeResult

\* The address of a load or a store is a machine integer.
LEMMA EffectiveAddressType ==
    ASSUME NEW i \in WellFormedInstructions, NEW vj \in Val
    PROVE  effectiveAddress(i, vj) \in Val
<1>1. vj + i.imm \in Int
    BY HalfRangeAssumption DEF Val, WellFormedInstructions, Instructions
<1> QED
    BY <1>1, WrapType DEF effectiveAddress

-----------------------------------------------------------------------------
(* Functions from ids, and slots                                             *)

\* A list with an entry appended: its ids, and each id's entry.
LEMMA ExtendType ==
    ASSUME NEW T, NEW f, f \in [DOMAIN f -> T], NEW k, NEW v, v \in T
    PROVE  /\ DOMAIN Extend(f, k, v) = DOMAIN f \cup {k}
           /\ Extend(f, k, v) \in [DOMAIN f \cup {k} -> T]
           /\ Extend(f, k, v)[k] = v
           /\ \A x \in DOMAIN f : x # k => Extend(f, k, v)[x] = f[x]
BY DEF Extend

\* A list with an entry erased.
LEMMA RemoveType ==
    ASSUME NEW T, NEW I, NEW f, DOMAIN f \subseteq I, f \in [DOMAIN f -> T], NEW k
    PROVE  /\ DOMAIN Remove(f, k) = DOMAIN f \ {k}
           /\ DOMAIN Remove(f, k) \subseteq I
           /\ Remove(f, k) \in [DOMAIN Remove(f, k) -> T]
           /\ \A x \in DOMAIN f \ {k} : Remove(f, k)[x] = f[x]
BY DEF Remove, Restrict

\* A list with the entries younger than k erased.
LEMMA UpToType ==
    ASSUME NEW T, NEW I, NEW f, DOMAIN f \subseteq I, f \in [DOMAIN f -> T], NEW k
    PROVE  /\ DOMAIN UpTo(f, k) = {x \in DOMAIN f : x <= k}
           /\ DOMAIN UpTo(f, k) \subseteq I
           /\ UpTo(f, k) \in [DOMAIN UpTo(f, k) -> T]
           /\ \A x \in DOMAIN f : x <= k => UpTo(f, k)[x] = f[x]
BY DEF UpTo, Restrict

\* Every position taken modulo the capacity is a ROB slot.
LEMMA SlotType ==
    ASSUME NEW n \in Nat
    PROVE  n % RobCapacity \in Tags
BY RobCapacityAssumption DEF Tags

-----------------------------------------------------------------------------
(* Type correctness                                                          *)

TypeInv == TypeOK /\ CountdownIsCaught

\* A cleared ROB entry has the type of one.
LEMMA EmptyEntryType == EmptyEntry \in RobRecords
BY HalfRangeAssumption DEF EmptyEntry, RobRecords, None, Val

\* The loop starts well typed.
LEMMA InitTypes == Init => TypeInv
<1> SUFFICES ASSUME Init PROVE TypeInv
    OBVIOUS
<1>1. program \in Seq(WellFormedInstructions)
    BY ProgramsAssumption DEF Init
<1>2. rf \in [Registers -> Val] /\ mem \in [Addresses -> Val]
    BY SetupAssumption DEF Init, RegisterFiles, Memories
<1>3. 0 \in Tags /\ Ids = {}
    BY RobCapacityAssumption DEF Tags, Ids, Init
<1>4. DOMAIN EmptyFunction = {} /\ \A T : EmptyFunction \in [{} -> T]
    BY DEF EmptyFunction
<1>5. TypeOK
    BY <1>1, EmptyEntryType, <1>2, <1>3, <1>4, RobCapacityAssumption DEF Init, TypeOK, Sources
<1>6. CountdownIsCaught
    BY <1>4 DEF Init, CountdownIsCaught
<1> QED
    BY <1>5, <1>6 DEF TypeInv

\* A cycle that issues nothing keeps the types.
LEMMA StallIssueTypes == TypeInv /\ StallIssue => TypeInv'
<1> SUFFICES ASSUME TypeInv, StallIssue PROVE TypeInv'
    OBVIOUS
<1> USE DEF StallIssue, StartCycle, fetchVars, cdbVars, robVars, archVars, TypeInv
<1>1. TypeOK'
    BY DEF TypeOK, Ids
<1>2. CountdownIsCaught'
    BY DEF CountdownIsCaught
<1> QED
    BY <1>1, <1>2

\* Leaving the loop keeps the types.
LEMMA FinishTypes == TypeInv /\ Finish => TypeInv'
<1> SUFFICES ASSUME TypeInv, Finish PROVE TypeInv'
    OBVIOUS
<1> USE DEF Finish, fetchVars, cdbVars, robVars, unitVars, archVars, TypeInv
<1>1. TypeOK'
    BY DEF TypeOK, Ids
<1>2. CountdownIsCaught'
    BY DEF CountdownIsCaught
<1> QED
    BY <1>1, <1>2

\* The end of the loop body keeps the types.
LEMMA EndCycleTypes == TypeInv /\ EndCycle => TypeInv'
<1> SUFFICES ASSUME TypeInv, EndCycle PROVE TypeInv'
    OBVIOUS
<1> USE DEF EndCycle, fetchVars, cdbVars, robVars, unitVars, archVars, TypeInv
<1>1. TypeOK'
    BY DEF TypeOK, Ids
<1>2. CountdownIsCaught'
    BY DEF CountdownIsCaught
<1> QED
    BY <1>1, <1>2

\* A cycle that commits nothing keeps the types.
LEMMA NoCommitTypes == TypeInv /\ NoCommit => TypeInv'
<1> SUFFICES ASSUME TypeInv, NoCommit PROVE TypeInv'
    OBVIOUS
<1> USE DEF NoCommit, CommitStage, fetchVars, cdbVars, unitVars, archVars, TypeInv
<1>1. TypeOK'
    BY DEF TypeOK, Ids
<1>2. CountdownIsCaught'
    BY DEF CountdownIsCaught
<1> QED
    BY <1>1, <1>2

\* A cycle that broadcasts nothing keeps the types.
LEMMA NoBroadcastTypes == TypeInv /\ NoBroadcast => TypeInv'
<1> SUFFICES ASSUME TypeInv, NoBroadcast PROVE TypeInv'
    OBVIOUS
<1> USE DEF NoBroadcast, BroadcastStage, Finished, fetchVars, unitVars, archVars, TypeInv
<1>1. TypeOK'
    BY DEF TypeOK, Ids
<1>2. CountdownIsCaught'
    BY DEF CountdownIsCaught
<1> QED
    BY <1>1, <1>2

\* commitROB keeps the types: the head moves on to a slot, the count stays one.
LEMMA CommitTypes == TypeInv /\ Commit => TypeInv'
<1> SUFFICES ASSUME TypeInv, Commit PROVE TypeInv'
    OBVIOUS
<1> DEFINE entry == robEntries[robHead]
<1> USE DEF TypeInv
<1>1. entry \in RobRecords /\ robHead \in Nat
    BY DEF TypeOK, Tags
<1>2. rf' \in [Registers -> Val] /\ mem' \in [Addresses -> Val]
    BY <1>1 DEF TypeOK, Commit, RobRecords, registersAfterWrite, memoryAfterStore
<1>3. regProducer' \in [Registers -> Sources]
    BY <1>1 DEF TypeOK, Commit, Sources
<1>4. statusTable' \in [Ids' -> Statuses]
    BY DEF TypeOK, Commit, CommitStage, fetchVars, Ids, Statuses
<1>5. /\ DOMAIN lsq' \subseteq Ids' /\ lsq' \in [DOMAIN lsq' -> LsqRecords]
    <2>1. lsq' = Remove(lsq, entry.id)
        BY DEF Commit
    <2>2. lsq \in [DOMAIN lsq -> LsqRecords] /\ DOMAIN lsq \subseteq Ids
        BY DEF TypeOK
    <2>3. Ids' = Ids
        BY DEF Commit, CommitStage, fetchVars, Ids
    <2> DEFINE id == entry.id
    <2>4. lsq' = Remove(lsq, id)
        BY <2>1
    <2> HIDE DEF id
    <2> QED
        BY <2>2, <2>3, <2>4, RemoveType
<1>6. robEntries' \in [Tags -> RobRecords]
    BY EmptyEntryType DEF TypeOK, Commit
<1>7. robHead' \in Tags /\ robCount' \in 0 .. RobCapacity
    BY <1>1, SlotType, RobCapacityAssumption DEF TypeOK, Commit, HeadReady, RobEmpty
<1>8. TypeOK'
    BY <1>2, <1>3, <1>4, <1>5, <1>6, <1>7
    DEF TypeOK, Commit, CommitStage, fetchVars, cdbVars, unitVars, Ids
<1>9. CountdownIsCaught'
    BY DEF Commit, CommitStage, CountdownIsCaught
<1> QED
    BY <1>8, <1>9

\* A wake-up gives an operand a value and takes its tag.
LEMMA WokenType ==
    ASSUME NEW a \in ActiveRecords, NEW msg \in Messages
    PROVE  /\ Woken(a, msg) \in ActiveRecords
           /\ Woken(a, msg).remaining = a.remaining
           /\ Woken(a, msg).executing = a.executing
<1> DEFINE j == IF a.qj = msg.robTag THEN None ELSE a.qj
           vj == IF a.qj = msg.robTag THEN msg.value ELSE a.vj
           k == IF a.qk = msg.robTag THEN None ELSE a.qk
           vk == IF a.qk = msg.robTag THEN msg.value ELSE a.vk
<1>1. j \in Sources /\ k \in Sources /\ vj \in Val /\ vk \in Val
    BY DEF ActiveRecords, Messages, Sources
<1>2. Woken(a, msg) = [a EXCEPT !.qj = j, !.vj = vj, !.qk = k, !.vk = vk]
    BY DEF Woken
<1> HIDE DEF j, k, vj, vk
<1> QED
    BY <1>1, <1>2 DEF ActiveRecords

\* broadcastCDB keeps the types.
LEMMA BroadcastTypes ==
    ASSUME TypeInv, NEW k \in DOMAIN cdbQueue, Broadcast(k)
    PROVE  TypeInv'
<1> DEFINE msg == cdbQueue[k]
<1> USE DEF TypeInv
<1>1. msg \in Messages
    BY DEF TypeOK
<1>2. \A j \in DOMAIN active : active[j] \in ActiveRecords
    BY DEF TypeOK
<1>3. \A j \in DOMAIN active : /\ Woken(active[j], msg) \in ActiveRecords
                               /\ Woken(active[j], msg).remaining = active[j].remaining
                               /\ Woken(active[j], msg).executing = active[j].executing
    BY <1>1, <1>2, WokenType
<1>4. active' = [j \in DOMAIN active |-> Woken(active[j], msg)]
    BY DEF Broadcast
<1>5. DOMAIN active' = DOMAIN active /\ active' \in [DOMAIN active -> ActiveRecords]
    BY <1>3, <1>4
<1>6. robEntries' \in [Tags -> RobRecords]
    <2> DEFINE updated == [robEntries[msg.robTag] EXCEPT
                              !.ready = TRUE, !.writesRegister = TRUE,
                              !.rd = msg.rd, !.value = msg.value]
    <2>1. robEntries[msg.robTag] \in RobRecords /\ msg.rd \in Registers /\ msg.value \in Val
        BY <1>1 DEF TypeOK, Messages
    <2>2. updated \in RobRecords
        BY <2>1 DEF RobRecords
    <2>3. robEntries' = [robEntries EXCEPT ![msg.robTag] = updated]
        BY DEF Broadcast
    <2> HIDE DEF updated
    <2> QED
        BY <2>2, <2>3 DEF TypeOK
<1>7. /\ DOMAIN cdbQueue' \subseteq Ids' /\ cdbQueue' \in [DOMAIN cdbQueue' -> Messages]
    <2>1. cdbQueue' = Remove(cdbQueue, k)
        BY DEF Broadcast
    <2>2. cdbQueue \in [DOMAIN cdbQueue -> Messages] /\ DOMAIN cdbQueue \subseteq Ids
        BY DEF TypeOK
    <2>3. Ids' = Ids
        BY DEF Broadcast, BroadcastStage, fetchVars, Ids
    <2> QED
        BY <2>1, <2>2, <2>3, RemoveType
<1>8. TypeOK'
    BY <1>5, <1>6, <1>7
    DEF TypeOK, Broadcast, BroadcastStage, Finished, fetchVars, unitVars, archVars, Ids
<1>9. CountdownIsCaught'
    BY <1>3, <1>4, <1>5
    DEF CountdownIsCaught, Broadcast, BroadcastStage, Finished
<1> QED
    BY <1>8, <1>9

-----------------------------------------------------------------------------
(* Execute                                                                   *)

\* Every instruction has a positive latency.
LEMMA LatencyType ==
    ASSUME NEW i \in WellFormedInstructions
    PROVE  getLatency(i.op) \in Nat \ {0}
<1>1. i.op \in OpCodes
    BY DEF WellFormedInstructions, Instructions
<1>2. latencyClass(i.op) \in LatencyClasses
    BY <1>1 DEF latencyClass, LatencyClasses, OpCodes, ArithmeticOps, BranchOps
<1> QED
    BY <1>2, LatencyAssumption DEF getLatency

\* Every instruction has a functional unit.
LEMMA FUType ==
    ASSUME NEW i \in WellFormedInstructions
    PROVE  getFUType(i.op) \in FUTypes
<1>1. i.op \in OpCodes
    BY DEF WellFormedInstructions, Instructions
<1> QED
    BY <1>1 DEF getFUType, FUTypes, OpCodes, ArithmeticOps, BranchOps

\* What the types say of one instruction in flight.
LEMMA ActiveType ==
    ASSUME TypeOK, NEW k \in DOMAIN active
    PROVE  /\ active[k] \in ActiveRecords /\ k \in Ids /\ k \in Nat
           /\ active[k].instr \in WellFormedInstructions
           /\ active[k].vj \in Val /\ active[k].vk \in Val
           /\ Address(k) \in Val
<1>1. active[k] \in ActiveRecords /\ k \in Ids /\ k \in Nat
    BY DEF TypeOK, Ids
<1>2. /\ active[k].instr \in WellFormedInstructions
      /\ active[k].vj \in Val /\ active[k].vk \in Val
    BY <1>1 DEF ActiveRecords
<1> QED
    BY <1>1, <1>2, EffectiveAddressType DEF Address

(* The scan of checkLoad finds a youngest matching store when there is one.  *)
LEMMA ForwardingStoreExists ==
    ASSUME TypeOK, NEW k \in DOMAIN active, SameAddressStores(k) # {}
    PROVE  /\ ForwardingStore(k) \in SameAddressStores(k)
           /\ \A j \in SameAddressStores(k) : j <= ForwardingStore(k)
<1>1. SameAddressStores(k) \subseteq 0 .. nextId - 1 /\ nextId \in Nat
    BY DEF TypeOK, SameAddressStores, OlderStores, Ids
<1>2. \E j \in SameAddressStores(k) : \A other \in SameAddressStores(k) : other <= j
    BY <1>1, LargestExists
<1> QED
    BY <1>2 DEF ForwardingStore

\* The checks before a start leave a well-typed instruction.
LEMMA CheckedType ==
    ASSUME TypeOK, NEW k \in DOMAIN active
    PROVE  /\ Checked(k) \in ActiveRecords
           /\ Checked(k).remaining = active[k].remaining
           /\ Checked(k).executing = active[k].executing
           /\ Checked(k).instr = active[k].instr
<1> DEFINE loadPasses == active[k].instr.op = "LD" /\ OperandsReady(k) /\ LoadMayExecute(k)
           forwards == loadPasses /\ SameAddressStores(k) # {}
           computed == active[k].addressComputed \/ AddressKnown(k)
           has == IF loadPasses THEN forwards ELSE active[k].hasForwarded
           value == IF forwards THEN lsq[ForwardingStore(k)].value
                    ELSE IF loadPasses THEN 0 ELSE active[k].forwarded
<1>1. active[k] \in ActiveRecords
    BY ActiveType
<1>2. computed \in BOOLEAN
    BY <1>1 DEF ActiveRecords
<1>3. has \in BOOLEAN
    BY <1>1 DEF ActiveRecords
<1>4. value \in Val
    <2>1. CASE forwards
        <3>1. ForwardingStore(k) \in DOMAIN lsq
            BY <2>1, ForwardingStoreExists DEF SameAddressStores, OlderStores
        <3>2. lsq[ForwardingStore(k)] \in LsqRecords
            BY <3>1 DEF TypeOK
        <3> QED
            BY <3>2, <2>1 DEF LsqRecords
    <2>2. CASE ~forwards
        BY <2>2, <1>1, HalfRangeAssumption DEF ActiveRecords, Val
    <2> QED
        BY <2>1, <2>2
<1>5. Checked(k) = [active[k] EXCEPT !.addressComputed = computed,
                                     !.hasForwarded = has, !.forwarded = value]
    BY DEF Checked
<1> HIDE DEF computed, has, value
<1> QED
    BY <1>1, <1>2, <1>3, <1>4, <1>5 DEF ActiveRecords

\* Recording an address keeps the load/store queue's type.
LEMMA MarkAddressType ==
    ASSUME TypeOK, NEW k \in DOMAIN active
    PROVE  /\ DOMAIN markAddressReady(k) = DOMAIN lsq
           /\ markAddressReady(k) \in [DOMAIN lsq -> LsqRecords]
<1>1. Address(k) \in Val
    BY ActiveType
<1>2. lsq \in [DOMAIN lsq -> LsqRecords]
    BY DEF TypeOK
<1>3. \A e \in LsqRecords : [e EXCEPT !.addressReady = TRUE, !.address = Address(k)] \in LsqRecords
    BY <1>1 DEF LsqRecords
<1> QED
    BY <1>2, <1>3 DEF markAddressReady

(* Whatever a visit writes into the visited instruction and its queue entry, *)
(* if these have their types and the count stays a count, so does the state. *)
LEMMA VisitTypes ==
    ASSUME TypeInv, NEW k \in todo, Visit(k), NEW a \in ActiveRecords,
           a.remaining = 0 => a.executing,
           active' = [active EXCEPT ![k] = a],
           DOMAIN lsq' = DOMAIN lsq, lsq' \in [DOMAIN lsq -> LsqRecords],
           busyUnits' \in [FUTypes -> Nat], entered' \in [FUTypes -> Nat]
    PROVE  TypeInv'
<1>1. TypeOK
    BY DEF TypeInv
<1>2. k \in DOMAIN active
    BY <1>1 DEF TypeOK
<1>3. DOMAIN active' = DOMAIN active /\ active' \in [DOMAIN active -> ActiveRecords]
    BY <1>1 DEF TypeOK
<1>4. TypeOK'
    BY <1>1, <1>3 DEF TypeOK, Visit, fetchVars, cdbVars, robVars, archVars, Ids
<1>5. active'[k] = a /\ \A j \in DOMAIN active : j # k => active'[j] = active[j]
    BY <1>1, <1>2 DEF TypeOK
<1>6. phase' = "execute" /\ phase = "execute" /\ todo' = todo \ {k}
    BY DEF Visit
<1>7. CountdownIsCaught'
    BY <1>3, <1>5, <1>6 DEF TypeInv, CountdownIsCaught
<1> QED
    BY <1>4, <1>7 DEF TypeInv

\* Counting down keeps the count natural: no count was zero before the visit.
LEMMA ProgressTypes == ASSUME TypeInv, NEW k \in todo, Progress(k) PROVE TypeInv'
<1>1. TypeOK /\ k \in DOMAIN active
    BY DEF TypeInv, TypeOK
<1>2. active[k] \in ActiveRecords
    BY <1>1, ActiveType
<1>3. phase = "execute" /\ active[k].executing
    BY DEF Progress, Visit
<1>4. active[k].remaining \in Nat \ {0}
    BY <1>1, <1>2, <1>3 DEF TypeInv, CountdownIsCaught, ActiveRecords
<1> DEFINE a == [active[k] EXCEPT !.remaining = @ - 1]
<1>5. a \in ActiveRecords /\ a.executing
    BY <1>2, <1>3, <1>4 DEF ActiveRecords
<1>6. active' = [active EXCEPT ![k] = a] /\ Visit(k) /\ UNCHANGED <<lsq, unitVars>>
    BY DEF Progress
<1> HIDE DEF a
<1> QED
    BY <1>1, <1>5, <1>6, VisitTypes DEF TypeOK, unitVars

\* A blocked instruction keeps the types.
LEMMA HoldTypes == ASSUME TypeInv, NEW k \in todo, Hold(k) PROVE TypeInv'
<1>1. TypeOK /\ k \in DOMAIN active
    BY DEF TypeInv, TypeOK
<1>2. /\ Visit(k) /\ active' = [active EXCEPT ![k] = Checked(k)]
      /\ lsq' = markAddressReady(k) /\ UNCHANGED unitVars
      /\ phase = "execute" /\ ~active[k].executing
    BY DEF Hold, Visit
<1>3. Checked(k) \in ActiveRecords /\ Checked(k).remaining # 0
    BY <1>1, <1>2, CheckedType DEF TypeInv, CountdownIsCaught
<1>4. DOMAIN lsq' = DOMAIN lsq /\ lsq' \in [DOMAIN lsq -> LsqRecords]
    BY <1>1, <1>2, MarkAddressType
<1>5. busyUnits' \in [FUTypes -> Nat] /\ entered' \in [FUTypes -> Nat]
    BY <1>1, <1>2 DEF TypeOK, unitVars
<1> QED
    BY <1>2, <1>3, <1>4, <1>5, VisitTypes

\* A start keeps the types: the latency is positive, so one cycle less is a count.
LEMMA StartWithTypes ==
    ASSUME TypeInv, NEW k \in todo, NEW latency \in Nat \ {0}, StartWith(k, latency)
    PROVE  TypeInv'
<1>1. TypeOK /\ k \in DOMAIN active
    BY DEF TypeInv, TypeOK
<1>2. active[k] \in ActiveRecords /\ active[k].instr \in WellFormedInstructions
    BY <1>1, ActiveType
<1>3. phase = "execute" /\ ~active[k].executing
    BY DEF StartWith, Visit
<1>4. latency - 1 \in Nat
    OBVIOUS
<1> DEFINE a == [Checked(k) EXCEPT !.executing = TRUE, !.remaining = latency - 1]
<1>5. a \in ActiveRecords /\ a.executing
    BY <1>1, <1>4, CheckedType DEF ActiveRecords
<1>6. DOMAIN lsq' = DOMAIN lsq /\ lsq' \in [DOMAIN lsq -> LsqRecords]
    BY <1>1, MarkAddressType DEF StartWith
<1>7. busyUnits' \in [FUTypes -> Nat] /\ entered' \in [FUTypes -> Nat]
    <2>1. FUOf(k) \in FUTypes
        BY <1>2, FUType DEF FUOf
    <2> QED
        BY <1>1, <2>1 DEF StartWith, TypeOK
<1>8. active' = [active EXCEPT ![k] = a] /\ Visit(k)
    BY DEF StartWith
<1> HIDE DEF a
<1> QED
    BY <1>5, <1>6, <1>7, <1>8, VisitTypes

\* The latency of the machine without a cache is a positive count.
LEMMA StartLatencyType ==
    ASSUME TypeInv, NEW k \in todo, Start(k) PROVE startLatency(k) \in Nat \ {0}
<1>1. TypeOK /\ k \in DOMAIN active
    BY DEF TypeInv, TypeOK
<1>2. active[k] \in ActiveRecords /\ active[k].instr \in WellFormedInstructions
    BY <1>1, ActiveType
<1>3. phase = "execute" /\ ~active[k].executing
    BY DEF Start, StartWith, Visit
<1>4. active[k].remaining \in Nat \ {0}
    BY <1>1, <1>2, <1>3 DEF TypeInv, CountdownIsCaught, ActiveRecords
<1>5. getLatency(active[k].instr.op) \in Nat \ {0}
    BY <1>2, LatencyType
<1> QED
    BY <1>4, <1>5 DEF startLatency

-----------------------------------------------------------------------------
(* Issue                                                                     *)

\* Operand capture yields a ROB slot or none, and a machine integer.
LEMMA OperandTypes ==
    ASSUME TypeOK, NEW entries \in [Tags -> RobRecords],
           NEW r \in Registers \cup {None}
    PROVE  OperandTag(entries, r) \in Sources /\ OperandValue(entries, r) \in Val
<1>1. r # None => regProducer[r] \in Sources /\ rf[r] \in Val
    BY DEF TypeOK
<1>2. \A t \in Tags : entries[t].value \in Val
    BY DEF RobRecords
<1>3. OperandTag(entries, r) \in Sources
    BY <1>1 DEF OperandTag, Pending, Sources
<1>4. OperandValue(entries, r) \in Val
    BY <1>1, <1>2, HalfRangeAssumption DEF OperandValue, Sources, Val
<1> QED
    BY <1>3, <1>4

\* Issue keeps the types: the ROB is not full, and the new id is fresh.
LEMMA IssueTypes ==
    ASSUME TypeInv, NEW predictedTaken \in BOOLEAN, Issue(predictedTaken)
    PROVE  TypeInv'
<1> DEFINE i == NextInstruction
           a == IssuedInstruction(i, predictedTaken)
<1>1. TypeOK
    BY DEF TypeInv
<1>2. /\ Fetchable /\ ~RobFull /\ (predictedTaken => IsBranch(i))
      /\ active' = Extend(active, nextId, a)
      /\ lsq' = IF IsMemoryOp(i) THEN Extend(lsq, nextId, NewLsqEntry(i)) ELSE lsq
      /\ regProducer' = IF writesRegister(i)
                        THEN [regProducer EXCEPT ![i.rd] = robTail] ELSE regProducer
      /\ pc' = IF predictedTaken THEN i.target ELSE pc + 1
      /\ robEntries' = EntriesAllocated
      /\ robTail' = (robTail + 1) % RobCapacity
      /\ robCount' = robCount + 1
      /\ statusTable' = Extend(statusTable, nextId, NewStatus)
      /\ nextId' = nextId + 1
      /\ phase' = "execute" /\ phase = "issue" /\ todo' = DOMAIN active
      /\ entered' = [u \in FUTypes |-> 0]
      /\ UNCHANGED <<program, robHead, cdbVars, busyUnits, archVars>>
    BY DEF Issue, StartCycle
<1>3. i \in WellFormedInstructions /\ pc \in Nat
    BY <1>1, <1>2 DEF TypeOK, Fetchable, NextInstruction
<1>4. /\ i.rs1 \in Registers \cup {None} /\ i.rs2 \in Registers \cup {None}
      /\ i.rd \in Registers \cup {None} /\ i.target \in Nat \cup {None}
    BY <1>3 DEF WellFormedInstructions, Instructions
<1>5. EntriesAllocated \in [Tags -> RobRecords]
    <2> DEFINE new == [EmptyEntry EXCEPT !.busy = TRUE, !.id = nextId]
    <2>1. new \in RobRecords
        BY <1>1, EmptyEntryType DEF TypeOK, RobRecords
    <2>2. EntriesAllocated = [robEntries EXCEPT ![robTail] = new]
        BY DEF EntriesAllocated
    <2> HIDE DEF new
    <2> QED
        BY <1>1, <2>1, <2>2 DEF TypeOK
<1>6. a \in ActiveRecords /\ a.remaining # 0
    <2> DEFINE qj == OperandTag(EntriesAllocated, i.rs1)
               vj == OperandValue(EntriesAllocated, i.rs1)
               qk == OperandTag(EntriesAllocated, i.rs2)
               vk == OperandValue(EntriesAllocated, i.rs2)
    <2>1. qj \in Sources /\ vj \in Val /\ qk \in Sources /\ vk \in Val
        BY <1>1, <1>4, <1>5, OperandTypes
    <2>2. getLatency(i.op) \in Nat \ {0}
        BY <1>3, LatencyType
    <2>3. robTail \in Tags /\ 0 \in Val
        BY <1>1, HalfRangeAssumption DEF TypeOK, Val
    <2>4. a = [instr |-> i, remaining |-> getLatency(i.op), executing |-> FALSE,
               robTag |-> robTail, predictedTaken |-> predictedTaken,
               qj |-> qj, vj |-> vj, qk |-> qk, vk |-> vk,
               addressComputed |-> FALSE, hasForwarded |-> FALSE, forwarded |-> 0]
        BY DEF IssuedInstruction
    <2> HIDE DEF a, i, qj, vj, qk, vk
    <2> QED
        BY <1>3, <2>1, <2>2, <2>3, <2>4 DEF ActiveRecords
<1>7. Ids' = Ids \cup {nextId} /\ nextId \in Nat
    BY <1>1, <1>2 DEF TypeOK, Ids
<1>8. /\ DOMAIN active' = DOMAIN active \cup {nextId}
      /\ active' \in [DOMAIN active' -> ActiveRecords]
    <2>1. active \in [DOMAIN active -> ActiveRecords]
        BY <1>1 DEF TypeOK
    <2>2. active' = Extend(active, nextId, a) /\ a \in ActiveRecords
        BY <1>2, <1>6
    <2> HIDE DEF a
    <2> QED
        BY <2>1, <2>2 DEF Extend
<1>9. DOMAIN lsq' \subseteq Ids' /\ lsq' \in [DOMAIN lsq' -> LsqRecords]
    <2>1. NewLsqEntry(i) \in LsqRecords
        BY HalfRangeAssumption DEF NewLsqEntry, LsqRecords, None, Val
    <2>2. lsq \in [DOMAIN lsq -> LsqRecords] /\ DOMAIN lsq \subseteq Ids
        BY <1>1 DEF TypeOK
    <2> DEFINE entry == NewLsqEntry(i)
    <2>3. /\ Extend(lsq, nextId, entry) \in [DOMAIN lsq \cup {nextId} -> LsqRecords]
          /\ DOMAIN Extend(lsq, nextId, entry) = DOMAIN lsq \cup {nextId}
        <3>1. entry \in LsqRecords
            BY <2>1
        <3> HIDE DEF entry
        <3> QED BY <2>2, <3>1 DEF Extend
    <2> QED
        BY <1>2, <1>7, <2>2, <2>3
<1>10. statusTable' \in [Ids' -> Statuses]
    <2>1. NewStatus \in Statuses
        BY <1>3 DEF NewStatus, Statuses
    <2>2. statusTable \in [Ids -> Statuses]
        BY <1>1 DEF TypeOK
    <2> DEFINE new == NewStatus
    <2>3. Extend(statusTable, nextId, new) \in [Ids \cup {nextId} -> Statuses]
        <3>1. new \in Statuses
            BY <2>1
        <3> HIDE DEF new
        <3> QED BY <2>2, <3>1, ExtendType
    <2> QED
        BY <1>2, <1>7, <2>3
<1>11. regProducer' \in [Registers -> Sources]
    BY <1>1, <1>2 DEF TypeOK, Sources
<1>12. robTail' \in Tags /\ robCount' \in 0 .. RobCapacity
    <2>1. robTail + 1 \in Nat
        BY <1>1 DEF TypeOK, Tags
    <2> QED
        BY <1>1, <1>2, <2>1, SlotType, RobCapacityAssumption DEF TypeOK, RobFull
<1>13. pc' \in Nat \cup {None}
    BY <1>2, <1>3, <1>4
<1>14. TypeOK'
    <2> HIDE DEF a, i
    <2> QED
        BY <1>1, <1>2, <1>5, <1>7, <1>8, <1>9, <1>10, <1>11, <1>12, <1>13
        DEF TypeOK, cdbVars, archVars
<1>15. CountdownIsCaught'
    <2>1. active'[nextId] = a /\ \A j \in DOMAIN active : j # nextId => active'[j] = active[j]
        BY <1>2 DEF Extend
    <2>2. \A j \in DOMAIN active' : active'[j].remaining # 0
        <3> HIDE DEF a
        <3> QED
            BY <1>2, <1>6, <1>8, <2>1 DEF TypeInv, CountdownIsCaught
    <2> QED
        BY <2>2 DEF CountdownIsCaught
<1> QED
    BY <1>14, <1>15 DEF TypeInv

-----------------------------------------------------------------------------
(* Complete                                                                  *)

\* Units released by instructions in flight never make a count negative.
LEMMA ReleasedType ==
    ASSUME TypeOK, NEW S, S \subseteq DOMAIN active
    PROVE  Released(S) \in [FUTypes -> Nat]
<1>1. ASSUME NEW u \in FUTypes
      PROVE  Cardinality({j \in S : FUOf(j) = u}) \in Nat
    <2>1. {j \in S : FUOf(j) = u} \subseteq 0 .. nextId - 1 /\ nextId \in Nat
        BY DEF TypeOK, Ids
    <2> QED
        BY <2>1, BelowIsFinite
<1>2. busyUnits \in [FUTypes -> Nat]
    BY DEF TypeOK
<1> QED
    BY <1>1, <1>2 DEF Released

(* The parts of the state every completion leaves typed, and the count of    *)
(* the instructions that stay: the visited one was the oldest to finish.     *)
LEMMA CompleteTypes ==
    ASSUME TypeInv, NEW k \in todo, Complete(k),
           \/ todo' = todo \ {k} /\ active' = Remove(active, k)
           \/ todo' = {j \in todo : j < k} /\ active' = Remove(UpTo(active, k), k)
    PROVE  /\ todo' \subseteq DOMAIN active'
           /\ DOMAIN active' \subseteq Ids'
           /\ active' \in [DOMAIN active' -> ActiveRecords]
           /\ CountdownIsCaught'
<1>1. /\ active \in [DOMAIN active -> ActiveRecords] /\ DOMAIN active \subseteq Ids
      /\ todo \subseteq DOMAIN active /\ nextId \in Nat
    BY DEF TypeInv, TypeOK
<1>2. Ids' = Ids /\ phase = "complete" /\ phase' = "complete" /\ \A j \in todo : k <= j
    BY DEF Complete, Oldest, Ids
<1>3. \A j \in DOMAIN active : j \in Nat
    BY <1>1 DEF Ids
<1>4. /\ \A j \in DOMAIN active' : j \in DOMAIN active /\ j # k /\ active'[j] = active[j]
      /\ \/ todo' = todo \ {k} /\ DOMAIN active' = DOMAIN active \ {k}
         \/ /\ todo' = {} 
            /\ DOMAIN active' = {j \in DOMAIN active : j < k}
    <2>1. CASE todo' = todo \ {k} /\ active' = Remove(active, k)
        BY <1>1, <2>1 DEF Remove, Restrict
    <2>2. CASE todo' = {j \in todo : j < k} /\ active' = Remove(UpTo(active, k), k)
        <3>1. todo' = {}
            BY <1>1, <1>2, <1>3, <2>2
        <3> QED
            BY <1>1, <1>3, <2>2, <3>1 DEF Remove, UpTo, Restrict
    <2> QED
        BY <2>1, <2>2
<1>5. active' \in [DOMAIN active' -> ActiveRecords]
    <2>1. active' = [j \in DOMAIN active' |-> active'[j]]
        BY DEF Remove, Restrict
    <2> QED
        BY <1>1, <1>4, <2>1
<1>6. \A j \in DOMAIN active : active[j].remaining = 0 => active[j].executing /\ j \in todo
    BY <1>2 DEF TypeInv, CountdownIsCaught
<1>7. \A j \in DOMAIN active' : active'[j].remaining = 0 => active'[j].executing /\ j \in todo'
    <2> SUFFICES ASSUME NEW j \in DOMAIN active', active'[j].remaining = 0
                 PROVE  active'[j].executing /\ j \in todo'
        OBVIOUS
    <2>1. active[j].executing /\ j \in todo /\ k <= j /\ j # k /\ active'[j] = active[j]
        BY <1>2, <1>4, <1>6
    <2> QED
        BY <1>1, <1>3, <1>4, <2>1
<1>8. CountdownIsCaught'
    BY <1>2, <1>7 DEF CountdownIsCaught
<1> QED
    BY <1>1, <1>2, <1>4, <1>5, <1>8

\* A completion without a flush keeps the types if what it produces is typed.
LEMMA RetireTypes ==
    ASSUME TypeInv, NEW k \in todo, Complete(k), Retire(k),
           DOMAIN lsq' \subseteq Ids, lsq' \in [DOMAIN lsq' -> LsqRecords],
           DOMAIN cdbQueue' \subseteq Ids, cdbQueue' \in [DOMAIN cdbQueue' -> Messages],
           nextOrder' \in Nat, robEntries' \in [Tags -> RobRecords]
    PROVE  TypeInv'
<1>1. TypeOK /\ Ids' = Ids
    BY DEF TypeInv, Complete, Ids
<1>2. todo' = todo \ {k} /\ active' = Remove(active, k)
    BY DEF Retire
<1>3. busyUnits' \in [FUTypes -> Nat]
    BY <1>1, ReleasedType DEF Retire, TypeOK
<1>4. TypeOK'
    BY <1>1, <1>2, <1>3, CompleteTypes DEF TypeOK, Complete, Retire, archVars
<1> QED
    BY <1>2, <1>4, CompleteTypes DEF TypeInv

\* Every result of a finished register writer is a machine integer.
LEMMA ResultsType ==
    ASSUME TypeOK, NEW k \in DOMAIN active, writesRegister(active[k].instr)
    PROVE  Results(k) \subseteq Val
<1>1. /\ active[k] \in ActiveRecords /\ active[k].instr \in WellFormedInstructions
      /\ active[k].vj \in Val /\ active[k].vk \in Val /\ active[k].forwarded \in Val
    BY ActiveType DEF ActiveRecords
<1>2. active[k].instr.op # "LD" =>
         computeResult(active[k].instr, active[k].vj, active[k].vk) \in Val
    BY <1>1, ComputeResultType
<1>3. loadValues(mem, Address(k)) \subseteq Val
    BY DEF loadValues, TypeOK
<1> QED
    BY <1>1, <1>2, <1>3 DEF Results

\* Queueing a result for the bus keeps the types.
LEMMA CompleteRegisterTypes ==
    ASSUME TypeInv, NEW k \in todo, CompleteRegister(k)
    PROVE  TypeInv'
<1>1. TypeOK /\ k \in DOMAIN active /\ Complete(k) /\ Retire(k) /\ k \in Ids
    BY DEF TypeInv, TypeOK, CompleteRegister
<1>2. /\ active[k] \in ActiveRecords /\ active[k].instr \in WellFormedInstructions
      /\ writesRegister(active[k].instr)
    BY <1>1, ActiveType DEF CompleteRegister
<1>3. PICK v \in Results(k) : cdbQueue' = Extend(cdbQueue, k,
             [robTag |-> active[k].robTag, rd |-> active[k].instr.rd,
              value |-> v, order |-> nextOrder])
    BY DEF CompleteRegister
<1> DEFINE msg == [robTag |-> active[k].robTag, rd |-> active[k].instr.rd,
                   value |-> v, order |-> nextOrder]
<1>4. msg \in Messages
    <2>1. v \in Val
        BY <1>1, <1>2, <1>3, ResultsType
    <2>2. active[k].robTag \in Tags /\ active[k].instr.rd \in Registers
        BY <1>2 DEF ActiveRecords, WellFormedInstructions, Instructions, writesRegister
    <2> QED
        BY <1>1, <2>1, <2>2 DEF Messages, TypeOK
<1>5. DOMAIN cdbQueue' \subseteq Ids /\ cdbQueue' \in [DOMAIN cdbQueue' -> Messages]
    <2>1. cdbQueue \in [DOMAIN cdbQueue -> Messages] /\ DOMAIN cdbQueue \subseteq Ids
        BY <1>1 DEF TypeOK
    <2>2. cdbQueue' = Extend(cdbQueue, k, msg) /\ msg \in Messages
        BY <1>3, <1>4
    <2> HIDE DEF msg
    <2> QED
        BY <1>1, <2>1, <2>2 DEF Extend
<1>6. /\ DOMAIN lsq' \subseteq Ids /\ lsq' \in [DOMAIN lsq' -> LsqRecords]
      /\ nextOrder' \in Nat /\ robEntries' \in [Tags -> RobRecords]
    BY <1>1 DEF CompleteRegister, TypeOK
<1> QED
    BY <1>1, <1>5, <1>6, RetireTypes

\* Completing a store keeps the types.
LEMMA CompleteStoreTypes ==
    ASSUME TypeInv, NEW k \in todo, CompleteStore(k)
    PROVE  TypeInv'
<1>1. TypeOK /\ k \in DOMAIN active /\ Complete(k) /\ Retire(k)
    BY DEF TypeInv, TypeOK, CompleteStore
<1>2. active[k].robTag \in Tags /\ active[k].vk \in Val /\ Address(k) \in Val
    BY <1>1, ActiveType DEF ActiveRecords
<1> DEFINE entry == [robEntries[active[k].robTag] EXCEPT
                        !.ready = TRUE, !.writesMemory = TRUE,
                        !.address = Address(k), !.memoryValue = active[k].vk]
           slot == [lsq[k] EXCEPT !.addressReady = TRUE, !.address = Address(k),
                                  !.valueReady = TRUE, !.value = active[k].vk]
<1>3. robEntries' \in [Tags -> RobRecords]
    <2>1. robEntries[active[k].robTag] \in RobRecords
        BY <1>1, <1>2 DEF TypeOK
    <2>2. entry \in RobRecords
        BY <1>2, <2>1 DEF RobRecords
    <2>3. robEntries' = [robEntries EXCEPT ![active[k].robTag] = entry]
        BY DEF CompleteStore
    <2> HIDE DEF entry
    <2> QED
        BY <1>1, <2>2, <2>3 DEF TypeOK
<1>4. DOMAIN lsq' \subseteq Ids /\ lsq' \in [DOMAIN lsq' -> LsqRecords]
    <2>1. lsq \in [DOMAIN lsq -> LsqRecords] /\ DOMAIN lsq \subseteq Ids
        BY <1>1 DEF TypeOK
    <2>2. k \in DOMAIN lsq => slot \in LsqRecords
        <3> SUFFICES ASSUME k \in DOMAIN lsq PROVE slot \in LsqRecords
            OBVIOUS
        <3>1. lsq[k] \in LsqRecords
            BY <2>1
        <3> QED
            BY <1>2, <3>1 DEF LsqRecords
    <2>3. lsq' = [lsq EXCEPT ![k] = slot]
        BY DEF CompleteStore
    <2> HIDE DEF slot
    <2> QED
        BY <2>1, <2>2, <2>3
<1>5. /\ DOMAIN cdbQueue' \subseteq Ids /\ cdbQueue' \in [DOMAIN cdbQueue' -> Messages]
      /\ nextOrder' \in Nat
    BY <1>1 DEF CompleteStore, cdbVars, TypeOK
<1> QED
    BY <1>1, <1>3, <1>4, <1>5, RetireTypes

\* Marking a branch's entry ready keeps the ROB's type.
LEMMA BranchReadyType ==
    ASSUME TypeOK, NEW k \in DOMAIN active
    PROVE  BranchReady(k) \in [Tags -> RobRecords]
<1>1. robEntries \in [Tags -> RobRecords]
    BY DEF TypeOK
<1>2. \A e \in RobRecords : [e EXCEPT !.ready = TRUE] \in RobRecords
    BY DEF RobRecords
<1> QED
    BY <1>1, <1>2 DEF BranchReady

\* A correctly predicted branch keeps the types.
LEMMA ResolveCorrectTypes ==
    ASSUME TypeInv, NEW k \in todo, ResolveCorrect(k)
    PROVE  TypeInv'
<1>1. TypeOK /\ k \in DOMAIN active /\ Complete(k) /\ Retire(k)
    BY DEF TypeInv, TypeOK, ResolveCorrect
<1>2. robEntries' \in [Tags -> RobRecords]
    BY <1>1, BranchReadyType DEF ResolveCorrect
<1>3. /\ DOMAIN lsq' \subseteq Ids /\ lsq' \in [DOMAIN lsq' -> LsqRecords]
      /\ DOMAIN cdbQueue' \subseteq Ids /\ cdbQueue' \in [DOMAIN cdbQueue' -> Messages]
      /\ nextOrder' \in Nat
    BY <1>1 DEF ResolveCorrect, cdbVars, TypeOK
<1> QED
    BY <1>1, <1>2, <1>3, RetireTypes

(* What the recovery from a misprediction rebuilds.                          *)
LEMMA EntriesKeptType ==
    ASSUME TypeOK, NEW k \in DOMAIN active
    PROVE  EntriesKept(k) \in [Tags -> RobRecords]
<1>1. BranchReady(k) \in [Tags -> RobRecords]
    BY BranchReadyType
<1> QED
    BY <1>1, EmptyEntryType DEF EntriesKept

\* A flush keeps at most what the ROB held.
LEMMA KeptCountType ==
    ASSUME TypeOK, NEW k
    PROVE  KeptCount(k) \in 0 .. robCount
<1> DEFINE kept == {n \in 0 .. robCount - 1 :
                       (robHead + n) % RobCapacity \notin FlushedSlots(k)}
<1>1. robCount \in Nat /\ kept \subseteq 0 .. robCount - 1
    BY RobCapacityAssumption DEF TypeOK
<1>2. Cardinality(kept) \in Nat /\ Cardinality(kept) <= robCount
    BY <1>1, BelowIsFinite
<1> QED
    BY <1>1, <1>2 DEF KeptCount

\* Recovery from a misprediction keeps the types.
LEMMA ResolveMispredictedTypes ==
    ASSUME TypeInv, NEW k \in todo, ResolveMispredicted(k)
    PROVE  TypeInv'
<1>1. TypeOK /\ k \in DOMAIN active /\ k \in Ids /\ Complete(k)
    BY DEF TypeInv, TypeOK, ResolveMispredicted
<1>2. Ids' = Ids
    BY <1>1 DEF Complete, Ids
<1>3. pc' \in Nat \cup {None}
    <2>1. active[k].instr.target \in Nat \cup {None}
        BY <1>1, ActiveType DEF WellFormedInstructions, Instructions
    <2>2. statusTable[k].staticPc \in Nat
        BY <1>1 DEF TypeOK, Statuses
    <2> QED
        BY <2>1, <2>2 DEF ResolveMispredicted, RedirectedPc
<1>4. statusTable' \in [Ids -> Statuses]
    <2>1. \A e \in Statuses : [e EXCEPT !.flushed = TRUE] \in Statuses
        BY DEF Statuses
    <2>2. statusTable \in [Ids -> Statuses]
        BY <1>1 DEF TypeOK
    <2> QED
        BY <2>1, <2>2 DEF ResolveMispredicted, StatusesFlushed
<1>5. busyUnits' \in [FUTypes -> Nat]
    <2>1. {k} \cup {j \in DOMAIN active : j > k /\ active[j].executing} \subseteq DOMAIN active
        BY <1>1
    <2> QED
        BY <1>1, <2>1, ReleasedType DEF ResolveMispredicted
<1>6. /\ todo' = {j \in todo : j < k} /\ active' = Remove(UpTo(active, k), k)
      /\ cdbQueue' = UpTo(cdbQueue, k) /\ lsq' = UpTo(lsq, k)
      /\ robEntries' = EntriesKept(k) /\ robCount' = KeptCount(k)
      /\ robTail' = (robHead + KeptCount(k)) % RobCapacity
      /\ regProducer' = ProducersKept(k)
      /\ UNCHANGED <<nextOrder, program, nextId, phase, robHead, entered, archVars>>
    BY <1>1 DEF ResolveMispredicted, Complete
<1>7. /\ DOMAIN cdbQueue' \subseteq Ids /\ cdbQueue' \in [DOMAIN cdbQueue' -> Messages]
      /\ DOMAIN lsq' \subseteq Ids /\ lsq' \in [DOMAIN lsq' -> LsqRecords]
    <2>1. /\ DOMAIN cdbQueue \subseteq Ids /\ cdbQueue \in [DOMAIN cdbQueue -> Messages]
          /\ DOMAIN lsq \subseteq Ids /\ lsq \in [DOMAIN lsq -> LsqRecords]
        BY <1>1 DEF TypeOK
    <2> QED
        BY <1>6, <2>1, UpToType
<1>8. robEntries' \in [Tags -> RobRecords]
    BY <1>1, <1>6, EntriesKeptType
<1>9. robCount' \in 0 .. RobCapacity /\ robTail' \in Tags
    <2>1. KeptCount(k) \in 0 .. robCount /\ robCount \in 0 .. RobCapacity
        BY <1>1, KeptCountType DEF TypeOK
    <2>2. robHead + KeptCount(k) \in Nat
        BY <1>1, <2>1 DEF TypeOK, Tags
    <2> QED
        BY <1>6, <2>1, <2>2, SlotType, RobCapacityAssumption
<1>10. regProducer' \in [Registers -> Sources]
    BY <1>1, <1>6 DEF ProducersKept, TypeOK, Sources
<1>11. /\ todo' \subseteq DOMAIN active' /\ DOMAIN active' \subseteq Ids'
       /\ active' \in [DOMAIN active' -> ActiveRecords] /\ CountdownIsCaught'
    BY <1>1, <1>6, CompleteTypes
<1>12. TypeOK'
    BY <1>1, <1>2, <1>3, <1>4, <1>5, <1>6, <1>7, <1>8, <1>9, <1>10, <1>11
    DEF TypeOK, archVars
<1> QED
    BY <1>11, <1>12 DEF TypeInv

-----------------------------------------------------------------------------
(* Every step                                                                *)

(***************************************************************************)
(* The machine with the timing left open: an instruction may be held back   *)
(* for any reason and may start with any positive latency.  The machine of  *)
(* Tomasulo.tla is one case, the one with a data cache another; what is      *)
(* proved of this one holds of both.                                        *)
(***************************************************************************)
VisitAnyTiming(k) ==
    \/ Progress(k)
    \/ Hold(k)
    \/ \E latency \in Nat \ {0} : StartWith(k, latency)

NextAnyTiming ==
    \/ \E predictedTaken \in BOOLEAN : Issue(predictedTaken)
    \/ StallIssue
    \/ Finish
    \/ \E k \in todo : VisitAnyTiming(k)
    \/ Commit \/ NoCommit
    \/ \E k \in DOMAIN cdbQueue : Broadcast(k)
    \/ NoBroadcast
    \/ \E k \in todo :
         \/ CompleteRegister(k) \/ CompleteStore(k)
         \/ ResolveCorrect(k) \/ ResolveMispredicted(k)
    \/ EndCycle
    \/ Done

\* A stutter keeps the types.
LEMMA StutterTypes == TypeInv /\ UNCHANGED vars => TypeInv'
BY DEF TypeInv, TypeOK, CountdownIsCaught, Ids, vars, fetchVars, cdbVars, robVars,
       unitVars, archVars

\* Whatever the timing, every step keeps the types and the countdown.
LEMMA AnyTimingTypes == TypeInv /\ [NextAnyTiming]_vars => TypeInv'
<1> SUFFICES ASSUME TypeInv, [NextAnyTiming]_vars PROVE TypeInv'
    OBVIOUS
<1>1. ASSUME NEW predictedTaken \in BOOLEAN, Issue(predictedTaken) PROVE TypeInv'
    BY <1>1, IssueTypes
<1>2. CASE StallIssue
    BY <1>2, StallIssueTypes
<1>3. CASE Finish
    BY <1>3, FinishTypes
<1>4. ASSUME NEW k \in todo, VisitAnyTiming(k) PROVE TypeInv'
    BY <1>4, ProgressTypes, HoldTypes, StartWithTypes DEF VisitAnyTiming
<1>5. CASE Commit \/ NoCommit
    BY <1>5, CommitTypes, NoCommitTypes
<1>6. ASSUME NEW k \in DOMAIN cdbQueue, Broadcast(k) PROVE TypeInv'
    BY <1>6, BroadcastTypes
<1>7. CASE NoBroadcast
    BY <1>7, NoBroadcastTypes
<1>8. ASSUME NEW k \in todo,
             \/ CompleteRegister(k) \/ CompleteStore(k)
             \/ ResolveCorrect(k) \/ ResolveMispredicted(k)
      PROVE  TypeInv'
    BY <1>8, CompleteRegisterTypes, CompleteStoreTypes, ResolveCorrectTypes,
       ResolveMispredictedTypes
<1>9. CASE EndCycle
    BY <1>9, EndCycleTypes
<1>10. CASE Done \/ UNCHANGED vars
    BY <1>10, StutterTypes DEF Done
<1> QED
    BY <1>1, <1>2, <1>3, <1>4, <1>5, <1>6, <1>7, <1>8, <1>9, <1>10 DEF NextAnyTiming

\* The latencies of ArchitectureConfig are one timing.
LEMMA NextIsAnyTiming == TypeInv /\ [Next]_vars => [NextAnyTiming]_vars
<1>1. ASSUME TypeInv, NEW k \in todo, Progress(k) \/ Wait(k) \/ Start(k)
      PROVE  VisitAnyTiming(k)
    <2>1. CASE Start(k)
        BY <1>1, <2>1, StartLatencyType DEF VisitAnyTiming, Start
    <2> QED
        BY <1>1, <2>1 DEF VisitAnyTiming, Wait
<1> QED
    BY <1>1 DEF Next, NextAnyTiming

\* Every step keeps the types and the countdown.
LEMMA NextTypes == TypeInv /\ [Next]_vars => TypeInv'
BY AnyTimingTypes, NextIsAnyTiming

(***************************************************************************)
(* Every variable keeps its type, for every machine, program and setup: no  *)
(* count leaves its range, no tag leaves the reorder buffer and no index    *)
(* points past the status table.                                            *)
(***************************************************************************)
THEOREM TypeCorrect == Spec => []TypeOK
<1>1. TypeInv => TypeOK
    BY DEF TypeInv
<1> QED
    BY <1>1, InitTypes, NextTypes, PTL DEF Spec

(***************************************************************************)
(* No instruction's cycle count passes zero unnoticed: the completion loop  *)
(* meets every instruction in the cycle in which its count reaches zero.    *)
(***************************************************************************)
THEOREM CountdownCaught == Spec => []CountdownIsCaught
<1>1. TypeInv => CountdownIsCaught
    BY DEF TypeInv
<1> QED
    BY <1>1, InitTypes, NextTypes, PTL DEF Spec

-----------------------------------------------------------------------------
(* The circular reorder buffer is a window of the program in program order.  *)
(* RobIsWindow is inductive once the ids it orders are known to have been     *)
(* handed out: a new entry then is younger than every other, a commit drops   *)
(* the first position, and a flush keeps an initial segment of positions.     *)
(* Every issued instruction then has one fate, and only a mispredicted branch *)
(* takes one out of flight without committing it: inductive over the window,  *)
(* with the fact that the completion loop visits finished instructions only.  *)

BusyEntriesHaveIds == \A t \in Tags : robEntries[t].busy => robEntries[t].id \in Ids

RobInv == TypeInv /\ RobIsWindow /\ BusyEntriesHaveIds

-----------------------------------------------------------------------------
(* Positions and slots                                                       *)

\* The slot of a position is found by one subtraction at most.
LEMMA SlotFacts ==
    ASSUME NEW h \in Tags, NEW n \in 0 .. RobCapacity - 1
    PROVE  /\ (h + n) % RobCapacity \in Tags
           /\ (h + n) % RobCapacity = IF h + n < RobCapacity THEN h + n
                                      ELSE h + n - RobCapacity
BY RobCapacityAssumption DEF Tags

\* Different positions of a window have different slots.
LEMMA SlotsDiffer ==
    ASSUME NEW h \in Tags, NEW m \in 0 .. RobCapacity - 1, NEW n \in 0 .. RobCapacity - 1,
           m # n
    PROVE  (h + m) % RobCapacity # (h + n) % RobCapacity
<1>1. h \in 0 .. RobCapacity - 1 /\ RobCapacity \in Nat \ {0}
    BY RobCapacityAssumption DEF Tags
<1> QED
    BY <1>1, SlotFacts

\* Position 0 is the head.
LEMMA HeadSlot ==
    ASSUME NEW h \in Tags
    PROVE  (h + 0) % RobCapacity = h
BY RobCapacityAssumption DEF Tags

\* When the head moves on, every position moves down by one.
LEMMA SlotAfterHeadMoves ==
    ASSUME NEW h \in Tags, NEW n \in 0 .. RobCapacity - 1
    PROVE  (((h + 1) % RobCapacity) + n) % RobCapacity = (h + n + 1) % RobCapacity
BY RobCapacityAssumption DEF Tags

\* The slot after a position's is the next position's.
LEMMA TailAdvances ==
    ASSUME NEW h \in Tags, NEW n \in 0 .. RobCapacity - 1
    PROVE  (((h + n) % RobCapacity) + 1) % RobCapacity = (h + (n + 1)) % RobCapacity
BY RobCapacityAssumption DEF Tags

-----------------------------------------------------------------------------
(* Steps that neither add nor remove an entry                                *)

SameWindow ==
    /\ robHead' = robHead /\ robTail' = robTail /\ robCount' = robCount
    /\ nextId' = nextId
    /\ \A t \in Tags : /\ robEntries'[t].busy = robEntries[t].busy
                       /\ robEntries'[t].id = robEntries[t].id

\* A step that leaves head, tail, count and owners alone keeps the window.
LEMMA SameWindowKeeps == RobInv /\ SameWindow => RobIsWindow' /\ BusyEntriesHaveIds'
<1> SUFFICES ASSUME RobInv, SameWindow PROVE RobIsWindow' /\ BusyEntriesHaveIds'
    OBVIOUS
<1>1. RobCapacity \in Nat \ {0} /\ robHead \in Tags /\ robCount \in 0 .. RobCapacity
    BY RobCapacityAssumption DEF RobInv, TypeInv, TypeOK
<1>2. \A n \in Window : Slot(n) \in Tags
    BY <1>1, SlotFacts DEF Window, Slot
<1>3. Window' = Window /\ RobSlots' = RobSlots /\ \A n \in Window : Slot(n)' = Slot(n)
    BY DEF SameWindow, Window, RobSlots, Slot
<1>4. \A n \in Window : Entry(n)'.id = Entry(n).id
    BY <1>2, <1>3 DEF SameWindow, Entry, Slot
<1>5. RobIsWindow'
    BY <1>3, <1>4 DEF RobInv, RobIsWindow, SameWindow
<1>6. BusyEntriesHaveIds'
    BY DEF RobInv, BusyEntriesHaveIds, SameWindow, Ids
<1> QED
    BY <1>5, <1>6

\* A broadcast fills in a slot but does not change its owner.
LEMMA BroadcastSameWindow ==
    ASSUME TypeInv, NEW k \in DOMAIN cdbQueue, Broadcast(k)
    PROVE  SameWindow
<1>1. robEntries \in [Tags -> RobRecords]
    BY DEF TypeInv, TypeOK
<1>2. robEntries' = [robEntries EXCEPT ![cdbQueue[k].robTag] =
                        [robEntries[cdbQueue[k].robTag] EXCEPT
                            !.ready = TRUE, !.writesRegister = TRUE,
                            !.rd = cdbQueue[k].rd, !.value = cdbQueue[k].value]]
    BY DEF Broadcast
<1>3. UNCHANGED <<robHead, robTail, robCount, nextId>>
    BY DEF Broadcast, BroadcastStage, fetchVars
<1> QED
    BY <1>1, <1>2, <1>3 DEF SameWindow, RobRecords

\* A store's completion fills in a slot but does not change its owner.
LEMMA CompleteStoreSameWindow ==
    ASSUME TypeInv, NEW k \in todo, CompleteStore(k)
    PROVE  SameWindow
<1>1. robEntries \in [Tags -> RobRecords]
    BY DEF TypeInv, TypeOK
<1>2. robEntries' = [robEntries EXCEPT ![active[k].robTag] =
                        [robEntries[active[k].robTag] EXCEPT
                            !.ready = TRUE, !.writesMemory = TRUE,
                            !.address = Address(k), !.memoryValue = active[k].vk]]
    BY DEF CompleteStore
<1>3. UNCHANGED <<robHead, robTail, robCount, nextId>>
    BY DEF CompleteStore, Complete, Retire
<1> QED
    BY <1>1, <1>2, <1>3 DEF SameWindow, RobRecords

\* A correct branch marks a slot but does not change its owner.
LEMMA ResolveCorrectSameWindow ==
    ASSUME TypeInv, NEW k \in todo, ResolveCorrect(k)
    PROVE  SameWindow
<1>1. robEntries \in [Tags -> RobRecords] /\ robEntries' = BranchReady(k)
    BY DEF TypeInv, TypeOK, ResolveCorrect
<1>2. UNCHANGED <<robHead, robTail, robCount, nextId>>
    BY DEF ResolveCorrect, Complete, Retire
<1> QED
    BY <1>1, <1>2 DEF SameWindow, RobRecords, BranchReady

\* The remaining steps do not touch the ROB.
LEMMA OthersSameWindow ==
    ASSUME TypeInv,
           \/ StallIssue \/ Finish \/ NoCommit \/ NoBroadcast \/ EndCycle \/ Done
           \/ UNCHANGED vars
           \/ \E k \in todo : VisitAnyTiming(k) \/ CompleteRegister(k)
    PROVE  SameWindow
<1>1. UNCHANGED <<robEntries, robHead, robTail, robCount, nextId>>
    BY DEF StallIssue, Finish, NoCommit, CommitStage, NoBroadcast, BroadcastStage, EndCycle,
       Done, VisitAnyTiming, Progress, Hold, StartWith, Visit, CompleteRegister, Complete, Retire, vars,
       fetchVars, robVars
<1> QED
    BY <1>1 DEF SameWindow

-----------------------------------------------------------------------------
(* Steps that do                                                             *)

\* The empty ROB is an empty window.
LEMMA InitWindow == Init => RobIsWindow /\ BusyEntriesHaveIds
<1> SUFFICES ASSUME Init PROVE RobIsWindow /\ BusyEntriesHaveIds
    OBVIOUS
<1>1. /\ robHead = 0 /\ robTail = 0 /\ robCount = 0
      /\ \A t \in Tags : robEntries[t].busy = FALSE
    BY DEF Init, EmptyEntry
<1>2. 0 % RobCapacity = 0
    BY RobCapacityAssumption
<1>3. RobIsWindow
    BY <1>1, <1>2 DEF RobIsWindow, RobSlots, Window
<1> QED
    BY <1>1, <1>3 DEF BusyEntriesHaveIds

\* allocateROB adds the tail's slot, and the youngest id, to the window.
LEMMA IssueWindow ==
    ASSUME RobInv, NEW predictedTaken \in BOOLEAN, Issue(predictedTaken)
    PROVE  RobIsWindow' /\ BusyEntriesHaveIds'
<1>1. /\ RobCapacity \in Nat \ {0} /\ robHead \in Tags /\ robTail \in Tags
      /\ robCount \in 0 .. RobCapacity - 1 /\ nextId \in Nat
      /\ robEntries \in [Tags -> RobRecords]
    BY RobCapacityAssumption DEF RobInv, TypeInv, TypeOK, Issue, RobFull
<1>2. /\ robEntries' = EntriesAllocated /\ robHead' = robHead
      /\ robTail' = (robTail + 1) % RobCapacity
      /\ robCount' = robCount + 1 /\ nextId' = nextId + 1
    BY DEF Issue
<1>3. /\ robTail = Slot(robCount)
      /\ \A t \in Tags : robEntries[t].busy <=> t \in RobSlots
      /\ \A m, n \in Window : m < n => Entry(m).id < Entry(n).id
    BY DEF RobInv, RobIsWindow, Slot
<1>4. /\ robEntries'[robTail].busy = TRUE /\ robEntries'[robTail].id = nextId
      /\ \A t \in Tags : t # robTail => robEntries'[t] = robEntries[t]
    BY <1>1, <1>2 DEF EntriesAllocated, EmptyEntry
<1>5. \A n \in Window : Slot(n) \in Tags /\ Slot(n) # robTail
    <2> SUFFICES ASSUME NEW n \in Window PROVE Slot(n) \in Tags /\ Slot(n) # robTail
        OBVIOUS
    <2>1. n \in 0 .. RobCapacity - 1 /\ n # robCount
        BY <1>1 DEF Window
    <2>2. (robHead + n) % RobCapacity # (robHead + robCount) % RobCapacity
        BY <1>1, <2>1, SlotsDiffer
    <2> QED
        BY <1>1, <1>3, <2>1, <2>2, SlotFacts DEF Slot
<1>6. Window' = Window \cup {robCount} /\ \A n : Slot(n)' = Slot(n)
    BY <1>1, <1>2 DEF Window, Slot
<1>7. RobSlots' = RobSlots \cup {robTail} /\ \A n \in Window : Slot(n) \in RobSlots
    <2>1. RobSlots' = {(robHead + n) % RobCapacity : n \in 0 .. robCount}
        BY <1>1, <1>2 DEF RobSlots
    <2>2. 0 .. robCount = Window \cup {robCount}
        BY <1>1 DEF Window
    <2>3. RobSlots = {(robHead + n) % RobCapacity : n \in Window}
        BY DEF RobSlots, Window
    <2> QED
        BY <2>1, <2>2, <2>3, <1>3 DEF Slot
<1>8. /\ \A n \in Window : Entry(n)' = Entry(n)
      /\ \A n \in Window' \ Window : Entry(n)'.id = nextId
    <2>1. \A n : Entry(n)' = robEntries'[Slot(n)]
        BY <1>6 DEF Entry
    <2>2. \A n \in Window' \ Window : Slot(n) = robTail
        BY <1>3, <1>6
    <2> QED
        BY <1>4, <1>5, <2>1, <2>2 DEF Entry
<1>9. \A n \in Window : Entry(n).id \in Nat /\ Entry(n).id < nextId
    BY <1>1, <1>3, <1>5, <1>7 DEF RobInv, BusyEntriesHaveIds, Ids, Entry
<1>10. RobIsWindow'
    <2>1. robTail' = (robHead' + robCount') % RobCapacity
        BY <1>1, <1>2, <1>3, TailAdvances DEF Slot
    <2>2. \A t \in Tags : robEntries'[t].busy <=> t \in RobSlots'
        BY <1>3, <1>4, <1>7
    <2>3. \A m, n \in Window' : m < n => Entry(m)'.id < Entry(n)'.id
        <3> SUFFICES ASSUME NEW m \in Window', NEW n \in Window', m < n
                     PROVE  Entry(m)'.id < Entry(n)'.id
            OBVIOUS
        <3>1. m \in Window
            BY <1>1, <1>6 DEF Window
        <3>2. CASE n \in Window
            BY <1>3, <1>8, <3>1, <3>2
        <3>3. CASE n \notin Window
            BY <1>8, <1>9, <3>1, <3>3
        <3> QED
            BY <3>2, <3>3
    <2> QED
        BY <2>1, <2>2, <2>3 DEF RobIsWindow
<1>11. BusyEntriesHaveIds'
    BY <1>1, <1>2, <1>4 DEF RobInv, BusyEntriesHaveIds, Ids
<1> QED
    BY <1>10, <1>11

\* commitROB takes the head's slot out of the window.
LEMMA CommitWindow == RobInv /\ Commit => RobIsWindow' /\ BusyEntriesHaveIds'
<1> SUFFICES ASSUME RobInv, Commit PROVE RobIsWindow' /\ BusyEntriesHaveIds'
    OBVIOUS
<1>1. /\ RobCapacity \in Nat \ {0} /\ robHead \in Tags /\ robTail \in Tags
      /\ robCount \in 1 .. RobCapacity /\ robEntries \in [Tags -> RobRecords]
    BY RobCapacityAssumption DEF RobInv, TypeInv, TypeOK, Commit, HeadReady, RobEmpty
<1>2. /\ robEntries' = [robEntries EXCEPT ![robHead] = EmptyEntry]
      /\ robHead' = (robHead + 1) % RobCapacity
      /\ robCount' = robCount - 1 /\ robTail' = robTail /\ nextId' = nextId
    BY DEF Commit, CommitStage, fetchVars
<1>3. /\ robTail = (robHead + robCount) % RobCapacity
      /\ \A t \in Tags : robEntries[t].busy <=> t \in RobSlots
      /\ \A m, n \in Window : m < n => Entry(m).id < Entry(n).id
    BY DEF RobInv, RobIsWindow
<1>4. robEntries'[robHead].busy = FALSE /\ \A t \in Tags : t # robHead => robEntries'[t] = robEntries[t]
    BY <1>1, <1>2 DEF EmptyEntry
<1>5. Slot(0) = robHead
    BY <1>1, HeadSlot DEF Slot
<1>6. \A n \in Window' : /\ n + 1 \in Window /\ Slot(n)' = Slot(n + 1)
                         /\ Slot(n + 1) \in Tags /\ Slot(n + 1) # robHead
    <2> SUFFICES ASSUME NEW n \in Window'
                 PROVE  /\ n + 1 \in Window /\ Slot(n)' = Slot(n + 1)
                        /\ Slot(n + 1) \in Tags /\ Slot(n + 1) # robHead
        OBVIOUS
    <2>1. n \in 0 .. robCount - 2 /\ n + 1 \in Window
        BY <1>1, <1>2 DEF Window
    <2>2. /\ n \in 0 .. RobCapacity - 1 /\ n + 1 \in 0 .. RobCapacity - 1
          /\ 0 \in 0 .. RobCapacity - 1 /\ n + 1 # 0
        BY <1>1, <2>1
    <2>3. Slot(n)' = (robHead + n + 1) % RobCapacity
        BY <1>1, <1>2, <2>2, SlotAfterHeadMoves DEF Slot
    <2>4. robHead + n + 1 = robHead + (n + 1)
        BY <1>1, <2>2 DEF Tags
    <2> QED
        BY <1>1, <1>5, <2>1, <2>2, <2>3, <2>4, SlotFacts, SlotsDiffer DEF Slot
<1>7. \A n \in Window' : Entry(n)' = Entry(n + 1)
    BY <1>4, <1>6 DEF Entry
<1>8. RobSlots' = RobSlots \ {robHead}
    <2>1. RobSlots' = {Slot(n)' : n \in Window'}
        BY <1>2 DEF RobSlots, Slot, Window
    <2>2. RobSlots = {Slot(n) : n \in Window}
        BY DEF RobSlots, Slot, Window
    <2>3. \A n \in Window : n = 0 \/ (n - 1 \in Window' /\ n - 1 + 1 = n)
        BY <1>1, <1>2 DEF Window
    <2> QED
        BY <1>5, <1>6, <2>1, <2>2, <2>3
<1>9. RobIsWindow'
    <2>1. robTail' = (robHead' + robCount') % RobCapacity
        <3>1. robCount - 1 \in 0 .. RobCapacity - 1
            BY <1>1
        <3>2. robHead + (robCount - 1) + 1 = robHead + robCount
            BY <1>1 DEF Tags
        <3> QED
            BY <1>1, <1>2, <1>3, <3>1, <3>2, SlotAfterHeadMoves
    <2>2. \A t \in Tags : robEntries'[t].busy <=> t \in RobSlots'
        BY <1>3, <1>4, <1>8
    <2>3. \A m, n \in Window' : m < n => Entry(m)'.id < Entry(n)'.id
        <3> SUFFICES ASSUME NEW m \in Window', NEW n \in Window', m < n
                     PROVE  Entry(m)'.id < Entry(n)'.id
            OBVIOUS
        <3>1. m + 1 \in Window /\ n + 1 \in Window /\ m + 1 < n + 1
            BY <1>1, <1>2, <1>6 DEF Window
        <3> QED
            BY <1>3, <1>7, <3>1
    <2> QED
        BY <2>1, <2>2, <2>3 DEF RobIsWindow
<1>10. BusyEntriesHaveIds'
    BY <1>2, <1>4 DEF RobInv, BusyEntriesHaveIds, Ids
<1> QED
    BY <1>9, <1>10

(* The positions a flush keeps are the first KeptCount(k) ones.              *)
LEMMA KeptPositions ==
    ASSUME RobInv, NEW k \in Nat
    PROVE  /\ KeptCount(k) \in 0 .. robCount
           /\ \A n \in Window : Slot(n) \notin FlushedSlots(k) <=> n < KeptCount(k)
<1> DEFINE kept == {n \in Window : Slot(n) \notin FlushedSlots(k)}
<1>1. /\ RobCapacity \in Nat \ {0} /\ robHead \in Tags /\ robCount \in Nat
      /\ robCount <= RobCapacity
    BY RobCapacityAssumption DEF RobInv, TypeInv, TypeOK
<1>2. \A n \in Window : Slot(n) \in Tags /\ Slot(n) \in RobSlots
    BY <1>1, SlotFacts DEF Window, Slot, RobSlots
<1>3. \A n \in Window : Slot(n) \notin FlushedSlots(k) <=> Entry(n).id <= k
    <2>1. \A n \in Window : Entry(n).busy /\ Entry(n).id \in Nat
        BY <1>2 DEF RobInv, RobIsWindow, BusyEntriesHaveIds, Entry, Ids
    <2> QED
        BY <1>2, <2>1 DEF FlushedSlots, Entry
<1>4. \A i \in kept, j \in Nat : j < i => j \in kept
    <2> SUFFICES ASSUME NEW i \in kept, NEW j \in Nat, j < i PROVE j \in kept
        OBVIOUS
    <2>1. i \in Window /\ j \in Window
        BY <1>1 DEF Window
    <2>2. Entry(j).id < Entry(i).id /\ Entry(i).id <= k
        BY <1>3, <2>1 DEF RobInv, RobIsWindow
    <2>3. Entry(i).id \in Nat /\ Entry(j).id \in Nat
        BY <1>2, <2>1 DEF RobInv, RobIsWindow, BusyEntriesHaveIds, Entry, Ids
    <2>4. Entry(j).id <= k
        BY <2>2, <2>3
    <2> QED
        BY <1>3, <2>1, <2>4
<1>5. kept \subseteq 0 .. robCount - 1
    BY DEF Window
<1>6. kept = 0 .. Cardinality(kept) - 1 /\ Cardinality(kept) \in 0 .. robCount
    <2> HIDE DEF kept
    <2> QED
        BY <1>1, <1>4, <1>5, InitialSegment
<1>7. KeptCount(k) = Cardinality(kept)
    BY DEF KeptCount, Window, Slot
<1>8. \A n \in Window : n \in kept <=> n < KeptCount(k)
    <2> HIDE DEF kept
    <2> QED
        BY <1>1, <1>6, <1>7 DEF Window
<1> QED
    BY <1>6, <1>7, <1>8

\* flushROB leaves a window that is an initial segment of the old one.
LEMMA ResolveMispredictedWindow ==
    ASSUME RobInv, NEW k \in todo, ResolveMispredicted(k)
    PROVE  RobIsWindow' /\ BusyEntriesHaveIds'
<1>1. /\ RobCapacity \in Nat \ {0} /\ robHead \in Tags /\ robCount \in 0 .. RobCapacity
      /\ robEntries \in [Tags -> RobRecords] /\ k \in Nat
    BY RobCapacityAssumption DEF RobInv, TypeInv, TypeOK, Ids
<1>2. /\ robEntries' = EntriesKept(k) /\ robCount' = KeptCount(k) /\ robHead' = robHead
      /\ robTail' = (robHead + KeptCount(k)) % RobCapacity /\ nextId' = nextId
    BY DEF ResolveMispredicted, Complete
<1>3. /\ \A t \in Tags : robEntries[t].busy <=> t \in RobSlots
      /\ \A m, n \in Window : m < n => Entry(m).id < Entry(n).id
    BY DEF RobInv, RobIsWindow
<1>4. /\ KeptCount(k) \in 0 .. robCount
      /\ \A n \in Window : Slot(n) \notin FlushedSlots(k) <=> n < KeptCount(k)
    BY <1>1, KeptPositions
<1>5. /\ \A t \in FlushedSlots(k) \cap Tags : robEntries'[t].busy = FALSE
      /\ \A t \in Tags \ FlushedSlots(k) :
            /\ robEntries'[t].busy = robEntries[t].busy
            /\ robEntries'[t].id = robEntries[t].id
    BY <1>1, <1>2 DEF EntriesKept, BranchReady, EmptyEntry, RobRecords
<1>6. /\ Window' = {n \in Window : n < KeptCount(k)}
      /\ \A n \in Window : Slot(n)' = Slot(n) /\ Slot(n) \in Tags
    BY <1>1, <1>2, <1>4, SlotFacts DEF Window, Slot
<1>7. RobSlots' = RobSlots \ FlushedSlots(k)
    <2>1. RobSlots' = {Slot(n)' : n \in Window'} /\ RobSlots = {Slot(n) : n \in Window}
        BY <1>2 DEF RobSlots, Slot, Window
    <2> QED
        BY <1>4, <1>6, <2>1
<1>8. RobIsWindow'
    <2>1. \A t \in Tags : robEntries'[t].busy <=> t \in RobSlots'
        BY <1>3, <1>5, <1>7
    <2>2. \A n \in Window' : Entry(n)'.id = Entry(n).id
        BY <1>4, <1>5, <1>6 DEF Entry
    <2>3. \A m, n \in Window' : m < n => Entry(m)'.id < Entry(n)'.id
        BY <1>3, <1>6, <2>2
    <2> QED
        BY <1>2, <2>1, <2>3 DEF RobIsWindow
<1>9. BusyEntriesHaveIds'
    BY <1>2, <1>5 DEF RobInv, BusyEntriesHaveIds, Ids
<1> QED
    BY <1>8, <1>9

-----------------------------------------------------------------------------
(* Every step                                                                *)

\* Every step keeps the window.
LEMMA AnyTimingWindow == RobInv /\ [NextAnyTiming]_vars => RobInv'
<1> SUFFICES ASSUME RobInv, [NextAnyTiming]_vars PROVE RobInv'
    OBVIOUS
<1>1. TypeInv /\ TypeInv'
    BY AnyTimingTypes DEF RobInv
<1>2. ASSUME NEW predictedTaken \in BOOLEAN, Issue(predictedTaken) PROVE RobInv'
    BY <1>1, <1>2, IssueWindow DEF RobInv
<1>3. CASE Commit
    BY <1>1, <1>3, CommitWindow DEF RobInv
<1>4. ASSUME NEW k \in DOMAIN cdbQueue, Broadcast(k) PROVE RobInv'
    BY <1>1, <1>4, BroadcastSameWindow, SameWindowKeeps DEF RobInv
<1>5. ASSUME NEW k \in todo, CompleteStore(k) PROVE RobInv'
    BY <1>1, <1>5, CompleteStoreSameWindow, SameWindowKeeps DEF RobInv
<1>6. ASSUME NEW k \in todo, ResolveCorrect(k) PROVE RobInv'
    BY <1>1, <1>6, ResolveCorrectSameWindow, SameWindowKeeps DEF RobInv
<1>7. ASSUME NEW k \in todo, ResolveMispredicted(k) PROVE RobInv'
    BY <1>1, <1>7, ResolveMispredictedWindow DEF RobInv
<1>8. CASE \/ StallIssue \/ Finish \/ NoCommit \/ NoBroadcast \/ EndCycle \/ Done
           \/ UNCHANGED vars
           \/ \E k \in todo : VisitAnyTiming(k) \/ CompleteRegister(k)
    BY <1>1, <1>8, OthersSameWindow, SameWindowKeeps DEF RobInv
<1> QED
    BY <1>2, <1>3, <1>4, <1>5, <1>6, <1>7, <1>8 DEF NextAnyTiming

LEMMA NextWindow == RobInv /\ [Next]_vars => RobInv'
BY AnyTimingWindow, NextIsAnyTiming DEF RobInv

(***************************************************************************)
(* For every capacity and every interleaving of allocations, commits and    *)
(* flushes, the busy entries of the circular buffer are those from head to  *)
(* tail, in program order.                                                  *)
(***************************************************************************)
THEOREM RobWindow == Spec => []RobIsWindow
<1>1. Init => RobInv
    BY InitTypes, InitWindow DEF RobInv
<1>2. RobInv => RobIsWindow
    BY DEF RobInv
<1> QED
    BY <1>1, <1>2, NextWindow, PTL DEF Spec

-----------------------------------------------------------------------------
(* The fate of an instruction                                                *)

VisitsFinished == phase = "complete" => \A k \in todo : active[k].remaining = 0

FateInv == RobInv /\ EveryInstructionHasOneFate /\ VisitsFinished

-----------------------------------------------------------------------------
(* The ids in flight, slot by slot                                           *)

BusyTags == {t \in Tags : robEntries[t].busy}
InFlightHoldBusyTags ==
    InFlight = {robEntries[t].id : t \in BusyTags} /\ InFlight \subseteq Ids

\* In flight are the owners of the busy slots, and their ids have been issued.
LEMMA InFlightByTag == RobInv => InFlightHoldBusyTags
<1> SUFFICES ASSUME RobInv PROVE InFlightHoldBusyTags
    OBVIOUS
<1>1. /\ robHead \in Tags /\ robCount \in 0 .. RobCapacity /\ RobCapacity \in Nat \ {0}
      /\ \A t \in Tags : robEntries[t].busy <=> t \in RobSlots
    BY RobCapacityAssumption DEF RobInv, TypeInv, TypeOK, RobIsWindow
<1>2. RobSlots = {Slot(n) : n \in Window} /\ \A n \in Window : Slot(n) \in Tags
    BY <1>1, SlotFacts DEF RobSlots, Slot, Window
<1>3. BusyTags = {Slot(n) : n \in Window}
    BY <1>1, <1>2 DEF BusyTags
<1>4. InFlight = {robEntries[Slot(n)].id : n \in Window}
    BY DEF InFlight, Entry
<1>5. InFlight = {robEntries[t].id : t \in BusyTags}
    BY <1>3, <1>4
<1> QED
    BY <1>5 DEF RobInv, BusyEntriesHaveIds, BusyTags, InFlightHoldBusyTags

\* The same after a step.
LEMMA InFlightByTagNext == RobInv' => InFlightHoldBusyTags'
BY InFlightByTag, PTL

(* No instruction holds two slots, and the head's is the oldest.             *)
LEMMA SlotsHoldDifferentIds ==
    ASSUME RobInv
    PROVE  /\ \A s, t \in BusyTags : s # t => robEntries[s].id # robEntries[t].id
           /\ robHead \in BusyTags => \A i \in InFlight : robEntries[robHead].id <= i
<1>1. /\ robHead \in Tags /\ robCount \in 0 .. RobCapacity /\ RobCapacity \in Nat \ {0}
      /\ \A t \in Tags : robEntries[t].busy <=> t \in RobSlots
      /\ \A m, n \in Window : m < n => Entry(m).id < Entry(n).id
    BY RobCapacityAssumption DEF RobInv, TypeInv, TypeOK, RobIsWindow
<1>2. RobSlots = {Slot(n) : n \in Window}
    BY DEF RobSlots, Slot, Window
<1>3. \A n \in Window : Slot(n) \in Tags
    BY <1>1, SlotFacts DEF Window, Slot
<1>4. \A n \in Window : Entry(n).id \in Nat
    BY <1>1, <1>2, <1>3 DEF RobInv, BusyEntriesHaveIds, Entry, Ids
<1>5. \A s, t \in BusyTags : s # t => robEntries[s].id # robEntries[t].id
    <2> SUFFICES ASSUME NEW s \in BusyTags, NEW t \in BusyTags, s # t
                 PROVE  robEntries[s].id # robEntries[t].id
        OBVIOUS
    <2>1. PICK m \in Window : s = Slot(m)
        BY <1>1, <1>2 DEF BusyTags
    <2>2. PICK n \in Window : t = Slot(n)
        BY <1>1, <1>2 DEF BusyTags
    <2>3. m < n \/ n < m
        BY <2>1, <2>2, <1>1 DEF Window
    <2>4. Entry(m).id # Entry(n).id
        BY <1>1, <1>4, <2>3
    <2> QED
        BY <2>1, <2>2, <2>4 DEF Entry
<1>6. \A n \in Window : Entry(0).id <= Entry(n).id
    <2> SUFFICES ASSUME NEW n \in Window PROVE Entry(0).id <= Entry(n).id
        OBVIOUS
    <2>1. 0 \in Window /\ (n = 0 \/ 0 < n)
        BY <1>1 DEF Window
    <2> QED
        BY <1>1, <1>4, <2>1
<1>7. Slot(0) = robHead
    BY <1>1, HeadSlot DEF Slot
<1>8. \A i \in InFlight : robEntries[robHead].id <= i
    BY <1>6, <1>7 DEF InFlight, Entry
<1> QED
    BY <1>5, <1>8

-----------------------------------------------------------------------------
(* How each step changes the instructions in flight                          *)

\* A step that keeps every slot's owner keeps what is in flight.
LEMMA SameInFlight ==
    ASSUME RobInv, RobInv', SameWindow
    PROVE  InFlight' = InFlight
<1>1. BusyTags' = BusyTags /\ \A t \in BusyTags : robEntries'[t].id = robEntries[t].id
    BY DEF SameWindow, BusyTags
<1> QED
    BY <1>1, InFlightByTag, InFlightByTagNext DEF InFlightHoldBusyTags

\* Issue adds the new id to what is in flight.
LEMMA IssueInFlight ==
    ASSUME RobInv, RobInv', NEW predictedTaken \in BOOLEAN, Issue(predictedTaken)
    PROVE  InFlight' = InFlight \cup {nextId}
<1>1. robEntries \in [Tags -> RobRecords] /\ robTail \in Tags
    BY DEF RobInv, TypeInv, TypeOK
<1>2. /\ robEntries'[robTail].busy = TRUE /\ robEntries'[robTail].id = nextId
      /\ \A t \in Tags : t # robTail => robEntries'[t] = robEntries[t]
    BY <1>1 DEF Issue, EntriesAllocated, EmptyEntry
<1>3. robTail \notin BusyTags
    <2>1. /\ robHead \in Tags /\ robCount \in 0 .. RobCapacity - 1
          /\ RobCapacity \in Nat \ {0}
          /\ robTail = (robHead + robCount) % RobCapacity
          /\ \A t \in Tags : robEntries[t].busy <=> t \in RobSlots
        BY RobCapacityAssumption
        DEF RobInv, TypeInv, TypeOK, RobIsWindow, Issue, RobFull
    <2>2. ASSUME NEW n \in 0 .. robCount - 1 PROVE (robHead + n) % RobCapacity # robTail
        <3>1. n \in 0 .. RobCapacity - 1 /\ n # robCount
            BY <2>1
        <3> QED
            BY <2>1, <3>1, SlotsDiffer
    <2> QED
        BY <2>1, <2>2 DEF RobSlots, BusyTags
<1>4. /\ BusyTags' = BusyTags \cup {robTail}
      /\ \A t \in BusyTags : robEntries'[t].id = robEntries[t].id
    BY <1>1, <1>2, <1>3 DEF BusyTags
<1> QED
    BY <1>2, <1>4, InFlightByTag, InFlightByTagNext DEF InFlightHoldBusyTags

\* A commit takes the head's owner, the oldest, out of flight.
LEMMA CommitInFlight ==
    ASSUME RobInv, RobInv', Commit
    PROVE  /\ robEntries[robHead].id \in InFlight
           /\ InFlight' = InFlight \ {robEntries[robHead].id}
           /\ \A i \in InFlight : robEntries[robHead].id <= i
<1>1. robEntries \in [Tags -> RobRecords] /\ robHead \in Tags
    BY DEF RobInv, TypeInv, TypeOK
<1>2. robHead \in BusyTags
    <2>1. robCount \in 1 .. RobCapacity /\ \A t \in Tags : robEntries[t].busy <=> t \in RobSlots
        BY RobCapacityAssumption
        DEF RobInv, TypeInv, TypeOK, RobIsWindow, Commit, HeadReady, RobEmpty
    <2>2. 0 \in 0 .. robCount - 1
        BY <2>1
    <2>3. (robHead + 0) % RobCapacity \in RobSlots
        BY <2>2 DEF RobSlots
    <2> QED
        BY <1>1, <2>1, <2>3, HeadSlot DEF BusyTags
<1>3. /\ robEntries'[robHead].busy = FALSE
      /\ \A t \in Tags : t # robHead => robEntries'[t] = robEntries[t]
    BY <1>1 DEF Commit, EmptyEntry
<1>4. /\ BusyTags' = BusyTags \ {robHead}
      /\ \A t \in BusyTags' : robEntries'[t].id = robEntries[t].id
    BY <1>3 DEF BusyTags
<1> QED
    BY <1>2, <1>4, InFlightByTag, InFlightByTagNext, SlotsHoldDifferentIds DEF InFlightHoldBusyTags

\* A flush takes out of flight what is younger than the branch.
LEMMA ResolveMispredictedInFlight ==
    ASSUME RobInv, RobInv', NEW k \in todo, ResolveMispredicted(k)
    PROVE  InFlight' = {i \in InFlight : i <= k}
<1>1. robEntries \in [Tags -> RobRecords] /\ k \in Nat /\ robEntries' = EntriesKept(k)
    BY DEF RobInv, TypeInv, TypeOK, Ids, ResolveMispredicted
<1>2. \A t \in BusyTags : robEntries[t].id \in Nat /\ t \in RobSlots
    BY DEF RobInv, RobIsWindow, BusyEntriesHaveIds, BusyTags, Ids
<1>3. \A t \in BusyTags : t \in FlushedSlots(k) <=> ~(robEntries[t].id <= k)
    BY <1>1, <1>2 DEF FlushedSlots, BusyTags
<1>4. \A t \in Tags : /\ t \in FlushedSlots(k) => robEntries'[t].busy = FALSE
                      /\ t \notin FlushedSlots(k) =>
                            /\ robEntries'[t].busy = robEntries[t].busy
                            /\ robEntries'[t].id = robEntries[t].id
    BY <1>1 DEF EntriesKept, BranchReady, EmptyEntry, RobRecords
<1>5. /\ BusyTags' = {t \in BusyTags : robEntries[t].id <= k}
      /\ \A t \in BusyTags' : robEntries'[t].id = robEntries[t].id
    BY <1>3, <1>4 DEF BusyTags
<1> QED
    BY <1>5, InFlightByTag, InFlightByTagNext DEF InFlightHoldBusyTags

-----------------------------------------------------------------------------
(* Fates                                                                     *)

\* Without a change of owners or statuses no fate changes.
LEMMA SameFates ==
    ASSUME FateInv, RobInv', SameWindow, statusTable' = statusTable
    PROVE  EveryInstructionHasOneFate'
BY SameInFlight DEF FateInv, EveryInstructionHasOneFate, Committed, Flushed

\* Only issue, commit and recovery write the modelled status.
LEMMA StatusUnchanged ==
    ASSUME \/ StallIssue \/ Finish \/ NoCommit \/ NoBroadcast \/ EndCycle \/ Done
           \/ UNCHANGED vars
           \/ \E k \in todo : \/ VisitAnyTiming(k) \/ CompleteRegister(k)
                              \/ CompleteStore(k) \/ ResolveCorrect(k)
           \/ \E k \in DOMAIN cdbQueue : Broadcast(k)
    PROVE  statusTable' = statusTable
BY DEF StallIssue, Finish, NoCommit, NoBroadcast, BroadcastStage, EndCycle, Done, Progress,
       VisitAnyTiming, Hold, StartWith, Visit, CompleteRegister, CompleteStore, ResolveCorrect, Retire,
       Broadcast, vars

\* Issue gives the new instruction the fate of being in flight.
LEMMA IssueFates ==
    ASSUME FateInv, RobInv', NEW predictedTaken \in BOOLEAN, Issue(predictedTaken)
    PROVE  /\ EveryInstructionHasOneFate'
           /\ Committed' = Committed /\ Flushed' = Flushed
<1>1. InFlight' = InFlight \cup {nextId}
    BY IssueInFlight DEF FateInv
<1>2. /\ statusTable \in [Ids -> Statuses] /\ nextId \in Nat /\ nextId \notin Ids
      /\ statusTable' = Extend(statusTable, nextId, NewStatus)
    BY DEF FateInv, RobInv, TypeInv, TypeOK, Ids, Issue
<1>3. /\ DOMAIN statusTable' = DOMAIN statusTable \cup {nextId}
      /\ statusTable'[nextId].committed = FALSE /\ statusTable'[nextId].flushed = FALSE
      /\ \A j \in DOMAIN statusTable : statusTable'[j] = statusTable[j]
    BY <1>2 DEF Extend, NewStatus
<1>4. Committed' = Committed /\ Flushed' = Flushed
    BY <1>3 DEF Committed, Flushed
<1>5. \A c \in Committed : c < nextId
    BY <1>2 DEF Committed, Ids
<1>6. nextId \notin Flushed
    BY <1>2 DEF Flushed
<1> QED
    BY <1>1, <1>3, <1>4, <1>5, <1>6 DEF FateInv, EveryInstructionHasOneFate

\* A commit turns the oldest instruction in flight into a committed one.
LEMMA CommitFates ==
    ASSUME FateInv, RobInv', Commit
    PROVE  /\ EveryInstructionHasOneFate'
           /\ Committed \subseteq Committed' /\ Flushed' = Flushed
<1> DEFINE id == robEntries[robHead].id
<1>1. /\ id \in InFlight /\ InFlight' = InFlight \ {id} /\ \A i \in InFlight : id <= i
    BY CommitInFlight DEF FateInv
<1>2. /\ statusTable \in [Ids -> Statuses] /\ id \in Ids
      /\ statusTable' = [statusTable EXCEPT ![id].committed = TRUE]
    BY <1>1, InFlightByTag DEF InFlightHoldBusyTags, FateInv, RobInv, TypeInv, TypeOK, Commit
<1>3. InFlight \subseteq Nat
    BY InFlightByTag DEF InFlightHoldBusyTags, FateInv, Ids
<1> HIDE DEF id
<1>4. /\ DOMAIN statusTable' = DOMAIN statusTable
      /\ Committed' = Committed \cup {id} /\ Flushed' = Flushed
    BY <1>2 DEF Committed, Flushed, Statuses
<1>5. \A i \in InFlight' : id < i
    BY <1>1, <1>3
<1> QED
    BY <1>1, <1>4, <1>5 DEF FateInv, EveryInstructionHasOneFate

\* Recovery marks flushed exactly what it takes out of flight.
LEMMA ResolveMispredictedFates ==
    ASSUME FateInv, RobInv', NEW k \in todo, ResolveMispredicted(k)
    PROVE  /\ EveryInstructionHasOneFate'
           /\ Committed' = Committed
           /\ Flushed' = Flushed \cup {i \in InFlight : i > k}
<1>1. InFlight' = {i \in InFlight : i <= k}
    BY ResolveMispredictedInFlight DEF FateInv
<1>2. /\ statusTable \in [Ids -> Statuses] /\ k \in Nat /\ InFlight \subseteq Ids
      /\ nextId \in Nat /\ statusTable' = StatusesFlushed(k)
    BY InFlightByTag DEF InFlightHoldBusyTags, FateInv, RobInv, TypeInv, TypeOK, Ids, ResolveMispredicted
<1>3. DOMAIN statusTable' = DOMAIN statusTable /\ Committed' = Committed
    BY <1>2 DEF StatusesFlushed, Committed, Statuses
<1>4. Flushed' = Flushed \cup {j \in DOMAIN statusTable : j > k /\ ~statusTable[j].committed}
    BY <1>2 DEF StatusesFlushed, Flushed, Statuses
<1>5. /\ DOMAIN statusTable = InFlight \cup Committed \cup Flushed
      /\ Committed \cap Flushed = {} /\ InFlight \cap Flushed = {}
      /\ \A c \in Committed, i \in InFlight : c < i
    BY DEF FateInv, EveryInstructionHasOneFate
<1>6. InFlight \cap Committed = {} /\ InFlight \subseteq Nat
    BY <1>2, <1>5 DEF Ids
<1>7. Flushed' = Flushed \cup {i \in InFlight : i > k}
    BY <1>4, <1>5, <1>6 DEF Committed
<1>8. EveryInstructionHasOneFate'
    <2>1. \A i \in InFlight : i <= k <=> ~(i > k)
        BY <1>2, <1>6
    <2>2. DOMAIN statusTable' = InFlight' \cup Committed' \cup Flushed'
        BY <1>1, <1>3, <1>5, <1>7, <2>1
    <2>3. Committed' \cap Flushed' = {}
        BY <1>3, <1>5, <1>6, <1>7
    <2>4. InFlight' \cap Flushed' = {}
        BY <1>1, <1>5, <1>7, <2>1
    <2>5. \A c \in Committed', i \in InFlight' : c < i
        BY <1>1, <1>3, <1>5
    <2> QED
        BY <2>2, <2>3, <2>4, <2>5 DEF EveryInstructionHasOneFate
<1> QED
    BY <1>3, <1>7, <1>8

-----------------------------------------------------------------------------
(* The completion loop                                                       *)

\* The completion loop only ever has finished instructions left to visit.
LEMMA NextVisits ==
    ASSUME TypeInv, VisitsFinished, [NextAnyTiming]_vars
    PROVE  VisitsFinished'
<1>1. CASE phase' # "complete"
    BY <1>1 DEF VisitsFinished
<1>2. CASE phase' = "complete" /\ UNCHANGED vars
    BY <1>2 DEF VisitsFinished, vars
<1>3. ASSUME phase' = "complete", NEW k \in DOMAIN cdbQueue, Broadcast(k)
      PROVE  VisitsFinished'
    <2>1. /\ cdbQueue[k] \in Messages /\ todo' = Finished
          /\ active' = [j \in DOMAIN active |-> Woken(active[j], cdbQueue[k])]
          /\ \A j \in DOMAIN active : active[j] \in ActiveRecords
        BY <1>3 DEF TypeInv, TypeOK, Broadcast, BroadcastStage
    <2>2. \A j \in DOMAIN active : active'[j].remaining = active[j].remaining
        BY <2>1, WokenType
    <2> QED
        BY <2>1, <2>2 DEF VisitsFinished, Finished
<1>4. CASE phase' = "complete" /\ NoBroadcast
    BY <1>4 DEF NoBroadcast, BroadcastStage, Finished, VisitsFinished
<1>5. ASSUME phase' = "complete", NEW k \in todo,
             \/ CompleteRegister(k) \/ CompleteStore(k)
             \/ ResolveCorrect(k) \/ ResolveMispredicted(k)
      PROVE  VisitsFinished'
    <2>1. /\ phase = "complete" /\ todo \subseteq DOMAIN active /\ DOMAIN active \subseteq Nat
          /\ \A j \in todo : active[j].remaining = 0
          /\ \A j \in todo : k <= j
        BY <1>5 DEF TypeInv, TypeOK, Ids, VisitsFinished, Complete, Oldest, CompleteRegister,
                    CompleteStore, ResolveCorrect, ResolveMispredicted
    <2>2. CASE todo' = todo \ {k} /\ active' = Remove(active, k)
        BY <2>1, <2>2 DEF VisitsFinished, Remove, Restrict
    <2>3. CASE todo' = {j \in todo : j < k}
        BY <2>1, <2>3 DEF VisitsFinished
    <2> QED
        BY <1>5, <2>2, <2>3 DEF CompleteRegister, CompleteStore, ResolveCorrect, Retire,
                                ResolveMispredicted
<1>6. CASE phase' = "complete" /\ Done
    BY <1>6 DEF VisitsFinished, Done, vars
<1>7. ASSUME \/ \E predictedTaken \in BOOLEAN : Issue(predictedTaken)
             \/ StallIssue \/ Finish \/ Commit \/ NoCommit \/ EndCycle
             \/ \E k \in todo : VisitAnyTiming(k)
      PROVE  phase' # "complete"
    BY <1>7 DEF Issue, StallIssue, StartCycle, Finish, Commit, NoCommit, CommitStage,
                EndCycle, VisitAnyTiming, Progress, Hold, StartWith, Visit
<1> QED
    BY <1>1, <1>2, <1>3, <1>4, <1>5, <1>6, <1>7 DEF NextAnyTiming

-----------------------------------------------------------------------------
(* Every step                                                                *)

\* Nothing has been issued at the start.
LEMMA InitFates == Init => FateInv
<1> SUFFICES ASSUME Init PROVE FateInv
    OBVIOUS
<1>1. RobInv
    BY InitTypes, InitWindow DEF RobInv
<1>2. DOMAIN statusTable = {} /\ robCount = 0 /\ phase = "issue"
    BY DEF Init, EmptyFunction
<1>3. InFlight = {} /\ Committed = {} /\ Flushed = {}
    BY <1>2 DEF InFlight, Window, Committed, Flushed
<1> QED
    BY <1>1, <1>2, <1>3 DEF FateInv, EveryInstructionHasOneFate, VisitsFinished

WrongPathOnly ==
    /\ Flushed \subseteq Flushed' /\ Committed \subseteq Committed'
    /\ \A id \in Flushed' \ Flushed : id \in InFlight /\ MispredictedBefore(id)

\* The branch that causes a flush is the one the flush property asks for.
LEMMA MispredictedIsWitness ==
    ASSUME FateInv, NEW k \in todo, ResolveMispredicted(k), NEW id \in Nat, id > k
    PROVE  MispredictedBefore(id)
<1>1. k \in DOMAIN active /\ k \in Nat /\ phase = "complete"
    BY DEF FateInv, RobInv, TypeInv, TypeOK, Ids, ResolveMispredicted, Complete
<1>2. /\ IsBranch(active[k].instr) /\ ActualTaken(k) # active[k].predictedTaken
      /\ active' = Remove(UpTo(active, k), k)
    BY DEF ResolveMispredicted
<1>3. active[k].remaining = 0
    BY <1>1 DEF FateInv, VisitsFinished
<1>4. k \notin DOMAIN active'
    BY <1>2 DEF Remove, Restrict
<1> QED
    BY <1>1, <1>2, <1>3, <1>4 DEF MispredictedBefore

\* Every step keeps the fates, and flushes the wrong path only.
LEMMA AnyTimingFates == FateInv /\ [NextAnyTiming]_vars => FateInv' /\ WrongPathOnly
<1> SUFFICES ASSUME FateInv, [NextAnyTiming]_vars PROVE FateInv' /\ WrongPathOnly
    OBVIOUS
<1>1. RobInv /\ RobInv' /\ TypeInv /\ VisitsFinished'
    BY AnyTimingWindow, NextVisits DEF FateInv, RobInv
<1>2. ASSUME NEW predictedTaken \in BOOLEAN, Issue(predictedTaken)
      PROVE  EveryInstructionHasOneFate' /\ WrongPathOnly
    BY <1>1, <1>2, IssueFates DEF WrongPathOnly
<1>3. ASSUME Commit PROVE EveryInstructionHasOneFate' /\ WrongPathOnly
    BY <1>1, <1>3, CommitFates DEF WrongPathOnly
<1>4. ASSUME NEW k \in todo, ResolveMispredicted(k)
      PROVE  EveryInstructionHasOneFate' /\ WrongPathOnly
    <2>1. /\ EveryInstructionHasOneFate' /\ Committed' = Committed
          /\ Flushed' = Flushed \cup {i \in InFlight : i > k}
        BY <1>1, <1>4, ResolveMispredictedFates
    <2>2. InFlight \subseteq Nat
        BY <1>1, InFlightByTag DEF InFlightHoldBusyTags, Ids
    <2> QED
        BY <1>4, <2>1, <2>2, MispredictedIsWitness DEF WrongPathOnly
<1>5. ASSUME SameWindow, statusTable' = statusTable
      PROVE  EveryInstructionHasOneFate' /\ WrongPathOnly
    BY <1>1, <1>5, SameFates DEF WrongPathOnly, Committed, Flushed
<1>6. ASSUME \/ StallIssue \/ Finish \/ NoCommit \/ NoBroadcast \/ EndCycle \/ Done
             \/ UNCHANGED vars
             \/ \E k \in todo : VisitAnyTiming(k) \/ CompleteRegister(k)
      PROVE  EveryInstructionHasOneFate' /\ WrongPathOnly
    BY <1>1, <1>5, <1>6, OthersSameWindow, StatusUnchanged
<1>7. ASSUME NEW k \in DOMAIN cdbQueue, Broadcast(k)
      PROVE  EveryInstructionHasOneFate' /\ WrongPathOnly
    BY <1>1, <1>5, <1>7, BroadcastSameWindow, StatusUnchanged
<1>8. ASSUME NEW k \in todo, CompleteStore(k) \/ ResolveCorrect(k)
      PROVE  EveryInstructionHasOneFate' /\ WrongPathOnly
    BY <1>1, <1>5, <1>8, CompleteStoreSameWindow, ResolveCorrectSameWindow, StatusUnchanged
<1>9. EveryInstructionHasOneFate' /\ WrongPathOnly
    BY <1>2, <1>3, <1>4, <1>6, <1>7, <1>8 DEF NextAnyTiming
<1> QED
    BY <1>1, <1>9 DEF FateInv

LEMMA NextFates == FateInv /\ [Next]_vars => FateInv' /\ WrongPathOnly
BY AnyTimingFates, NextIsAnyTiming DEF FateInv, RobInv

(***************************************************************************)
(* For every machine and program, an issued instruction is in flight,        *)
(* committed or flushed and only one of these, and nothing in flight is      *)
(* older than anything committed.                                            *)
(***************************************************************************)
THEOREM OneFate == Spec => []EveryInstructionHasOneFate
<1>1. FateInv => EveryInstructionHasOneFate
    BY DEF FateInv
<1>2. FateInv /\ [Next]_vars => FateInv'
    BY NextFates
<1> QED
    BY <1>1, <1>2, InitFates, PTL DEF Spec

(***************************************************************************)
(* For every machine and program, an instruction is flushed only in the step *)
(* that resolves an older branch against its prediction, and neither a       *)
(* commit nor a flush is ever taken back.                                    *)
(***************************************************************************)
THEOREM WrongPathFlushed == Spec => OnlyTheWrongPathIsFlushed
<1>1. FateInv /\ [Next]_vars => FateInv' /\ [WrongPathOnly]_vars
    BY NextFates
<1>2. Spec => [][WrongPathOnly]_vars
    BY <1>1, InitFates, PTL DEF Spec
<1> QED
    BY <1>2 DEF OnlyTheWrongPathIsFlushed, WrongPathOnly

-----------------------------------------------------------------------------
(* Fields of an instruction in flight                                        *)

\* The checks before a start write only what a load's forwarding depends on.
LEMMA CheckedFields ==
    ASSUME TypeInv, NEW k \in DOMAIN active
    PROVE  /\ Checked(k).instr = active[k].instr /\ Checked(k).robTag = active[k].robTag
           /\ Checked(k).predictedTaken = active[k].predictedTaken
           /\ Checked(k).qj = active[k].qj /\ Checked(k).qk = active[k].qk
           /\ Checked(k).vj = active[k].vj /\ Checked(k).vk = active[k].vk
           /\ Checked(k).executing = active[k].executing
           /\ Checked(k).remaining = active[k].remaining
           /\ DOMAIN Checked(k) = DOMAIN active[k]
<1>1. active[k] \in ActiveRecords
    BY DEF TypeInv, TypeOK
<1> QED
    BY <1>1 DEF Checked, ActiveRecords

\* A broadcast gives a value to the operands that wait for the slot it fills.
LEMMA WokenFields ==
    ASSUME TypeInv, NEW b \in DOMAIN cdbQueue, Broadcast(b)
    PROVE  LET filled == cdbQueue[b].robTag
               value == cdbQueue[b].value IN
           /\ filled \in Tags /\ filled # None /\ DOMAIN active' = DOMAIN active
           /\ \A k \in DOMAIN active :
                /\ active'[k].instr = active[k].instr /\ active'[k].robTag = active[k].robTag
                /\ active'[k].predictedTaken = active[k].predictedTaken
                /\ active'[k].executing = active[k].executing
                /\ active'[k].hasForwarded = active[k].hasForwarded
                /\ active'[k].forwarded = active[k].forwarded
                /\ IF active[k].qj = filled
                   THEN active'[k].qj = None /\ active'[k].vj = value
                   ELSE active'[k].qj = active[k].qj /\ active'[k].vj = active[k].vj
                /\ IF active[k].qk = filled
                   THEN active'[k].qk = None /\ active'[k].vk = value
                   ELSE active'[k].qk = active[k].qk /\ active'[k].vk = active[k].vk
<1> DEFINE msg == cdbQueue[b]
<1>1. msg \in Messages /\ \A k \in DOMAIN active : active[k] \in ActiveRecords
    BY DEF TypeInv, TypeOK
<1>2. msg.robTag \in Tags /\ msg.robTag # None
    BY <1>1 DEF Messages, Tags, None
<1>3. active' = [j \in DOMAIN active |-> Woken(active[j], msg)]
    BY DEF Broadcast
<1> HIDE DEF msg
<1>4. DOMAIN active' = DOMAIN active
    BY <1>3
<1>5. ASSUME NEW k \in DOMAIN active
      PROVE  /\ active'[k].instr = active[k].instr /\ active'[k].robTag = active[k].robTag
             /\ active'[k].predictedTaken = active[k].predictedTaken
             /\ active'[k].executing = active[k].executing
             /\ active'[k].hasForwarded = active[k].hasForwarded
             /\ active'[k].forwarded = active[k].forwarded
             /\ IF active[k].qj = msg.robTag
                THEN active'[k].qj = None /\ active'[k].vj = msg.value
                ELSE active'[k].qj = active[k].qj /\ active'[k].vj = active[k].vj
             /\ IF active[k].qk = msg.robTag
                THEN active'[k].qk = None /\ active'[k].vk = msg.value
                ELSE active'[k].qk = active[k].qk /\ active'[k].vk = active[k].vk
  <2>1. active'[k] = Woken(active[k], msg) /\ active[k] \in ActiveRecords
      BY <1>1, <1>3
  <2> QED
      BY <2>1 DEF Woken, ActiveRecords
<1> QED
    BY <1>2, <1>4, <1>5 DEF msg

-----------------------------------------------------------------------------
(* The functional units.  A unit is counted busy for exactly the instructions *)
(* executing on it, whatever the timing of the loop; and since a pipeline      *)
(* takes in FuCount instructions a cycle and an arithmetic instruction runs    *)
(* for its latency without a pause, a pipeline never holds more than FuCount   *)
(* of each age up to the longest latency it serves.                            *)

-----------------------------------------------------------------------------
(* Counting                                                                  *)

\* Any set of instructions in flight can be counted.
LEMMA ActiveSetsAreFinite ==
    ASSUME TypeOK, NEW S, S \subseteq DOMAIN active
    PROVE  IsFiniteSet(S) /\ Cardinality(S) \in Nat
<1>1. nextId \in Nat /\ S \subseteq 0 .. nextId - 1
    BY DEF TypeOK, Ids
<1> QED
    BY <1>1, BelowIsFinite

HoldersAreCounted == \A u \in FUTypes : busyUnits[u] = Cardinality(ExecutingOn(u))

SingleUnitsInLimit == \A u \in FUTypes \ PipelinedFUs : busyUnits[u] <= FuCount[u]

HolderInv == FateInv /\ HoldersAreCounted /\ SingleUnitsInLimit

LEMMA HolderFacts ==
    ASSUME HolderInv
    PROVE  /\ TypeInv /\ TypeOK /\ RobInv
           /\ \A u : IsFiniteSet(ExecutingOn(u)) /\ Cardinality(ExecutingOn(u)) \in Nat
           /\ busyUnits \in [FUTypes -> Nat] /\ entered \in [FUTypes -> Nat]
           /\ FuCount \in [FUTypes -> Nat \ {0}]
<1>1. TypeInv /\ TypeOK /\ RobInv
    BY DEF HolderInv, FateInv, RobInv, TypeInv
<1>2. \A u : ExecutingOn(u) \subseteq DOMAIN active
    BY DEF ExecutingOn
<1> QED
    BY <1>1, <1>2, ActiveSetsAreFinite, FuCountAssumption DEF TypeOK

-----------------------------------------------------------------------------
(* What each step does to the holders                                        *)

\* The instructions that execute stay, and no other begins.
SameExecuting ==
    /\ \A k \in DOMAIN active : active[k].executing =>
         /\ k \in DOMAIN active' /\ active'[k].executing
         /\ active'[k].instr = active[k].instr
    /\ \A k \in DOMAIN active' : active'[k].executing =>
         k \in DOMAIN active /\ active[k].executing

LEMMA SameHolders ==
    ASSUME HolderInv, SameExecuting, busyUnits' = busyUnits
    PROVE  HoldersAreCounted' /\ SingleUnitsInLimit'
<1>1. ASSUME NEW u \in FUTypes PROVE ExecutingOn(u)' = ExecutingOn(u)
    BY DEF SameExecuting, ExecutingOn, FUOf
<1> QED
    BY <1>1 DEF HolderInv, HoldersAreCounted, SingleUnitsInLimit

\* An instruction that starts takes a unit that is free.
LEMMA StartHolders ==
    ASSUME HolderInv, NEW k \in todo, NEW latency \in Nat \ {0}, StartWith(k, latency)
    PROVE  HoldersAreCounted' /\ SingleUnitsInLimit'
<1>1. /\ k \in DOMAIN active /\ ~active[k].executing /\ fuAvailable(FUOf(k))
      /\ FUOf(k) \in FUTypes
      /\ busyUnits' = [busyUnits EXCEPT ![FUOf(k)] = busyUnits[FUOf(k)] + 1]
  <2>1. k \in DOMAIN active /\ active[k].instr \in WellFormedInstructions
      BY HolderFacts, ActiveType DEF TypeOK
  <2> QED
      BY <2>1, FUType DEF StartWith, CanStart, FUOf
<1>2. /\ DOMAIN active' = DOMAIN active
      /\ \A j \in DOMAIN active : j # k => active'[j] = active[j]
      /\ active'[k].instr = active[k].instr /\ active'[k].executing
  <2>1. active' = [active EXCEPT ![k] = [Checked(k) EXCEPT
                     !.executing = TRUE, !.remaining = latency - 1]]
      BY DEF StartWith
  <2>2. /\ Checked(k) \in ActiveRecords /\ Checked(k).instr = active[k].instr
      BY <1>1, HolderFacts, CheckedType
  <2> QED
      BY <1>1, <2>1, <2>2 DEF ActiveRecords
<1>3. ASSUME NEW u \in FUTypes
      PROVE  /\ busyUnits'[u] = Cardinality(ExecutingOn(u))'
             /\ u \notin PipelinedFUs => busyUnits'[u] <= FuCount[u]
  <2>1. CASE u = FUOf(k)
    <3>1. ExecutingOn(u)' = ExecutingOn(u) \cup {k} /\ k \notin ExecutingOn(u)
        BY <1>1, <1>2, <2>1 DEF ExecutingOn, FUOf
    <3>2. Cardinality(ExecutingOn(u) \cup {k}) = Cardinality(ExecutingOn(u)) + 1
        BY <3>1, HolderFacts, FS_AddElement
    <3>3. busyUnits'[u] = busyUnits[u] + 1 /\ busyUnits[u] = Cardinality(ExecutingOn(u))
        BY <1>1, <2>1, HolderFacts DEF HolderInv, HoldersAreCounted
    <3>4. u \notin PipelinedFUs => busyUnits[u] < FuCount[u]
        BY <1>1, <2>1 DEF fuAvailable
    <3>5. busyUnits[u] \in Nat /\ FuCount[u] \in Nat
        BY HolderFacts
    <3> QED
        BY <3>1, <3>2, <3>3, <3>4, <3>5
  <2>2. CASE u # FUOf(k)
    <3>1. ExecutingOn(u)' = ExecutingOn(u)
        BY <1>1, <1>2, <2>2 DEF ExecutingOn, FUOf
    <3>2. busyUnits'[u] = busyUnits[u]
        BY <1>1, <2>2, HolderFacts
    <3> QED
        BY <3>1, <3>2 DEF HolderInv, HoldersAreCounted, SingleUnitsInLimit
  <2> QED
      BY <2>1, <2>2
<1> QED
    BY <1>3 DEF HoldersAreCounted, SingleUnitsInLimit

\* The instructions that leave give their units back, no more and no less.
LEMMA ReleaseHolders ==
    ASSUME HolderInv, NEW S, \A k \in S : k \in DOMAIN active /\ active[k].executing,
           busyUnits' = Released(S),
           \A k \in DOMAIN active' : k \in DOMAIN active /\ active'[k] = active[k],
           \A k \in DOMAIN active : active[k].executing => (k \in DOMAIN active' <=> k \notin S)
    PROVE  HoldersAreCounted' /\ SingleUnitsInLimit'
<1>1. ASSUME NEW u \in FUTypes
      PROVE  /\ busyUnits'[u] = Cardinality(ExecutingOn(u))'
             /\ busyUnits'[u] <= busyUnits[u]
  <2> DEFINE R == {j \in S : FUOf(j) = u}
  <2>1. R \subseteq ExecutingOn(u)
      BY DEF ExecutingOn
  <2>2. ExecutingOn(u)' = ExecutingOn(u) \ R
      BY DEF ExecutingOn, FUOf
  <2>3. /\ Cardinality(ExecutingOn(u) \ R) = Cardinality(ExecutingOn(u)) - Cardinality(R)
        /\ Cardinality(R) \in Nat /\ Cardinality(R) <= Cardinality(ExecutingOn(u))
        /\ Cardinality(ExecutingOn(u)) \in Nat
    <3>1. ExecutingOn(u) \cap R = R
        BY <2>1
    <3>2. IsFiniteSet(ExecutingOn(u)) /\ Cardinality(ExecutingOn(u)) \in Nat
        BY HolderFacts
    <3>3. IsFiniteSet(R) /\ Cardinality(R) <= Cardinality(ExecutingOn(u))
        BY <2>1, <3>2, FS_Subset
    <3>4. Cardinality(R) \in Nat
        BY <3>3, FS_CardinalityType
    <3> HIDE DEF R
    <3>5. Cardinality(ExecutingOn(u) \ R)
            = Cardinality(ExecutingOn(u)) - Cardinality(ExecutingOn(u) \cap R)
        BY <3>2, FS_Difference
    <3> QED
        BY <3>1, <3>2, <3>3, <3>4, <3>5
  <2>4. busyUnits'[u] = IF busyUnits[u] >= Cardinality(R) THEN busyUnits[u] - Cardinality(R) ELSE 0
      BY DEF Released
  <2>5. busyUnits[u] = Cardinality(ExecutingOn(u))
      BY DEF HolderInv, HoldersAreCounted
  <2> HIDE DEF R
  <2> QED
      BY <2>2, <2>3, <2>4, <2>5
<1>2. ASSUME NEW u \in FUTypes \ PipelinedFUs PROVE busyUnits'[u] <= FuCount[u]
  <2>1. /\ busyUnits[u] \in Nat /\ FuCount[u] \in Nat /\ busyUnits[u] <= FuCount[u]
        /\ Cardinality(ExecutingOn(u))' = busyUnits'[u] /\ busyUnits'[u] <= busyUnits[u]
      BY <1>1, HolderFacts DEF HolderInv, SingleUnitsInLimit
  <2>2. busyUnits'[u] \in Nat
      BY <2>1, ReleasedType, HolderFacts
  <2> QED
      BY <2>1, <2>2
<1> QED
    BY <1>1, <1>2 DEF HoldersAreCounted, SingleUnitsInLimit

LEMMA InitHolders == Init => HolderInv
<1> SUFFICES ASSUME Init PROVE HolderInv
    OBVIOUS
<1>1. FateInv
    BY InitFates
<1>2. \A u : ExecutingOn(u) = {}
    BY DEF Init, EmptyFunction, ExecutingOn
<1>3. busyUnits = [u \in FUTypes |-> 0]
    BY DEF Init
<1> QED
    BY <1>1, <1>2, <1>3, FS_EmptySet, FuCountAssumption
    DEF HolderInv, HoldersAreCounted, SingleUnitsInLimit

\* An instruction that completes executes.
LEMMA FinishedExecutes ==
    ASSUME FateInv, NEW k \in todo, Complete(k)
    PROVE  k \in DOMAIN active /\ active[k].executing
<1>1. k \in DOMAIN active /\ active[k].remaining = 0
    BY DEF FateInv, RobInv, TypeInv, TypeOK, VisitsFinished, Complete
<1> QED
    BY <1>1 DEF FateInv, RobInv, TypeInv, CountdownIsCaught

LEMMA AnyTimingHolders == HolderInv /\ [NextAnyTiming]_vars => HolderInv'
<1> SUFFICES ASSUME HolderInv, [NextAnyTiming]_vars PROVE HolderInv'
    OBVIOUS
<1>1. FateInv' /\ TypeInv /\ FateInv
    BY HolderFacts, AnyTimingFates DEF HolderInv
<1>2. ASSUME NEW predictedTaken \in BOOLEAN, Issue(predictedTaken)
      PROVE  HoldersAreCounted' /\ SingleUnitsInLimit'
  <2>1. /\ active' = Extend(active, nextId, IssuedInstruction(NextInstruction, predictedTaken))
        /\ busyUnits' = busyUnits
      BY <1>2 DEF Issue
  <2>2. nextId \notin DOMAIN active
      BY <1>1 DEF TypeInv, TypeOK, Ids
  <2>3. SameExecuting
      BY <2>1, <2>2 DEF SameExecuting, Extend, IssuedInstruction
  <2> QED
      BY <2>1, <2>3, SameHolders
<1>3. ASSUME NEW k \in todo, VisitAnyTiming(k)
      PROVE  HoldersAreCounted' /\ SingleUnitsInLimit'
  <2>1. CASE Progress(k) \/ Hold(k)
    <3>1. busyUnits' = busyUnits
        BY <2>1 DEF Progress, Hold, unitVars
    <3>2. k \in DOMAIN active
        BY <1>1 DEF TypeInv, TypeOK
    <3>3. SameExecuting
      <4>1. CASE Progress(k)
        <5>1. active' = [active EXCEPT ![k].remaining = @ - 1]
            BY <4>1 DEF Progress
        <5> QED
            BY <3>2, <5>1 DEF SameExecuting
      <4>2. CASE Hold(k)
        <5>1. active' = [active EXCEPT ![k] = Checked(k)] /\ ~active[k].executing
            BY <4>2 DEF Hold
        <5>2. Checked(k).executing = active[k].executing
            BY <1>1, <3>2, CheckedFields
        <5> QED
            BY <3>2, <5>1, <5>2 DEF SameExecuting
      <4> QED
          BY <2>1, <4>1, <4>2
    <3> QED
        BY <3>1, <3>3, SameHolders
  <2>2. ASSUME NEW latency \in Nat \ {0}, StartWith(k, latency)
        PROVE  HoldersAreCounted' /\ SingleUnitsInLimit'
      BY <2>2, StartHolders
  <2> QED
      BY <1>3, <2>1, <2>2 DEF VisitAnyTiming
<1>4. ASSUME NEW b \in DOMAIN cdbQueue, Broadcast(b)
      PROVE  HoldersAreCounted' /\ SingleUnitsInLimit'
  <2>1. busyUnits' = busyUnits
      BY <1>4 DEF Broadcast, BroadcastStage, unitVars
  <2>2. SameExecuting
      BY <1>1, <1>4, WokenFields DEF SameExecuting
  <2> QED
      BY <2>1, <2>2, SameHolders
<1>5. ASSUME NEW k \in todo, CompleteRegister(k) \/ CompleteStore(k) \/ ResolveCorrect(k)
      PROVE  HoldersAreCounted' /\ SingleUnitsInLimit'
  <2>1. active' = Remove(active, k) /\ busyUnits' = Released({k}) /\ Complete(k)
      BY <1>5 DEF CompleteRegister, CompleteStore, ResolveCorrect, Retire
  <2>2. k \in DOMAIN active /\ active[k].executing
      BY <1>1, <2>1, FinishedExecutes
  <2>3. /\ DOMAIN active' = DOMAIN active \ {k}
        /\ \A j \in DOMAIN active' : active'[j] = active[j]
      BY <2>1 DEF Remove, Restrict
  <2> QED
      BY <2>1, <2>2, <2>3, ReleaseHolders
<1>6. ASSUME NEW k \in todo, ResolveMispredicted(k)
      PROVE  HoldersAreCounted' /\ SingleUnitsInLimit'
  <2> DEFINE S == {k} \cup {j \in DOMAIN active : j > k /\ active[j].executing}
  <2>1. /\ active' = Remove(UpTo(active, k), k) /\ busyUnits' = Released(S) /\ Complete(k)
      BY <1>6 DEF ResolveMispredicted
  <2>2. k \in DOMAIN active /\ active[k].executing /\ \A j \in DOMAIN active : j \in Nat
      BY <1>1, <2>1, FinishedExecutes DEF TypeInv, TypeOK, Ids
  <2>3. /\ DOMAIN active' = {j \in DOMAIN active : j <= k} \ {k}
        /\ \A j \in DOMAIN active' : active'[j] = active[j]
      BY <2>1 DEF Remove, UpTo, Restrict
  <2>4. \A j \in S : j \in DOMAIN active /\ active[j].executing
      BY <2>2
  <2>5. \A j \in DOMAIN active : active[j].executing => (j \in DOMAIN active' <=> j \notin S)
      BY <2>2, <2>3
  <2> HIDE DEF S
  <2> QED
      BY <2>1, <2>3, <2>4, <2>5, ReleaseHolders
<1>7. ASSUME \/ StallIssue \/ Finish \/ Commit \/ NoCommit \/ NoBroadcast \/ EndCycle \/ Done
             \/ UNCHANGED vars
      PROVE  HoldersAreCounted' /\ SingleUnitsInLimit'
  <2>1. active' = active /\ busyUnits' = busyUnits
      BY <1>7 DEF StallIssue, Finish, Commit, NoCommit, CommitStage, NoBroadcast, BroadcastStage,
         EndCycle, Done, vars, unitVars
  <2>2. SameExecuting
      BY <2>1 DEF SameExecuting
  <2> QED
      BY <2>1, <2>2, SameHolders
<1> QED
    BY <1>1, <1>2, <1>3, <1>4, <1>5, <1>6, <1>7 DEF NextAnyTiming, HolderInv

-----------------------------------------------------------------------------
(* Ages in a pipeline                                                        *)

\* The cycles an instruction has executed for, the current one included even while
\* its visit is still to come: all that execute grow older together, when a cycle
\* starts.
Elapsed(k) == getLatency(active[k].instr.op) - active[k].remaining
YetToVisit(k) == phase = "execute" /\ k \in todo
Age(k) == IF YetToVisit(k) THEN Elapsed(k) + 1 ELSE Elapsed(k)

\* The instructions of one age in a pipeline.
Cohort(u, age) == {k \in ExecutingOn(u) : Age(k) = age}

\* A pipelined instruction that waits has its whole latency before it, one that
\* executes has not.
OnTime(k) ==
    IF active[k].executing
    THEN active[k].remaining < getLatency(active[k].instr.op)
    ELSE active[k].remaining = getLatency(active[k].instr.op)

PipelinesOnTime == \A k \in DOMAIN active : FUOf(k) \in PipelinedFUs => OnTime(k)

\* What came in this cycle is counted, and no earlier cycle let in more than the
\* first stages hold.
CohortsFit ==
    \A u \in PipelinedFUs :
        /\ entered[u] <= FuCount[u]
        /\ Cardinality(Cohort(u, 1)) <= entered[u]
        /\ \A age \in Nat : age >= 2 => Cardinality(Cohort(u, age)) <= FuCount[u]

PipelineInv == HolderInv /\ PipelinesOnTime /\ CohortsFit

\* The timing of the code as far as pipelines go: an instruction starts with the
\* latency it was issued with.  The cache changes only that of loads and stores.
KeepsItsLatency ==
    \A k \in DOMAIN active :
        /\ FUOf(k) \in PipelinedFUs /\ ~active[k].executing
        /\ k \in DOMAIN active' /\ active'[k].executing
        => active'[k].remaining = active[k].remaining - 1

LEMMA PipelineFacts ==
    ASSUME PipelineInv
    PROVE  /\ TypeInv /\ TypeOK
           /\ \A u, age : IsFiniteSet(Cohort(u, age)) /\ Cardinality(Cohort(u, age)) \in Nat
           /\ \A k \in DOMAIN active :
                /\ active[k].instr \in WellFormedInstructions
                /\ active[k].remaining \in Nat
                /\ getLatency(active[k].instr.op) \in Nat \ {0}
                /\ Elapsed(k) \in Int /\ Age(k) \in Int
           /\ PipelinedFUs \subseteq FUTypes
           /\ \A u \in PipelinedFUs : entered[u] \in Nat /\ FuCount[u] \in Nat
<1>1. TypeInv /\ TypeOK
    BY HolderFacts DEF PipelineInv
<1>2. \A u, age : Cohort(u, age) \subseteq DOMAIN active
    BY DEF Cohort, ExecutingOn
<1>3. ASSUME NEW k \in DOMAIN active
      PROVE  /\ active[k].instr \in WellFormedInstructions /\ active[k].remaining \in Nat
             /\ getLatency(active[k].instr.op) \in Nat \ {0}
    BY <1>1, ActiveType, LatencyType DEF ActiveRecords
<1>4. \A k \in DOMAIN active : Elapsed(k) \in Int /\ Age(k) \in Int
    BY <1>3 DEF Elapsed, Age
<1>5. PipelinedFUs \subseteq FUTypes
    BY DEF PipelinedFUs, FUTypes
<1>6. \A u \in PipelinedFUs : entered[u] \in Nat /\ FuCount[u] \in Nat
    BY <1>5, HolderFacts DEF PipelineInv
<1> QED
    BY <1>1, <1>2, <1>3, <1>4, <1>5, <1>6, ActiveSetsAreFinite

\* Fewer of an age fit where more did.
LEMMA SmallerCohorts ==
    ASSUME PipelineInv, entered' = entered,
           \A k \in DOMAIN active' : active'[k].executing /\ FUOf(k)' \in PipelinedFUs =>
              /\ k \in DOMAIN active /\ active[k].executing
              /\ active'[k].instr = active[k].instr /\ Age(k)' = Age(k)
    PROVE  CohortsFit'
<1>1. ASSUME NEW u \in PipelinedFUs, NEW age
      PROVE  Cardinality(Cohort(u, age)') \in Nat
             /\ Cardinality(Cohort(u, age)') <= Cardinality(Cohort(u, age))
  <2>1. Cohort(u, age)' \subseteq Cohort(u, age)
      BY DEF Cohort, ExecutingOn, FUOf
  <2>2. IsFiniteSet(Cohort(u, age))
      BY PipelineFacts
  <2> QED
      BY <2>1, <2>2, FS_Subset, FS_CardinalityType
<1>2. ASSUME NEW u \in PipelinedFUs, NEW age, NEW limit \in Nat,
             Cardinality(Cohort(u, age)) <= limit
      PROVE  Cardinality(Cohort(u, age)') <= limit
  <2>1. Cardinality(Cohort(u, age)) \in Nat
      BY PipelineFacts
  <2> QED
      BY <1>1, <1>2, <2>1
<1>3. \A u \in PipelinedFUs : entered[u] \in Nat /\ FuCount[u] \in Nat
    BY PipelineFacts
<1>4. ASSUME NEW u \in PipelinedFUs
      PROVE  /\ entered'[u] <= FuCount[u]
             /\ Cardinality(Cohort(u, 1)') <= entered'[u]
             /\ \A age \in Nat : age >= 2 => Cardinality(Cohort(u, age)') <= FuCount[u]
    BY <1>2, <1>3 DEF PipelineInv, CohortsFit
<1> QED
    BY <1>4 DEF CohortsFit

\* A step that changes no instruction's count, start or turn.
LEMMA SameRecords ==
    ASSUME PipelineInv, entered' = entered,
           \A k \in DOMAIN active' :
              /\ k \in DOMAIN active /\ active'[k].instr = active[k].instr
              /\ active'[k].executing = active[k].executing
              /\ active'[k].remaining = active[k].remaining
              /\ active[k].executing => (YetToVisit(k)' <=> YetToVisit(k))
    PROVE  PipelinesOnTime' /\ CohortsFit'
<1>1. PipelinesOnTime'
    BY DEF PipelineInv, PipelinesOnTime, OnTime, FUOf
<1>2. ASSUME NEW k \in DOMAIN active', active'[k].executing PROVE Age(k)' = Age(k)
    BY <1>2 DEF Age, Elapsed
<1> QED
    BY <1>1, <1>2, SmallerCohorts

\* When a cycle starts, what executes is a cycle older and the first stages are free.
LEMMA OlderCohorts ==
    ASSUME PipelineInv, StartCycle,
           \A k \in DOMAIN active : k \in DOMAIN active' /\ active'[k] = active[k],
           \A k \in DOMAIN active' \ DOMAIN active :
              ~active'[k].executing /\ active'[k].remaining = getLatency(active'[k].instr.op)
    PROVE  PipelinesOnTime' /\ CohortsFit'
<1>1. PipelinesOnTime'
    BY DEF PipelineInv, PipelinesOnTime, OnTime, FUOf
<1>2. ASSUME NEW k \in DOMAIN active PROVE Age(k)' = Age(k) + 1
    BY DEF Age, Elapsed, YetToVisit, StartCycle
<1>3. ASSUME NEW u \in PipelinedFUs, NEW age \in Int
      PROVE  Cohort(u, age)' = Cohort(u, age - 1)
  <2>1. ExecutingOn(u)' = ExecutingOn(u)
      BY DEF ExecutingOn, FUOf
  <2>2. ASSUME NEW k \in ExecutingOn(u) PROVE Age(k)' = age <=> Age(k) = age - 1
    <3>1. k \in DOMAIN active
        BY DEF ExecutingOn
    <3> QED
        BY <1>2, <3>1, PipelineFacts
  <2> QED
      BY <2>1, <2>2 DEF Cohort
<1>4. ASSUME NEW u \in PipelinedFUs PROVE Cohort(u, 0) = {}
  <2>1. SUFFICES ASSUME NEW k \in Cohort(u, 0) PROVE FALSE
      OBVIOUS
  <2>2. k \in DOMAIN active /\ active[k].executing /\ FUOf(k) = u /\ Age(k) = 0
      BY DEF Cohort, ExecutingOn
  <2>3. active[k].remaining < getLatency(active[k].instr.op)
      BY <2>2 DEF PipelineInv, PipelinesOnTime, OnTime
  <2> QED
      BY <2>2, <2>3, PipelineFacts DEF Age, Elapsed, YetToVisit, StartCycle
<1>5. entered' = [u \in FUTypes |-> 0]
    BY DEF StartCycle
<1>6. ASSUME NEW u \in PipelinedFUs
      PROVE  /\ entered'[u] <= FuCount[u]
             /\ Cardinality(Cohort(u, 1)') <= entered'[u]
             /\ \A age \in Nat : age >= 2 => Cardinality(Cohort(u, age)') <= FuCount[u]
  <2>1. /\ entered'[u] = 0 /\ FuCount[u] \in Nat /\ entered[u] \in Nat
        /\ entered[u] <= FuCount[u] /\ Cardinality(Cohort(u, 1)) <= entered[u]
        /\ Cardinality(Cohort(u, 1)) \in Nat
      BY <1>5, PipelineFacts DEF PipelineInv, CohortsFit
  <2>2. Cardinality(Cohort(u, 1)') = 0
      BY <1>3, <1>4, FS_EmptySet
  <2>3. ASSUME NEW age \in Nat, age >= 2
        PROVE  Cardinality(Cohort(u, age)') <= FuCount[u]
    <3>1. Cohort(u, age)' = Cohort(u, age - 1) /\ age - 1 \in Nat
        BY <1>3, <2>3
    <3>2. CASE age = 2
        BY <2>1, <3>1, <3>2
    <3>3. CASE age # 2
        BY <2>3, <3>1, <3>3 DEF PipelineInv, CohortsFit
    <3> QED
        BY <3>2, <3>3
  <2> QED
      BY <2>1, <2>2, <2>3
<1> QED
    BY <1>1, <1>6 DEF CohortsFit
\* The record of an instruction that has started.
LEMMA StartedFields ==
    ASSUME TypeInv, NEW k \in todo, NEW latency, StartWith(k, latency)
    PROVE  /\ k \in DOMAIN active /\ ~active[k].executing /\ OperandsReady(k)
           /\ DOMAIN active' = DOMAIN active
           /\ \A j \in DOMAIN active : j # k => active'[j] = active[j]
           /\ active'[k].instr = active[k].instr /\ active'[k].vj = active[k].vj
           /\ active'[k].qj = active[k].qj /\ active'[k].qk = active[k].qk
           /\ active'[k].executing /\ active'[k].remaining = latency - 1
<1>1. k \in DOMAIN active /\ active[k] \in ActiveRecords
    BY DEF TypeInv, TypeOK
<1>2. ~active[k].executing /\ OperandsReady(k)
    BY DEF StartWith, CanStart
<1>3. active' = [active EXCEPT ![k] = [Checked(k) EXCEPT
                     !.executing = TRUE, !.remaining = latency - 1]]
    BY DEF StartWith
<1>4. "executing" \in DOMAIN Checked(k) /\ "remaining" \in DOMAIN Checked(k)
    BY <1>1, CheckedFields DEF ActiveRecords
<1> DEFINE c == Checked(k)
<1>5. /\ c.instr = active[k].instr /\ c.vj = active[k].vj
      /\ c.qj = active[k].qj /\ c.qk = active[k].qk
    BY <1>1, CheckedFields
<1> DEFINE a == [c EXCEPT !.executing = TRUE, !.remaining = latency - 1]
<1> HIDE DEF c
<1>6. /\ a.instr = c.instr /\ a.vj = c.vj /\ a.qj = c.qj /\ a.qk = c.qk
      /\ a.executing /\ a.remaining = latency - 1
    BY <1>4 DEF c
<1>7. active' = [active EXCEPT ![k] = a]
    BY <1>3 DEF c
<1> HIDE DEF a
<1> QED
    BY <1>1, <1>2, <1>5, <1>6, <1>7

\* A cycle of execution is one of its age.
LEMMA ProgressCohorts ==
    ASSUME PipelineInv, NEW k \in todo, Progress(k)
    PROVE  PipelinesOnTime' /\ CohortsFit'
<1>1. /\ TypeInv /\ k \in DOMAIN active /\ active[k] \in ActiveRecords
      /\ todo \subseteq DOMAIN active
    BY PipelineFacts DEF TypeInv, TypeOK
<1>2. /\ active' = [active EXCEPT ![k].remaining = active[k].remaining - 1]
      /\ active[k].executing /\ phase = "execute" /\ phase' = "execute"
      /\ todo' = todo \ {k} /\ entered' = entered
    BY DEF Progress, Visit, unitVars
<1>3. /\ DOMAIN active' = DOMAIN active
      /\ active'[k].instr = active[k].instr /\ active'[k].executing
      /\ active'[k].remaining = active[k].remaining - 1
      /\ \A j \in DOMAIN active : j # k => active'[j] = active[j]
    BY <1>1, <1>2 DEF ActiveRecords
<1>4. ASSUME NEW j \in DOMAIN active, FUOf(j)' \in PipelinedFUs PROVE OnTime(j)'
  <2>1. FUOf(j) \in PipelinedFUs
      BY <1>3, <1>4 DEF FUOf
  <2>2. OnTime(j)
      BY <2>1 DEF PipelineInv, PipelinesOnTime
  <2>3. CASE j = k
    <3>1. active[k].remaining \in Nat /\ getLatency(active[k].instr.op) \in Nat
        BY <1>1, PipelineFacts
    <3> QED
        BY <1>2, <1>3, <2>2, <2>3, <3>1 DEF OnTime
  <2>4. CASE j # k
      BY <1>3, <2>2, <2>4 DEF OnTime
  <2> QED
      BY <2>3, <2>4
<1>5. ASSUME NEW j \in DOMAIN active PROVE Age(j)' = Age(j)
  <2>1. CASE j = k
    <3>1. active[k].remaining \in Nat /\ getLatency(active[k].instr.op) \in Nat
        BY <1>1, PipelineFacts
    <3> QED
        BY <1>2, <1>3, <2>1, <3>1 DEF Age, Elapsed, YetToVisit
  <2>2. CASE j # k
      BY <1>2, <1>3, <2>2 DEF Age, Elapsed, YetToVisit
  <2> QED
      BY <2>1, <2>2
<1>6. PipelinesOnTime'
    BY <1>3, <1>4 DEF PipelinesOnTime
<1>7. ASSUME NEW j \in DOMAIN active', active'[j].executing
      PROVE  /\ j \in DOMAIN active /\ active[j].executing
             /\ active'[j].instr = active[j].instr /\ Age(j)' = Age(j)
    BY <1>2, <1>3, <1>5, <1>7
<1> QED
    BY <1>2, <1>6, <1>7, SmallerCohorts

\* An instruction that starts is of age one, in a first stage that was free.
LEMMA StartCohorts ==
    ASSUME PipelineInv, KeepsItsLatency, NEW k \in todo, NEW latency \in Nat \ {0},
           StartWith(k, latency)
    PROVE  PipelinesOnTime' /\ CohortsFit'
<1>1. /\ TypeInv /\ k \in DOMAIN active /\ todo \subseteq DOMAIN active
    BY PipelineFacts DEF TypeInv, TypeOK
<1>2. /\ ~active[k].executing /\ DOMAIN active' = DOMAIN active
      /\ \A j \in DOMAIN active : j # k => active'[j] = active[j]
      /\ active'[k].instr = active[k].instr /\ active'[k].executing
    BY <1>1, StartedFields
<1>3. /\ phase = "execute" /\ phase' = "execute" /\ todo' = todo \ {k}
      /\ fuAvailable(FUOf(k))
      /\ entered' = IF FUOf(k) \in PipelinedFUs
                    THEN [entered EXCEPT ![FUOf(k)] = @ + 1] ELSE entered
    BY DEF StartWith, Visit, CanStart
<1>4. ASSUME FUOf(k) \in PipelinedFUs
      PROVE  active'[k].remaining = getLatency(active[k].instr.op) - 1
    BY <1>1, <1>2, <1>4 DEF KeepsItsLatency, PipelineInv, PipelinesOnTime, OnTime
<1>5. PipelinesOnTime'
  <2>1. SUFFICES ASSUME NEW j \in DOMAIN active, FUOf(j)' \in PipelinedFUs
                 PROVE  OnTime(j)'
      BY <1>2 DEF PipelinesOnTime
  <2>2. FUOf(j) \in PipelinedFUs
      BY <1>2, <2>1 DEF FUOf
  <2>3. CASE j = k
    <3>1. getLatency(active[k].instr.op) \in Nat
        BY <1>1, PipelineFacts
    <3> QED
        BY <1>2, <1>4, <2>2, <2>3, <3>1 DEF OnTime
  <2>4. CASE j # k
      BY <1>2, <2>2, <2>4 DEF PipelineInv, PipelinesOnTime, OnTime
  <2> QED
      BY <2>3, <2>4
<1>6. ASSUME NEW j \in DOMAIN active, j # k PROVE Age(j)' = Age(j)
    BY <1>2, <1>3, <1>6 DEF Age, Elapsed, YetToVisit
<1>7. ASSUME FUOf(k) \in PipelinedFUs PROVE Age(k)' = 1
  <2>1. getLatency(active[k].instr.op) \in Nat
      BY <1>1, PipelineFacts
  <2> QED
      BY <1>2, <1>3, <1>4, <1>7, <2>1 DEF Age, Elapsed, YetToVisit
<1>8. ASSUME NEW u \in PipelinedFUs
      PROVE  /\ entered'[u] <= FuCount[u]
             /\ Cardinality(Cohort(u, 1)') <= entered'[u]
             /\ \A age \in Nat : age >= 2 => Cardinality(Cohort(u, age)') <= FuCount[u]
  <2>1. /\ entered[u] <= FuCount[u] /\ Cardinality(Cohort(u, 1)) <= entered[u]
        /\ \A age \in Nat : age >= 2 => Cardinality(Cohort(u, age)) <= FuCount[u]
      BY DEF PipelineInv, CohortsFit
  <2>2. CASE u # FUOf(k)
    <3>1. ASSUME NEW age PROVE Cohort(u, age)' = Cohort(u, age)
        BY <1>2, <1>6, <2>2 DEF Cohort, ExecutingOn, FUOf
    <3>2. entered'[u] = entered[u]
        BY <1>3, <2>2
    <3> QED
        BY <2>1, <3>1, <3>2
  <2>3. CASE u = FUOf(k)
    <3>1. ExecutingOn(u)' = ExecutingOn(u) \cup {k} /\ k \notin ExecutingOn(u)
        BY <1>1, <1>2, <2>3 DEF ExecutingOn, FUOf
    <3>2. \A j \in ExecutingOn(u) : Age(j)' = Age(j)
        BY <1>6, <3>1 DEF ExecutingOn
    <3>3. Cohort(u, 1)' = Cohort(u, 1) \cup {k} /\ k \notin Cohort(u, 1)
        BY <1>7, <2>3, <3>1, <3>2 DEF Cohort
    <3>4. ASSUME NEW age \in Nat, age >= 2 PROVE Cohort(u, age)' = Cohort(u, age)
        BY <1>7, <2>3, <3>1, <3>2, <3>4 DEF Cohort
    <3>5. Cardinality(Cohort(u, 1)') = Cardinality(Cohort(u, 1)) + 1
        BY <3>3, PipelineFacts, FS_AddElement
    <3>6. entered'[u] = entered[u] + 1 /\ entered[u] < FuCount[u]
      <4>1. u \in FUTypes /\ entered \in [FUTypes -> Nat]
          BY HolderFacts DEF PipelineInv, PipelinedFUs, FUTypes
      <4> QED
          BY <1>3, <2>3, <4>1 DEF fuAvailable
    <3>7. entered[u] \in Nat /\ FuCount[u] \in Nat /\ Cardinality(Cohort(u, 1)) \in Nat
        BY PipelineFacts
    <3> QED
        BY <2>1, <3>4, <3>5, <3>6, <3>7
  <2> QED
      BY <2>2, <2>3
<1> QED
    BY <1>5, <1>8 DEF CohortsFit

LEMMA InitPipelines == Init => PipelineInv
<1> SUFFICES ASSUME Init PROVE PipelineInv
    OBVIOUS
<1>1. HolderInv
    BY InitHolders
<1>2. DOMAIN active = {} /\ entered = [u \in FUTypes |-> 0]
    BY DEF Init, EmptyFunction
<1>3. \A u, age : Cohort(u, age) = {}
    BY <1>2 DEF Cohort, ExecutingOn
<1>4. PipelinesOnTime
    BY <1>2 DEF PipelinesOnTime
<1>5. PipelinedFUs \subseteq FUTypes /\ \A u \in FUTypes : FuCount[u] \in Nat \ {0}
    BY FuCountAssumption DEF PipelinedFUs, FUTypes
<1>6. \A u \in PipelinedFUs : entered[u] = 0 /\ FuCount[u] \in Nat
    BY <1>2, <1>5
<1>7. \A u, age : Cardinality(Cohort(u, age)) = 0
    BY <1>3, FS_EmptySet
<1>8. CohortsFit
    BY <1>6, <1>7 DEF CohortsFit
<1> QED
    BY <1>1, <1>4, <1>8 DEF PipelineInv

LEMMA AnyTimingPipelines ==
    PipelineInv /\ [NextAnyTiming]_vars /\ KeepsItsLatency => PipelineInv'
<1> SUFFICES ASSUME PipelineInv, [NextAnyTiming]_vars, KeepsItsLatency PROVE PipelineInv'
    OBVIOUS
<1>1. HolderInv' /\ TypeInv /\ todo \subseteq DOMAIN active
    BY PipelineFacts, AnyTimingHolders DEF PipelineInv, TypeInv, TypeOK
<1>2. ASSUME NEW predictedTaken \in BOOLEAN, Issue(predictedTaken)
      PROVE  PipelinesOnTime' /\ CohortsFit'
  <2> DEFINE a == IssuedInstruction(NextInstruction, predictedTaken)
  <2>1. StartCycle /\ active' = Extend(active, nextId, a)
      BY <1>2 DEF Issue
  <2>2. ~a.executing /\ a.remaining = getLatency(a.instr.op)
      BY DEF IssuedInstruction
  <2>3. nextId \notin DOMAIN active
      BY <1>1 DEF TypeInv, TypeOK, Ids
  <2> HIDE DEF a
  <2>4. /\ DOMAIN active' = DOMAIN active \cup {nextId} /\ active'[nextId] = a
        /\ \A k \in DOMAIN active : active'[k] = active[k]
      BY <2>1, <2>3 DEF Extend
  <2>5. /\ \A k \in DOMAIN active : k \in DOMAIN active' /\ active'[k] = active[k]
        /\ \A k \in DOMAIN active' \ DOMAIN active :
              ~active'[k].executing /\ active'[k].remaining = getLatency(active'[k].instr.op)
      BY <2>2, <2>4
  <2> QED
      BY <2>1, <2>5, OlderCohorts
<1>3. ASSUME StallIssue PROVE PipelinesOnTime' /\ CohortsFit'
  <2>1. StartCycle /\ active' = active
      BY <1>3 DEF StallIssue
  <2> QED
      BY <2>1, OlderCohorts
<1>4. ASSUME NEW k \in todo, VisitAnyTiming(k) PROVE PipelinesOnTime' /\ CohortsFit'
  <2>1. ASSUME Hold(k) PROVE PipelinesOnTime' /\ CohortsFit'
    <3>1. /\ active' = [active EXCEPT ![k] = Checked(k)] /\ ~active[k].executing
          /\ entered' = entered /\ phase' = phase /\ todo' = todo \ {k}
        BY <2>1 DEF Hold, Visit, unitVars
    <3>2. /\ Checked(k).instr = active[k].instr /\ Checked(k).executing = active[k].executing
          /\ Checked(k).remaining = active[k].remaining
        BY <1>1, CheckedFields
    <3>3. ASSUME NEW j \in DOMAIN active'
          PROVE  /\ j \in DOMAIN active /\ active'[j].instr = active[j].instr
                 /\ active'[j].executing = active[j].executing
                 /\ active'[j].remaining = active[j].remaining
                 /\ active[j].executing => (YetToVisit(j)' <=> YetToVisit(j))
      <4>1. CASE j = k
          BY <1>1, <3>1, <3>2, <4>1
      <4>2. CASE j # k
          BY <3>1, <4>2 DEF YetToVisit
      <4> QED
          BY <4>1, <4>2
    <3> QED
        BY <3>1, <3>3, SameRecords
  <2> QED
      BY <1>4, <2>1, ProgressCohorts, StartCohorts DEF VisitAnyTiming
<1>5. ASSUME NEW b \in DOMAIN cdbQueue, Broadcast(b)
      PROVE  PipelinesOnTime' /\ CohortsFit'
  <2>1. entered' = entered /\ phase = "broadcast" /\ phase' = "complete"
      BY <1>5 DEF Broadcast, BroadcastStage, unitVars
  <2>2. ASSUME NEW j \in DOMAIN active'
        PROVE  /\ j \in DOMAIN active /\ active'[j].instr = active[j].instr
               /\ active'[j].executing = active[j].executing
               /\ active'[j].remaining = active[j].remaining
    <3>1. active' = [i \in DOMAIN active |-> Woken(active[i], cdbQueue[b])]
        BY <1>5 DEF Broadcast
    <3>2. j \in DOMAIN active /\ active[j] \in ActiveRecords
        BY <1>1, <3>1 DEF TypeInv, TypeOK
    <3> QED
        BY <3>1, <3>2 DEF Woken, ActiveRecords
  <2>3. \A j : YetToVisit(j)' <=> YetToVisit(j)
      BY <2>1 DEF YetToVisit
  <2> QED
      BY <2>1, <2>2, <2>3, SameRecords
<1>6. ASSUME NEW k \in todo, \/ CompleteRegister(k) \/ CompleteStore(k)
                             \/ ResolveCorrect(k) \/ ResolveMispredicted(k)
      PROVE  PipelinesOnTime' /\ CohortsFit'
  <2>1. phase = "complete" /\ phase' = "complete" /\ entered' = entered
      BY <1>6 DEF CompleteRegister, CompleteStore, ResolveCorrect, ResolveMispredicted, Complete
  <2>2. active' = Remove(active, k) \/ active' = Remove(UpTo(active, k), k)
      BY <1>6 DEF CompleteRegister, CompleteStore, ResolveCorrect, ResolveMispredicted, Retire
  <2>3. \A j \in DOMAIN active' : j \in DOMAIN active /\ active'[j] = active[j]
      BY <2>2 DEF Remove, UpTo, Restrict
  <2>4. \A j : YetToVisit(j)' <=> YetToVisit(j)
      BY <2>1 DEF YetToVisit
  <2> QED
      BY <2>1, <2>3, <2>4, SameRecords
<1>7. ASSUME \/ Finish \/ Commit \/ NoCommit \/ NoBroadcast \/ EndCycle \/ Done
             \/ UNCHANGED vars
      PROVE  PipelinesOnTime' /\ CohortsFit'
  <2>1. active' = active /\ entered' = entered
      BY <1>7 DEF Finish, Commit, NoCommit, CommitStage, NoBroadcast, BroadcastStage,
         EndCycle, Done, vars, unitVars
  <2>2. \A j : YetToVisit(j)' <=> YetToVisit(j)
      BY <1>7 DEF YetToVisit, Finish, Commit, NoCommit, CommitStage, NoBroadcast,
         BroadcastStage, EndCycle, Done, vars
  <2> QED
      BY <2>1, <2>2, SameRecords
<1> QED
    BY <1>1, <1>2, <1>3, <1>4, <1>5, <1>6, <1>7 DEF NextAnyTiming, PipelineInv

-----------------------------------------------------------------------------
(* The limit of a pipeline                                                   *)

\* An instruction in a pipeline is at least one cycle old and at most the longest
\* latency the pipeline serves.
LEMMA AgesAreBounded ==
    ASSUME PipelineInv, NEW u \in PipelinedFUs, NEW k \in ExecutingOn(u)
    PROVE  Age(k) \in 1 .. LongestLatency(u)
<1>1. k \in DOMAIN active /\ active[k].executing /\ FUOf(k) = u
    BY DEF ExecutingOn
<1>2. /\ active[k].remaining \in Nat /\ getLatency(active[k].instr.op) \in Nat \ {0}
      /\ active[k].instr \in WellFormedInstructions
    BY <1>1, PipelineFacts
<1>3. active[k].remaining < getLatency(active[k].instr.op)
    BY <1>1 DEF PipelineInv, PipelinesOnTime, OnTime
<1>4. active[k].remaining = 0 => ~YetToVisit(k)
    BY <1>1, PipelineFacts DEF TypeInv, CountdownIsCaught, YetToVisit
<1>5. /\ LongestLatency(u) \in Nat
      /\ getLatency(active[k].instr.op) <= LongestLatency(u)
  <2>1. /\ Latency["fpAdd"] \in Nat /\ Latency["fpMul"] \in Nat /\ Latency["fpDiv"] \in Nat
      BY LatencyAssumption DEF LatencyClasses
  <2>2. active[k].instr.op \in OpCodes /\ getFUType(active[k].instr.op) = u
      BY <1>1, <1>2 DEF FUOf, WellFormedInstructions, Instructions
  <2>3. /\ u = "FP_ADD" => active[k].instr.op \in {"FADD", "FSUB"}
        /\ u = "FP_MUL" => active[k].instr.op \in {"FMUL", "FDIV"}
      BY <2>2 DEF getFUType, OpCodes, ArithmeticOps, BranchOps
  <2>4. CASE u = "FP_ADD"
      BY <2>1, <2>3, <2>4 DEF LongestLatency, getLatency, latencyClass
  <2>5. CASE u = "FP_MUL"
      BY <2>1, <2>3, <2>5 DEF LongestLatency, getLatency, latencyClass
  <2> QED
      BY <2>4, <2>5 DEF PipelinedFUs
<1> QED
    BY <1>2, <1>3, <1>4, <1>5 DEF Age, Elapsed

\* A set that splits by a function into at most m parts of at most n elements has at
\* most n * m elements.
LEMMA PartsBound ==
    ASSUME NEW S, IsFiniteSet(S), NEW m \in Nat, NEW n \in Nat, NEW f \in [S -> 1 .. m],
           \A a \in 1 .. m : Cardinality({s \in S : f[s] = a}) <= n
    PROVE  Cardinality(S) <= n * m
<1> DEFINE Part(a) == {s \in S : f[s] = a}
           Numbering(a) == CHOOSE g : g \in Injection(Part(a), 1 .. n)
<1>1. ASSUME NEW a \in 1 .. m PROVE Numbering(a) \in Injection(Part(a), 1 .. n)
  <2>1. IsFiniteSet(Part(a)) /\ Cardinality(Part(a)) <= n
      BY FS_Subset
  <2> HIDE DEF Part
  <2>2. Cardinality(Part(a)) \in Nat /\ ExistsBijection(1 .. Cardinality(Part(a)), Part(a))
      BY <2>1, FS_CardinalityType
  <2>3. PICK g : g \in Bijection(1 .. Cardinality(Part(a)), Part(a))
      BY <2>2 DEF ExistsBijection
  <2> DEFINE c == Cardinality(Part(a))
             h == [s \in Part(a) |-> CHOOSE i \in 1 .. c : g[i] = s]
  <2>4. ASSUME NEW s \in Part(a) PROVE h[s] \in 1 .. c /\ g[h[s]] = s
    <3>1. \E i \in 1 .. c : g[i] = s
        BY <2>3 DEF Bijection, Surjection
    <3> QED
        BY <3>1
  <2>5. \A i \in 1 .. c : i \in 1 .. n
      BY <2>1, <2>2
  <2> HIDE DEF c
  <2>6. h \in [Part(a) -> 1 .. n]
      BY <2>4, <2>5
  <2>7. \A s, t \in Part(a) : h[s] = h[t] => s = t
      BY <2>4
  <2> HIDE DEF h
  <2>8. h \in Injection(Part(a), 1 .. n)
      BY <2>6, <2>7 DEF Injection, IsInjective
  <2> QED
      BY <2>8
<1> DEFINE place == [s \in S |-> <<f[s], Numbering(f[s])[s]>>]
<1>2. ASSUME NEW s \in S
      PROVE  f[s] \in 1 .. m /\ s \in Part(f[s]) /\ Numbering(f[s])[s] \in 1 .. n
    BY <1>1 DEF Injection
<1>3. ASSUME NEW s \in S, NEW t \in S, f[s] = f[t], Numbering(f[s])[s] = Numbering(f[t])[t]
      PROVE  s = t
  <2>1. s \in Part(f[s]) /\ t \in Part(f[s]) /\ f[s] \in 1 .. m
      BY <1>2, <1>3
  <2>2. Numbering(f[s]) \in Injection(Part(f[s]), 1 .. n)
      BY <1>1, <2>1
  <2> HIDE DEF Numbering, Part
  <2> QED
      BY <1>3, <2>1, <2>2 DEF Injection, IsInjective
<1> HIDE DEF Numbering, Part
<1>4. place \in [S -> (1 .. m) \X (1 .. n)]
    BY <1>2
<1>5. \A s, t \in S : place[s] = place[t] => s = t
    BY <1>3
<1> HIDE DEF place
<1>6. place \in Injection(S, (1 .. m) \X (1 .. n))
    BY <1>4, <1>5 DEF Injection, IsInjective
<1> DEFINE P == 1 .. m
           Q == 1 .. n
<1>7. IsFiniteSet(P) /\ Cardinality(P) = m /\ IsFiniteSet(Q) /\ Cardinality(Q) = n
    BY FS_Interval
<1>8. place \in Injection(S, P \X Q)
    BY <1>6
<1> HIDE DEF P, Q
<1>9. IsFiniteSet(P \X Q) /\ Cardinality(P \X Q) = Cardinality(P) * Cardinality(Q)
    BY <1>7, FS_Product
<1>10. Cardinality(S) <= Cardinality(P \X Q)
    BY <1>8, <1>9, FS_Injection
<1>11. m * n = n * m
    OBVIOUS
<1> QED
    BY <1>7, <1>9, <1>10, <1>11

LEMMA PipelinesConserve == PipelineInv => UnitsAreConserved
<1> SUFFICES ASSUME PipelineInv, NEW u \in FUTypes
             PROVE  /\ busyUnits[u] = Cardinality(ExecutingOn(u))
                    /\ busyUnits[u] <= UnitLimit(u)
    BY DEF UnitsAreConserved
<1>1. busyUnits[u] = Cardinality(ExecutingOn(u))
    BY DEF PipelineInv, HolderInv, HoldersAreCounted
<1>2. CASE u \notin PipelinedFUs
    BY <1>1, <1>2 DEF PipelineInv, HolderInv, SingleUnitsInLimit, UnitLimit
<1>3. CASE u \in PipelinedFUs
  <2> DEFINE f == [k \in ExecutingOn(u) |-> Age(k)]
  <2>1. LongestLatency(u) \in Nat
      BY LatencyAssumption DEF LongestLatency, LatencyClasses
  <2>2. f \in [ExecutingOn(u) -> 1 .. LongestLatency(u)]
      BY <1>3, AgesAreBounded
  <2>3. ASSUME NEW a \in 1 .. LongestLatency(u)
        PROVE  Cardinality({k \in ExecutingOn(u) : f[k] = a}) <= FuCount[u]
    <3> DEFINE T == {k \in ExecutingOn(u) : f[k] = a}
    <3>1. T = Cohort(u, a)
        BY DEF Cohort
    <3> SUFFICES Cardinality(T) <= FuCount[u]
        OBVIOUS
    <3> HIDE DEF T, f
    <3>2. /\ entered[u] <= FuCount[u] /\ Cardinality(Cohort(u, 1)) <= entered[u]
          /\ \A age \in Nat : age >= 2 => Cardinality(Cohort(u, age)) <= FuCount[u]
        BY <1>3 DEF PipelineInv, CohortsFit
    <3>3. entered[u] \in Nat /\ FuCount[u] \in Nat /\ Cardinality(Cohort(u, 1)) \in Nat
        BY <1>3, PipelineFacts
    <3>4. a \in Nat /\ a >= 1
        BY <2>1
    <3>5. CASE a = 1
        BY <3>1, <3>2, <3>3, <3>5
    <3>6. CASE a # 1
        BY <3>1, <3>2, <3>4, <3>6
    <3> QED
        BY <3>5, <3>6
  <2> HIDE DEF f
  <2>4. IsFiniteSet(ExecutingOn(u)) /\ FuCount[u] \in Nat
      BY <1>3, HolderFacts, PipelineFacts DEF PipelineInv
  <2>5. Cardinality(ExecutingOn(u)) <= FuCount[u] * LongestLatency(u)
      BY <2>1, <2>2, <2>3, <2>4, PartsBound
  <2> QED
      BY <1>1, <1>3, <2>5 DEF UnitLimit
<1> QED
    BY <1>1, <1>2, <1>3

\* The latencies of ArchitectureConfig are those instructions are issued with.
LEMMA NextKeepsLatencies == TypeInv /\ [Next]_vars => KeepsItsLatency
<1> SUFFICES ASSUME TypeInv, [Next]_vars,
                    NEW k \in DOMAIN active, k \in DOMAIN active',
                    FUOf(k) \in PipelinedFUs, ~active[k].executing, active'[k].executing
             PROVE  active'[k].remaining = active[k].remaining - 1
    BY DEF KeepsItsLatency
<1>1. ASSUME NEW j \in todo, Start(j)
      PROVE  active'[k].remaining = active[k].remaining - 1
  <2>1. startLatency(j) \in Nat \ {0} /\ StartWith(j, startLatency(j))
      BY <1>1, StartLatencyType DEF Start
  <2>2. j = k
      BY <2>1, StartedFields
  <2>3. ~IsMemoryOp(active[k].instr)
      BY DEF FUOf, PipelinedFUs, IsMemoryOp, getFUType
  <2> QED
      BY <2>1, <2>2, <2>3, StartedFields DEF startLatency
<1>2. ASSUME NEW j \in todo, Progress(j)
      PROVE  active'[k].remaining = active[k].remaining - 1
  <2>1. active' = [active EXCEPT ![j].remaining = @ - 1] /\ active[j].executing
      BY <1>2 DEF Progress
  <2> QED
      BY <2>1
<1>3. ASSUME NEW j \in todo, Wait(j)
      PROVE  active'[k].remaining = active[k].remaining - 1
  <2>1. active' = [active EXCEPT ![j] = Checked(j)]
      BY <1>3 DEF Wait, Hold
  <2>2. j \in DOMAIN active /\ Checked(j).executing = active[j].executing
      BY CheckedFields DEF TypeInv, TypeOK
  <2> QED
      BY <2>1, <2>2
<1>4. ASSUME NEW predictedTaken \in BOOLEAN, Issue(predictedTaken)
      PROVE  active'[k].remaining = active[k].remaining - 1
  <2>1. active' = Extend(active, nextId, IssuedInstruction(NextInstruction, predictedTaken))
      BY <1>4 DEF Issue
  <2>2. k # nextId
      BY DEF TypeInv, TypeOK, Ids
  <2> QED
      BY <2>1, <2>2 DEF Extend
<1>5. ASSUME NEW b \in DOMAIN cdbQueue, Broadcast(b)
      PROVE  active'[k].remaining = active[k].remaining - 1
    BY <1>5, WokenFields
<1>6. ASSUME NEW j \in todo, \/ CompleteRegister(j) \/ CompleteStore(j)
                             \/ ResolveCorrect(j) \/ ResolveMispredicted(j)
      PROVE  active'[k].remaining = active[k].remaining - 1
  <2>1. active' = Remove(active, j) \/ active' = Remove(UpTo(active, j), j)
      BY <1>6 DEF CompleteRegister, CompleteStore, ResolveCorrect, ResolveMispredicted, Retire
  <2> QED
      BY <2>1 DEF Remove, UpTo, Restrict
<1>7. ASSUME \/ StallIssue \/ Finish \/ Commit \/ NoCommit \/ NoBroadcast \/ EndCycle \/ Done
             \/ UNCHANGED vars
      PROVE  active'[k].remaining = active[k].remaining - 1
  <2>1. active' = active
      BY <1>7 DEF StallIssue, Finish, Commit, NoCommit, CommitStage, NoBroadcast,
         EndCycle, Done, vars
  <2> QED
      BY <2>1
<1> QED
    BY <1>1, <1>2, <1>3, <1>4, <1>5, <1>6, <1>7 DEF Next

(***************************************************************************)
(* For every machine, program and setup: a unit is counted busy for exactly *)
(* the instructions that execute on it, so that starts, completions and      *)
(* flushes neither leak a unit nor free one twice; a unit that is no pipeline *)
(* is never held by more instructions than there are units, and a pipeline   *)
(* never by more than FuCount for each cycle of its longest latency.         *)
(***************************************************************************)
THEOREM UnitsConserved == Spec => []UnitsAreConserved
<1>1. PipelineInv /\ [Next]_vars => PipelineInv'
    BY NextIsAnyTiming, NextKeepsLatencies, AnyTimingPipelines, PipelineFacts
<1> QED
    BY <1>1, InitPipelines, PipelinesConserve, PTL DEF Spec
=============================================================================

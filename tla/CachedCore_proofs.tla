-------------------------- MODULE CachedCore_proofs --------------------------
(* The cycle loop with its data cache, for every cache geometry and latency:  *)
(* what was proved of the loop whatever its timing, and the correspondence    *)
(* of the loop's memory operations with the accesses the cache has started.   *)
EXTENDS TomasuloL1D, Sequential_proofs

-----------------------------------------------------------------------------
(* The cache is one timing                                                   *)

\* The cache never answers with a latency of zero.
LEMMA AccessLatency ==
    ASSUME NEW address, NEW isStore
    PROVE  L1D!access(address, isStore).latency \in Nat \ {0}
BY L1DAssumption DEF L1D!access

\* Every step of the loop with its cache is a step of the loop with some timing.
LEMMA CachedIsAnyTiming == TypeInv /\ [NextL1D]_varsL1D => [NextAnyTiming]_vars
<1> SUFFICES ASSUME TypeInv, [NextL1D]_varsL1D PROVE [NextAnyTiming]_vars
    OBVIOUS
<1>1. ASSUME NEW k \in todo, StartAccess(k) PROVE VisitAnyTiming(k)
    BY <1>1, AccessLatency DEF StartAccess, VisitAnyTiming
<1>2. ASSUME NEW k \in todo, StartWithoutCache(k) PROVE VisitAnyTiming(k)
    BY <1>2, StartLatencyType DEF StartWithoutCache, Start, VisitAnyTiming
<1>3. ASSUME NEW k \in todo, WaitL1D(k) PROVE VisitAnyTiming(k)
    BY <1>3 DEF WaitL1D, VisitAnyTiming
<1>4. ASSUME NEW k \in todo, CompleteL1D(k) \/ ResolveMispredictedL1D(k)
      PROVE  NextAnyTiming
    BY <1>4 DEF CompleteL1D, ResolveMispredictedL1D, NextAnyTiming
<1>5. ASSUME NEW k \in todo, Progress(k) PROVE VisitAnyTiming(k)
    BY <1>5 DEF VisitAnyTiming
<1>6. CASE UNCHANGED varsL1D
    BY <1>6 DEF varsL1D
<1> QED
    BY <1>1, <1>2, <1>3, <1>4, <1>5, <1>6 DEF NextL1D, NextAnyTiming

\* The loop with its cache starts as the loop does, and every step keeps what is
\* inductive whatever the timing.
LEMMA InitCachedFates == InitL1D => FateInv
BY InitFates DEF InitL1D

LEMMA CachedFates == FateInv /\ [NextL1D]_varsL1D => FateInv' /\ [WrongPathOnly]_vars
BY CachedIsAnyTiming, AnyTimingFates DEF FateInv, RobInv

(***************************************************************************)
(* With the cache, as without it, every variable of the loop keeps its type *)
(* and no cycle count passes zero: the latency a miss adds is counted down   *)
(* like any other.                                                           *)
(***************************************************************************)
THEOREM CachedTypeCorrect == SpecL1D => [](TypeOK /\ CountdownIsCaught)
<1>1. FateInv => TypeOK /\ CountdownIsCaught
    BY DEF FateInv, RobInv, TypeInv
<1> QED
    BY <1>1, InitCachedFates, CachedFates, PTL DEF SpecL1D

(***************************************************************************)
(* With the cache, too, the busy ROB entries are those from head to tail in *)
(* program order, and every issued instruction is in flight, committed or    *)
(* flushed, and only one of these.                                           *)
(***************************************************************************)
THEOREM CachedWindowAndFates == SpecL1D => [](RobIsWindow /\ EveryInstructionHasOneFate)
<1>1. FateInv => RobIsWindow /\ EveryInstructionHasOneFate
    BY DEF FateInv, RobInv
<1> QED
    BY <1>1, InitCachedFates, CachedFates, PTL DEF SpecL1D

(***************************************************************************)
(* With the cache, too, only an older branch that resolves against its       *)
(* prediction flushes an instruction, and only in that step.                 *)
(***************************************************************************)
THEOREM CachedWrongPathFlushed == SpecL1D => OnlyTheWrongPathIsFlushed
<1>1. SpecL1D => [][WrongPathOnly]_vars
    BY InitCachedFates, CachedFates, PTL DEF SpecL1D
<1> QED
    BY <1>1 DEF OnlyTheWrongPathIsFlushed, WrongPathOnly

\* So is what is inductive of the data flow.
LEMMA InitCachedResults == InitL1D => ResultInv
BY InitResults DEF InitL1D

LEMMA CachedResults == ResultInv /\ [NextL1D]_varsL1D => ResultInv'
BY CachedIsAnyTiming, AnyTimingResults DEF ResultInv, FateInv, RobInv

(***************************************************************************)
(* With the cache, too, every unfinished ROB entry is owed its result once,  *)
(* every waiting operand names the older instruction it waits for, and a     *)
(* rename names the register's youngest writer in flight: the delay of a     *)
(* miss and the cancelling of one neither lose nor redirect a result.        *)
(***************************************************************************)
THEOREM CachedResultsOwedOnce ==
    SpecL1D => [](ResultsAreOwedOnce /\ WaitersHaveProducers /\ RenameIsYoungestWriter)
<1>1. ResultInv => ResultsAreOwedOnce /\ WaitersHaveProducers /\ RenameIsYoungestWriter
    BY ResultsBySlot
<1> QED
    BY <1>1, InitCachedResults, CachedResults, PTL DEF SpecL1D

\* And what is inductive of the load/store queue.
LEMMA InitCachedMemory == InitL1D => MemoryInv
BY InitMemory DEF InitL1D

LEMMA CachedMemory == MemoryInv /\ [NextL1D]_varsL1D => MemoryInv'
BY CachedIsAnyTiming, AnyTimingMemory DEF MemoryInv, QueueInv, ResultInv, FateInv, RobInv

(***************************************************************************)
(* With the cache, too, the queue holds the memory operations in flight, and *)
(* no store finds a younger load past it, however long the misses of either  *)
(* take.                                                                     *)
(***************************************************************************)
THEOREM CachedLoadsSeeLatest == SpecL1D => [](LsqMatchesRob /\ LoadsSeeLatestStore)
<1>1. MemoryInv => LsqMatchesRob /\ LoadsSeeLatestStore
    BY QueueBySlot, SafeLoadsSeeLatest DEF MemoryInv
<1> QED
    BY <1>1, InitCachedMemory, CachedMemory, PTL DEF SpecL1D

\* The cache gives latencies to loads and stores only.
LEMMA CachedKeepsLatencies == TypeInv /\ [NextL1D]_varsL1D => KeepsItsLatency
<1> SUFFICES ASSUME TypeInv, [NextL1D]_varsL1D PROVE KeepsItsLatency
    OBVIOUS
<1>1. CASE [Next]_vars
    BY <1>1, NextKeepsLatencies
<1>2. ASSUME NEW j \in todo, WaitL1D(j) PROVE KeepsItsLatency
  <2>1. active' = [active EXCEPT ![j] = Checked(j)]
      BY <1>2 DEF WaitL1D, Hold
  <2>2. j \in DOMAIN active /\ Checked(j).executing = active[j].executing
      BY CheckedFields DEF TypeInv, TypeOK
  <2> QED
      BY <2>1, <2>2 DEF KeepsItsLatency
<1>3. ASSUME NEW j \in todo, StartAccess(j) PROVE KeepsItsLatency
  <2>1. /\ FUOf(j) \notin PipelinedFUs
        /\ \A k \in DOMAIN active : k # j => active'[k] = active[k]
    <3>1. \E latency : StartWith(j, latency)
        BY <1>3 DEF StartAccess
    <3>2. active[j].instr.op \in {"LD", "SD"}
        BY <1>3 DEF StartAccess, UsesCache, IsMemoryOp
    <3> QED
        BY <3>1, <3>2, StartedFields DEF FUOf, getFUType, PipelinedFUs
  <2> QED
      BY <2>1 DEF KeepsItsLatency
<1>4. [Next]_vars \/ \E j \in todo : WaitL1D(j) \/ StartAccess(j)
  <2>1. CASE UNCHANGED varsL1D
      BY <2>1 DEF varsL1D
  <2>2. CASE NextL1D
      BY <2>2 DEF NextL1D, Next, StartWithoutCache, CompleteL1D, ResolveMispredictedL1D
  <2> QED
      BY <2>1, <2>2
<1> QED
    BY <1>1, <1>2, <1>3, <1>4

(***************************************************************************)
(* With the cache, too, units are neither leaked nor freed twice and stay    *)
(* within their limits: a miss keeps a memory unit for as long as it lasts    *)
(* and a flush gives it back.                                                 *)
(***************************************************************************)
THEOREM CachedUnitsConserved == SpecL1D => []UnitsAreConserved
<1>1. InitL1D => PipelineInv
    BY InitPipelines DEF InitL1D
<1>2. PipelineInv /\ [NextL1D]_varsL1D => PipelineInv'
    BY CachedIsAnyTiming, CachedKeepsLatencies, AnyTimingPipelines, PipelineFacts
<1> QED
    BY <1>1, <1>2, PipelinesConserve, PTL DEF SpecL1D

LEMMA CachedSequential ==
    SequentialInv /\ NoProducerMeansLatest /\ [NextL1D]_varsL1D =>
        SequentialInv' /\ [ISA!Next]_(ISA!vars)
<1>1. SequentialInv => TypeInv
    BY MemoryFacts DEF SequentialInv
<1> QED
    BY <1>1, CachedIsAnyTiming, AnyTimingSequential, StepIsSequential

(***************************************************************************)
(* With the cache, too, a program that does not write R0 commits as the      *)
(* sequential machine does for as long as a register without a rename has no  *)
(* writer in flight: hits and misses change when, never what, it computes.    *)
(***************************************************************************)
THEOREM CachedSequentialWhileRenamed ==
    ASSUME ProgramsSpareR0
    PROVE  SpecL1D /\ []NoProducerMeansLatest => CommitsSequentially
<1>1. InitL1D => SequentialInv /\ ISA!Init
    BY InitSpares, InitIsSequential DEF InitL1D
<1> QED
    BY <1>1, CachedSequential, PTL DEF SpecL1D, CommitsSequentially

(***************************************************************************)
(* With the cache, too, a program without branches (and without writes of    *)
(* R0) is executed as the sequential machine would.                          *)
(***************************************************************************)
THEOREM CachedStraightLineIsSequential ==
    ASSUME ProgramsSpareR0, ProgramsDoNotBranch
    PROVE  SpecL1D => CommitsSequentially
<1>1. InitL1D => StraightLineInv /\ ISA!Init
    BY InitStraightLine, InitIsSequential DEF InitL1D
<1>2. StraightLineInv /\ [NextL1D]_varsL1D => StraightLineInv' /\ [ISA!Next]_(ISA!vars)
  <2>1. StraightLineInv => TypeInv
      BY MemoryFacts DEF StraightLineInv, SequentialInv
  <2> QED
      BY <2>1, CachedIsAnyTiming, NextStraightLine
<1> QED
    BY <1>1, <1>2, PTL DEF SpecL1D, CommitsSequentially

(***************************************************************************)
(* With the cache, too, a program that does not write R0 reads zero from it. *)
(***************************************************************************)
THEOREM CachedZeroWhenSpared ==
    ASSUME ProgramsSpareR0
    PROVE  SpecL1D => []RegisterZeroReadsZero
<1>1. InitL1D => ZeroInv
    BY InitZero DEF InitL1D
<1>2. ZeroInv /\ [NextL1D]_varsL1D => ZeroInv'
  <2>1. ZeroInv => TypeInv
      BY MemoryFacts DEF ZeroInv
  <2> QED
      BY <2>1, CachedIsAnyTiming, NextZero
<1>3. ZeroInv => RegisterZeroReadsZero
    BY DEF ZeroInv, RegisterZeroReadsZero
<1> QED
    BY <1>1, <1>2, <1>3, PTL DEF SpecL1D

-----------------------------------------------------------------------------
(* Accesses in progress                                                      *)

\* What the loop waits for is over when it executes: no result of the bus can
\* still change the address an access was started for.
LatenciesAreNumbers == \A k \in DOMAIN accesses : accesses[k].latency \in Nat

AccessInv ==
    TypeInv /\ ExecutingHasOperands /\ LatenciesAreNumbers /\ AccessesAreExecuting

LEMMA InitAccesses == InitL1D => AccessInv
<1> SUFFICES ASSUME InitL1D PROVE AccessInv
    OBVIOUS
<1>1. TypeInv
    BY InitTypes DEF InitL1D
<1>2. DOMAIN active = {}
    BY DEF InitL1D, Init, EmptyFunction
<1>3. DOMAIN accesses = {}
    BY DEF InitL1D, L1D!CacheInit
<1> QED
    BY <1>1, <1>2, <1>3 DEF AccessInv, ExecutingHasOperands, LatenciesAreNumbers,
       AccessesAreExecuting, ExecutingMemoryOps

\* What a step does to an instruction that stays in flight, as far as accesses go.
Undisturbed(k) ==
    /\ active'[k].instr = active[k].instr
    /\ UsesCache(k) => active'[k].executing = active[k].executing
    /\ active[k].executing => active'[k].vj = active[k].vj
    /\ active[k].executing => active'[k].remaining <= active[k].remaining
    /\ active'[k].executing => OperandsReady(k)'

\* A step that starts no access and ends those of the instructions it removes.
StartsNoAccess ==
    /\ \A k \in DOMAIN active' :
         IF k \in DOMAIN active THEN Undisturbed(k) ELSE ~active'[k].executing
    /\ DOMAIN accesses' = DOMAIN accesses \cap DOMAIN active'
    /\ \A k \in DOMAIN accesses' : accesses'[k] = accesses[k]

\* Such a step keeps the correspondence.
LEMMA StartsNoAccessKeeps ==
    ASSUME AccessInv, TypeInv', StartsNoAccess
    PROVE  AccessInv'
<1>1. ExecutingHasOperands'
    BY DEF StartsNoAccess, Undisturbed, ExecutingHasOperands
<1>2. LatenciesAreNumbers'
    BY DEF StartsNoAccess, AccessInv, LatenciesAreNumbers
<1>3. ASSUME NEW k \in DOMAIN active, k \in DOMAIN active'
      PROVE  k \in ExecutingMemoryOps' <=> k \in ExecutingMemoryOps
    BY <1>3 DEF StartsNoAccess, Undisturbed, ExecutingMemoryOps, UsesCache
<1>4. DOMAIN accesses = ExecutingMemoryOps
    BY DEF AccessInv, AccessesAreExecuting
<1>5. DOMAIN accesses' = ExecutingMemoryOps'
  <2>1. ASSUME NEW k \in ExecutingMemoryOps' PROVE k \in DOMAIN active /\ k \in DOMAIN active'
      BY DEF StartsNoAccess, ExecutingMemoryOps
  <2>2. ExecutingMemoryOps \subseteq DOMAIN active
      BY DEF ExecutingMemoryOps
  <2> QED
      BY <1>3, <1>4, <2>1, <2>2 DEF StartsNoAccess
<1>6. ASSUME NEW k \in DOMAIN accesses'
      PROVE  /\ active'[k].remaining < accesses'[k].latency
             /\ accesses'[k].setIndex = L1D!setIndex(Unsigned(Address(k)))'
             /\ accesses'[k].tag = L1D!tagOf(Unsigned(Address(k)))'
  <2>1. /\ k \in DOMAIN accesses /\ accesses'[k] = accesses[k]
        /\ k \in DOMAIN active /\ k \in DOMAIN active' /\ active[k].executing
      BY <1>4 DEF StartsNoAccess, ExecutingMemoryOps
  <2>2. Undisturbed(k)
      BY <2>1 DEF StartsNoAccess
  <2>3. Address(k)' = Address(k)
      BY <2>1, <2>2 DEF Undisturbed, Address
  <2>4. /\ active[k].remaining < accesses[k].latency
        /\ accesses[k].setIndex = L1D!setIndex(Unsigned(Address(k)))
        /\ accesses[k].tag = L1D!tagOf(Unsigned(Address(k)))
      BY <2>1 DEF AccessInv, AccessesAreExecuting
  <2>5. active'[k].remaining < accesses'[k].latency
    <3>1. active[k] \in ActiveRecords /\ active'[k] \in ActiveRecords
        BY <2>1 DEF AccessInv, TypeInv, TypeOK
    <3>2. /\ active[k].remaining \in Nat /\ active'[k].remaining \in Nat
          /\ accesses[k].latency \in Nat
        BY <2>1, <3>1 DEF ActiveRecords, AccessInv, LatenciesAreNumbers
    <3> QED
        BY <2>1, <2>2, <2>4, <3>2 DEF Undisturbed
  <2>6. L1D!setIndex(Unsigned(Address(k)))' = L1D!setIndex(Unsigned(Address(k)))
      BY <2>3 DEF Unsigned, L1D!setIndex, L1D!blockAddress
  <2>7. L1D!tagOf(Unsigned(Address(k)))' = L1D!tagOf(Unsigned(Address(k)))
      BY <2>3 DEF Unsigned, L1D!tagOf, L1D!blockAddress
  <2> QED
      BY <2>1, <2>4, <2>5, <2>6, <2>7
<1>7. AccessesAreExecuting'
    BY <1>5, <1>6 DEF AccessesAreExecuting
<1> QED
    BY <1>1, <1>2, <1>7 DEF AccessInv

\* Accesses in progress are of instructions in flight.
LEMMA AccessesInFlight == AccessInv => DOMAIN accesses \subseteq DOMAIN active
BY DEF AccessInv, AccessesAreExecuting, ExecutingMemoryOps

\* A step that leaves the instructions in flight and the cache alone.
LEMMA UnmovedStartsNoAccess ==
    ASSUME AccessInv, active' = active, UNCHANGED cacheVars
    PROVE  StartsNoAccess
<1>1. ASSUME NEW k \in DOMAIN active PROVE Undisturbed(k)
  <2>1. active[k].remaining \in Nat
      BY DEF AccessInv, TypeInv, TypeOK, ActiveRecords
  <2> QED
      BY <2>1 DEF Undisturbed, AccessInv, ExecutingHasOperands, OperandsReady
<1> QED
    BY <1>1, AccessesInFlight DEF StartsNoAccess, cacheVars

\* An instruction that was just issued does not execute yet.
LEMMA IssueStartsNoAccess ==
    ASSUME AccessInv, NEW predictedTaken \in BOOLEAN, Issue(predictedTaken),
           UNCHANGED cacheVars
    PROVE  StartsNoAccess
<1> DEFINE a == IssuedInstruction(NextInstruction, predictedTaken)
<1>1. active' = Extend(active, nextId, a)
    BY DEF Issue
<1>2. nextId \notin DOMAIN active
    BY DEF AccessInv, TypeInv, TypeOK, Ids
<1>3. ~a.executing
    BY DEF IssuedInstruction
<1> HIDE DEF a
<1>4. /\ DOMAIN active' = DOMAIN active \cup {nextId}
      /\ active'[nextId] = a
      /\ \A k \in DOMAIN active : active'[k] = active[k]
    BY <1>1, <1>2 DEF Extend
<1>5. ASSUME NEW k \in DOMAIN active PROVE Undisturbed(k)
  <2>1. active[k].remaining \in Nat
      BY DEF AccessInv, TypeInv, TypeOK, ActiveRecords
  <2> QED
      BY <1>4, <2>1 DEF Undisturbed, AccessInv, ExecutingHasOperands, OperandsReady
<1> QED
    BY <1>2, <1>3, <1>4, <1>5, AccessesInFlight DEF StartsNoAccess, cacheVars

\* A visit that changes one instruction in flight, and starts no access.
LEMMA VisitStartsNoAccess ==
    ASSUME AccessInv, NEW k \in DOMAIN active, NEW a,
           active' = [active EXCEPT ![k] = a], UNCHANGED cacheVars,
           a.instr = active[k].instr, a.vj = active[k].vj,
           a.qj = active[k].qj, a.qk = active[k].qk,
           UsesCache(k) => a.executing = active[k].executing,
           active[k].executing => a.remaining <= active[k].remaining,
           a.executing => OperandsReady(k)
    PROVE  StartsNoAccess
<1>1. DOMAIN active' = DOMAIN active /\ active'[k] = a
      /\ \A j \in DOMAIN active : j # k => active'[j] = active[j]
    OBVIOUS
<1>2. Undisturbed(k)
    BY <1>1 DEF Undisturbed, OperandsReady
<1>3. ASSUME NEW j \in DOMAIN active, j # k PROVE Undisturbed(j)
  <2>1. active[j].remaining \in Nat
      BY DEF AccessInv, TypeInv, TypeOK, ActiveRecords
  <2> QED
      BY <1>1, <1>3, <2>1 DEF Undisturbed, AccessInv, ExecutingHasOperands, OperandsReady
<1> QED
    BY <1>1, <1>2, <1>3, AccessesInFlight DEF StartsNoAccess, cacheVars

LEMMA ProgressStartsNoAccess ==
    ASSUME AccessInv, NEW k \in todo, Progress(k), UNCHANGED cacheVars
    PROVE  StartsNoAccess
<1> DEFINE a == [active[k] EXCEPT !.remaining = @ - 1]
<1>1. k \in DOMAIN active /\ active[k] \in ActiveRecords
    BY DEF AccessInv, TypeInv, TypeOK
<1>2. active' = [active EXCEPT ![k] = a] /\ active[k].executing
    BY DEF Progress
<1>3. /\ a.instr = active[k].instr /\ a.vj = active[k].vj
      /\ a.qj = active[k].qj /\ a.qk = active[k].qk
      /\ a.executing = active[k].executing /\ a.remaining = active[k].remaining - 1
    BY <1>1 DEF ActiveRecords
<1>4. a.remaining <= active[k].remaining
    BY <1>1, <1>3 DEF ActiveRecords
<1>5. OperandsReady(k)
    BY <1>1, <1>2 DEF AccessInv, ExecutingHasOperands
<1> HIDE DEF a
<1> QED
    BY <1>1, <1>2, <1>3, <1>4, <1>5, VisitStartsNoAccess

LEMMA WaitStartsNoAccess ==
    ASSUME AccessInv, NEW k \in todo, WaitL1D(k)
    PROVE  StartsNoAccess
<1>1. k \in DOMAIN active /\ TypeInv
    BY DEF AccessInv, TypeInv, TypeOK
<1>2. /\ active' = [active EXCEPT ![k] = Checked(k)] /\ ~active[k].executing
      /\ UNCHANGED cacheVars
    BY DEF WaitL1D, Hold
<1> QED
    BY <1>1, <1>2, CheckedFields, VisitStartsNoAccess

LEMMA StartWithoutCacheStartsNoAccess ==
    ASSUME AccessInv, NEW k \in todo, StartWithoutCache(k)
    PROVE  StartsNoAccess
<1>1. TypeInv /\ UNCHANGED cacheVars /\ ~UsesCache(k)
    BY DEF AccessInv, StartWithoutCache
<1>2. StartWith(k, startLatency(k))
    BY DEF StartWithoutCache, Start
<1>3. active' = [active EXCEPT ![k] = active'[k]]
    BY <1>1 DEF StartWithoutCache, Start, StartWith, TypeInv, TypeOK
<1> QED
    BY <1>1, <1>2, <1>3, StartedFields, VisitStartsNoAccess

\* A broadcast wakes no instruction that executes.
LEMMA BroadcastStartsNoAccess ==
    ASSUME AccessInv, NEW k \in DOMAIN cdbQueue, Broadcast(k), UNCHANGED cacheVars
    PROVE  StartsNoAccess
<1> DEFINE msg == cdbQueue[k]
<1>1. msg.robTag # None
    BY DEF AccessInv, TypeInv, TypeOK, Messages, Tags, None
<1>2. active' = [j \in DOMAIN active |-> Woken(active[j], msg)]
    BY DEF Broadcast
<1> HIDE DEF msg
<1>3. ASSUME NEW j \in DOMAIN active PROVE Undisturbed(j)
  <2>1. active[j] \in ActiveRecords /\ active[j].remaining \in Nat
      BY DEF AccessInv, TypeInv, TypeOK, ActiveRecords
  <2>2. /\ active'[j].instr = active[j].instr /\ active'[j].executing = active[j].executing
        /\ active'[j].remaining = active[j].remaining
        /\ active'[j].qj = (IF active[j].qj = msg.robTag THEN None ELSE active[j].qj)
        /\ active'[j].qk = (IF active[j].qk = msg.robTag THEN None ELSE active[j].qk)
        /\ active'[j].vj = (IF active[j].qj = msg.robTag THEN msg.value ELSE active[j].vj)
      BY <1>2, <2>1 DEF Woken, ActiveRecords
  <2>3. active[j].executing => active[j].qj = None /\ active[j].qk = None
      BY DEF AccessInv, ExecutingHasOperands, OperandsReady
  <2> QED
      BY <1>1, <2>1, <2>2, <2>3 DEF Undisturbed, OperandsReady
<1> QED
    BY <1>2, <1>3, AccessesInFlight DEF StartsNoAccess, cacheVars

\* A step that takes instructions away, and the accesses of these.
LEMMA RemovalStartsNoAccess ==
    ASSUME AccessInv, DOMAIN active' \subseteq DOMAIN active,
           \A k \in DOMAIN active' : active'[k] = active[k],
           DOMAIN accesses' = DOMAIN accesses \cap DOMAIN active',
           \A k \in DOMAIN accesses' : accesses'[k] = accesses[k]
    PROVE  StartsNoAccess
<1>1. ASSUME NEW k \in DOMAIN active' PROVE Undisturbed(k)
  <2>1. active[k].remaining \in Nat
      BY DEF AccessInv, TypeInv, TypeOK, ActiveRecords
  <2> QED
      BY <2>1 DEF Undisturbed, AccessInv, ExecutingHasOperands, OperandsReady
<1> QED
    BY <1>1 DEF StartsNoAccess

\* An instruction that completes takes its access with it.
LEMMA CompleteStartsNoAccess ==
    ASSUME AccessInv, NEW k \in todo, CompleteL1D(k)
    PROVE  StartsNoAccess
<1>1. active' = Remove(active, k)
    BY DEF CompleteL1D, CompleteRegister, CompleteStore, ResolveCorrect, Retire
<1>2. /\ DOMAIN active' = DOMAIN active \ {k}
      /\ \A j \in DOMAIN active' : active'[j] = active[j]
    BY <1>1 DEF Remove, Restrict
<1>3. /\ DOMAIN accesses' = DOMAIN accesses \ {k}
      /\ \A j \in DOMAIN accesses' : accesses'[j] = accesses[j]
  <2>1. CASE k \in DOMAIN accesses
      BY <2>1 DEF CompleteL1D, L1D!CompleteAccess, Restrict, L1D!Restrict
  <2>2. CASE k \notin DOMAIN accesses
      BY <2>2 DEF CompleteL1D, cacheVars
  <2> QED
      BY <2>1, <2>2
<1> QED
    BY <1>2, <1>3, AccessesInFlight, RemovalStartsNoAccess

\* A flush cancels the accesses of the instructions it flushes, and these only.
LEMMA FlushStartsNoAccess ==
    ASSUME AccessInv, NEW k \in todo, ResolveMispredictedL1D(k)
    PROVE  StartsNoAccess
<1>1. active' = Remove(UpTo(active, k), k) /\ IsBranch(active[k].instr)
    BY DEF ResolveMispredictedL1D, ResolveMispredicted
<1>2. /\ k \in DOMAIN active /\ DOMAIN active \subseteq Nat /\ DOMAIN accesses \subseteq Nat
    BY AccessesInFlight DEF AccessInv, TypeInv, TypeOK, Ids
<1>3. /\ DOMAIN active' = {j \in DOMAIN active : j < k}
      /\ \A j \in DOMAIN active' : active'[j] = active[j]
    BY <1>1, <1>2 DEF Remove, UpTo, Restrict
<1>4. /\ DOMAIN accesses' = DOMAIN accesses \ CancelledBy(k)
      /\ \A j \in DOMAIN accesses' : accesses'[j] = accesses[j]
    BY DEF ResolveMispredictedL1D, L1D!CancelAccesses, Restrict, L1D!Restrict
<1>5. k \notin DOMAIN accesses
    BY <1>1 DEF AccessInv, AccessesAreExecuting, ExecutingMemoryOps, UsesCache,
       IsMemoryOp, IsBranch, BranchOps
<1>6. DOMAIN accesses' = DOMAIN accesses \cap DOMAIN active'
    BY <1>2, <1>3, <1>4, <1>5, AccessesInFlight DEF CancelledBy
<1> QED
    BY <1>3, <1>4, <1>6, RemovalStartsNoAccess

\* A started access is of the instruction that starts, for its address.
LEMMA StartAccessKeeps ==
    ASSUME AccessInv, TypeInv', NEW k \in todo, StartAccess(k)
    PROVE  AccessInv'
<1> DEFINE result == L1D!access(Unsigned(Address(k)), IsStore(k))
<1>1. result.latency \in Nat \ {0}
    BY AccessLatency
<1>2. /\ result.setIndex = L1D!setIndex(Unsigned(Address(k)))
      /\ result.tag = L1D!tagOf(Unsigned(Address(k)))
    BY DEF L1D!access
<1>3. StartWith(k, result.latency)
    BY DEF StartAccess
<1>4. accesses' = [j \in DOMAIN accesses \cup {k} |->
                      IF j = k THEN result ELSE accesses[j]]
    BY DEF StartAccess, L1D!StartAccess
<1> HIDE DEF result
<1>5. /\ k \in DOMAIN active /\ ~active[k].executing /\ OperandsReady(k)
      /\ DOMAIN active' = DOMAIN active
      /\ \A j \in DOMAIN active : j # k => active'[j] = active[j]
      /\ active'[k].instr = active[k].instr /\ active'[k].vj = active[k].vj
      /\ active'[k].qj = active[k].qj /\ active'[k].qk = active[k].qk
      /\ active'[k].executing /\ active'[k].remaining = result.latency - 1
    BY <1>3, StartedFields DEF AccessInv
<1>6. ExecutingHasOperands'
    BY <1>5 DEF AccessInv, ExecutingHasOperands, OperandsReady
<1>7. LatenciesAreNumbers'
    BY <1>1, <1>4 DEF AccessInv, LatenciesAreNumbers
<1>8. DOMAIN accesses' = ExecutingMemoryOps'
  <2>1. ASSUME NEW j \in DOMAIN active, j # k
        PROVE  j \in ExecutingMemoryOps' <=> j \in ExecutingMemoryOps
      BY <1>5, <2>1 DEF ExecutingMemoryOps, UsesCache
  <2>2. k \in ExecutingMemoryOps'
      BY <1>5 DEF StartAccess, ExecutingMemoryOps, UsesCache
  <2>3. ExecutingMemoryOps \subseteq DOMAIN active /\ ExecutingMemoryOps' \subseteq DOMAIN active
      BY <1>5 DEF ExecutingMemoryOps
  <2> QED
      BY <1>4, <2>1, <2>2, <2>3 DEF AccessInv, AccessesAreExecuting
<1>9. ASSUME NEW j \in DOMAIN accesses'
      PROVE  /\ active'[j].remaining < accesses'[j].latency
             /\ accesses'[j].setIndex = L1D!setIndex(Unsigned(Address(j)))'
             /\ accesses'[j].tag = L1D!tagOf(Unsigned(Address(j)))'
  <2>1. active'[j].vj = active[j].vj /\ active'[j].instr = active[j].instr
      BY <1>4, <1>5, AccessesInFlight
  <2>2. Address(j)' = Address(j)
      BY <2>1 DEF Address
  <2>3. /\ L1D!setIndex(Unsigned(Address(j)))' = L1D!setIndex(Unsigned(Address(j)))
        /\ L1D!tagOf(Unsigned(Address(j)))' = L1D!tagOf(Unsigned(Address(j)))
      BY <2>2 DEF Unsigned, L1D!setIndex, L1D!tagOf, L1D!blockAddress
  <2>4. CASE j = k
    <3>1. accesses'[k] = result /\ active'[k].remaining < result.latency
        BY <1>1, <1>4, <1>5
    <3> QED
        BY <1>2, <2>3, <2>4, <3>1
  <2>5. CASE j # k
    <3>1. j \in DOMAIN accesses /\ accesses'[j] = accesses[j] /\ active'[j] = active[j]
        BY <1>4, <1>5, <2>5, AccessesInFlight
    <3> QED
        BY <2>3, <3>1 DEF AccessInv, AccessesAreExecuting
  <2> QED
      BY <2>4, <2>5
<1> QED
    BY <1>6, <1>7, <1>8, <1>9 DEF AccessInv, AccessesAreExecuting

LEMMA AccessSteps ==
    ASSUME AccessInv, [NextL1D]_varsL1D
    PROVE  (\E k \in todo : StartAccess(k)) \/ StartsNoAccess
<1>1. ASSUME NEW predictedTaken \in BOOLEAN, Issue(predictedTaken), UNCHANGED cacheVars
      PROVE  StartsNoAccess
    BY <1>1, IssueStartsNoAccess
<1>2. ASSUME NEW k \in todo, Progress(k), UNCHANGED cacheVars PROVE StartsNoAccess
    BY <1>2, ProgressStartsNoAccess
<1>3. ASSUME NEW k \in todo, WaitL1D(k) \/ StartWithoutCache(k) PROVE StartsNoAccess
    BY <1>3, WaitStartsNoAccess, StartWithoutCacheStartsNoAccess
<1>4. ASSUME NEW k \in DOMAIN cdbQueue, Broadcast(k), UNCHANGED cacheVars
      PROVE  StartsNoAccess
    BY <1>4, BroadcastStartsNoAccess
<1>5. ASSUME NEW k \in todo, CompleteL1D(k) \/ ResolveMispredictedL1D(k)
      PROVE  StartsNoAccess
    BY <1>5, CompleteStartsNoAccess, FlushStartsNoAccess
<1>6. ASSUME \/ /\ StallIssue \/ Finish \/ Commit \/ NoCommit \/ NoBroadcast \/ EndCycle \/ Done
                /\ UNCHANGED cacheVars
             \/ UNCHANGED varsL1D
      PROVE  StartsNoAccess
  <2>1. UNCHANGED cacheVars
      BY <1>6 DEF varsL1D
  <2>2. active' = active
      BY <1>6 DEF StallIssue, Finish, Commit, NoCommit, CommitStage, NoBroadcast, EndCycle,
         Done, varsL1D, vars
  <2> QED
      BY <2>1, <2>2, UnmovedStartsNoAccess
<1> QED
    BY <1>1, <1>2, <1>3, <1>4, <1>5, <1>6 DEF NextL1D

LEMMA NextAccesses == AccessInv /\ [NextL1D]_varsL1D => AccessInv'
<1> SUFFICES ASSUME AccessInv, [NextL1D]_varsL1D PROVE AccessInv'
    OBVIOUS
<1>1. TypeInv'
    BY CachedIsAnyTiming, AnyTimingTypes DEF AccessInv
<1> QED
    BY <1>1, AccessSteps, StartAccessKeeps, StartsNoAccessKeeps

(***************************************************************************)
(* For every program, cache geometry and latency: the cache's accesses are  *)
(* those of the loads and stores that execute, each for the address it was   *)
(* started with, and what a flush or a completion takes from the loop it     *)
(* takes from the cache too, so that no set waits for a dead instruction.    *)
(***************************************************************************)
THEOREM AccessesExecute == SpecL1D => []AccessesAreExecuting
<1>1. AccessInv => AccessesAreExecuting
    BY DEF AccessInv
<1> QED
    BY <1>1, InitAccesses, NextAccesses, PTL DEF SpecL1D

-----------------------------------------------------------------------------
(* The core is a client of the cache                                         *)

\* The results about the cache of DataCache.tla and any client of it.
CacheProofs == INSTANCE DataCache_proofs
    WITH NumWords <- 2 * HalfRange, Ids <- 0 .. MaxId, MaxAccesses <- MaxId + 1

\* The cache of the core is the cache those results are about.
LEMMA SameGeometry ==
    \A a : /\ L1D!setIndex(a) = CacheProofs!setIndex(a)
           /\ L1D!tagOf(a) = CacheProofs!tagOf(a)
           /\ L1D!canStartAccess(a) <=> CacheProofs!canStartAccess(a)
           /\ L1D!isHit(a) <=> CacheProofs!isHit(a)
BY DEF L1D!setIndex, CacheProofs!setIndex, L1D!tagOf, CacheProofs!tagOf, L1D!blockAddress,
   CacheProofs!blockAddress, L1D!canStartAccess, CacheProofs!canStartAccess,
   L1D!isHit, CacheProofs!isHit

LEMMA SameAccess == \A a, isStore : L1D!access(a, isStore) = CacheProofs!access(a, isStore)
BY SameGeometry, Zenon
   DEF L1D!access, CacheProofs!access, L1D!isHit, CacheProofs!isHit, L1D!setIndex,
       CacheProofs!setIndex, L1D!tagOf, CacheProofs!tagOf, L1D!blockAddress,
       CacheProofs!blockAddress

LEMMA SameStart ==
    ASSUME NEW k, NEW a, NEW isStore, L1D!StartAccess(k, a, isStore)
    PROVE  CacheProofs!StartAccess(k, a, isStore)
BY SameAccess, Zenon DEF L1D!StartAccess, CacheProofs!StartAccess, L1D!count, CacheProofs!count

LEMMA SameCompletion ==
    ASSUME NEW k, L1D!CompleteAccess(k) PROVE CacheProofs!CompleteAccess(k)
BY DEF L1D!CompleteAccess, CacheProofs!CompleteAccess, L1D!Installed, CacheProofs!Installed,
   L1D!NoFill, CacheProofs!NoFill, L1D!Restrict, CacheProofs!Restrict

LEMMA SameCancellation ==
    ASSUME NEW S, L1D!CancelAccesses(S) PROVE CacheProofs!CancelAccesses(S)
BY DEF L1D!CancelAccesses, CacheProofs!CancelAccesses, L1D!FillsAfterCancel,
   CacheProofs!FillsAfterCancel, L1D!OwnsFill, CacheProofs!OwnsFill, L1D!NoFill,
   CacheProofs!NoFill, L1D!Restrict, CacheProofs!Restrict, L1D!Sets, CacheProofs!Sets

LEMMA SameClient == [L1D!Client]_(L1D!cacheVars) => [CacheProofs!Client]_(CacheProofs!cacheVars)
<1>1. L1D!Client => CacheProofs!Client
  <2>1. L1D!Words = CacheProofs!Words
      BY DEF L1D!Words, CacheProofs!Words
  <2> QED
      BY <2>1, SameGeometry, SameStart, SameCompletion, SameCancellation
      DEF L1D!Client, CacheProofs!Client
<1> QED
    BY <1>1 DEF L1D!cacheVars, CacheProofs!cacheVars

LEMMA SameInit == L1D!CacheInit => CacheProofs!CacheInit
BY DEF L1D!CacheInit, CacheProofs!CacheInit, L1D!InvalidLine, CacheProofs!InvalidLine,
   L1D!NoFill, CacheProofs!NoFill, L1D!Sets, CacheProofs!Sets

\* The loads and stores that have not asked the cache yet.
YetToAccess == {k \in DOMAIN active : UsesCache(k) /\ ~active[k].executing}

\* An instruction asks the cache at most once.
StartsAreCounted == cacheStats.accesses + Cardinality(YetToAccess) <= nextId

ClientInv == AccessInv /\ CacheProofs!DirtyInv /\ StartsAreCounted

LEMMA ClientFacts ==
    ASSUME ClientInv
    PROVE  /\ AccessInv /\ TypeInv /\ TypeOK /\ CacheProofs!CacheTypeOK
           /\ nextId \in Nat /\ cacheStats.accesses \in Nat
           /\ IsFiniteSet(YetToAccess) /\ Cardinality(YetToAccess) \in Nat
<1>1. AccessInv /\ TypeInv /\ TypeOK /\ CacheProofs!CacheTypeOK
    BY DEF ClientInv, AccessInv, TypeInv, CacheProofs!DirtyInv, CacheProofs!FillInv
<1>2. nextId \in Nat /\ cacheStats.accesses \in Nat
    BY <1>1 DEF TypeOK, CacheProofs!CacheTypeOK
<1>3. YetToAccess \subseteq DOMAIN active
    BY DEF YetToAccess
<1> QED
    BY <1>1, <1>2, <1>3, ActiveSetsAreFinite

\* A load or store that starts an access asks for it as a client may.
LEMMA StartIsClient ==
    ASSUME ClientInv, nextId <= MaxId + 1, NEW k \in todo, StartAccess(k)
    PROVE  L1D!Client
<1>1. TypeInv /\ TypeOK /\ k \in DOMAIN active /\ nextId \in Nat
    BY ClientFacts DEF TypeOK
<1>2. ~active[k].executing
  <2>1. \E latency : StartWith(k, latency)
      BY DEF StartAccess
  <2> QED
      BY <2>1 DEF StartWith
<1>3. k \notin DOMAIN accesses
    BY <1>2, ClientFacts DEF AccessInv, AccessesAreExecuting, ExecutingMemoryOps
<1>4. k \in 0 .. MaxId
    BY <1>1, MaxIdAssumption DEF TypeOK, Ids
<1>5. Unsigned(Address(k)) \in L1D!Words
  <2>1. Address(k) \in Int /\ 2 * HalfRange \in Nat \ {0}
      BY <1>1, ActiveType, HalfRangeAssumption DEF Val
  <2> QED
      BY <2>1 DEF Unsigned, L1D!Words
<1>6. IsStore(k) \in BOOLEAN
    BY DEF IsStore
<1>7. L1D!canStartAccess(Unsigned(Address(k)))
    BY DEF StartAccess, CanStartL1D, FillPending
<1>8. cacheStats.accesses < MaxId + 1
  <2>1. k \in YetToAccess
      BY <1>1, <1>2 DEF StartAccess, YetToAccess
  <2>2. Cardinality(YetToAccess) # 0
      BY <2>1, ClientFacts, FS_EmptySet
  <2> QED
      BY <2>2, ClientFacts, MaxIdAssumption DEF ClientInv, StartsAreCounted
<1>9. L1D!StartAccess(k, Unsigned(Address(k)), IsStore(k))
    BY DEF StartAccess
<1> QED
    BY <1>3, <1>4, <1>5, <1>6, <1>7, <1>8, <1>9 DEF L1D!Client

\* A flush cancels what it flushes as a client may, or has nothing to cancel.
LEMMA FlushIsClient ==
    ASSUME ClientInv, NEW k \in todo, ResolveMispredictedL1D(k)
    PROVE  [L1D!Client]_(L1D!cacheVars)
<1>1. L1D!CancelAccesses(CancelledBy(k)) /\ CancelledBy(k) \in SUBSET DOMAIN accesses
    BY DEF ResolveMispredictedL1D, CancelledBy
<1>2. CASE CancelledBy(k) # {}
    BY <1>1, <1>2 DEF L1D!Client
<1>3. CASE CancelledBy(k) = {}
  <2>1. /\ accesses \in [DOMAIN accesses -> CacheProofs!AccessResults]
        /\ pendingFills \in [L1D!Sets -> [valid : BOOLEAN, tag : Nat]]
      BY ClientFacts DEF CacheProofs!CacheTypeOK, CacheProofs!Sets, L1D!Sets
  <2>2. accesses' = Restrict(accesses, DOMAIN accesses \ {})
      BY <1>1, <1>3 DEF L1D!CancelAccesses, L1D!Restrict, Restrict
  <2>3. accesses' = accesses
      BY <2>1, <2>2 DEF Restrict
  <2>4. pendingFills' = [s \in L1D!Sets |-> pendingFills[s]]
      BY <1>1, <1>3 DEF L1D!CancelAccesses, L1D!FillsAfterCancel
  <2>5. pendingFills' = pendingFills
      BY <2>1, <2>4
  <2> QED
      BY <1>1, <2>3, <2>5 DEF L1D!CancelAccesses, L1D!cacheVars
<1> QED
    BY <1>2, <1>3

LEMMA CoreIsClient ==
    ASSUME ClientInv, nextId <= MaxId + 1, [NextL1D]_varsL1D
    PROVE  [L1D!Client]_(L1D!cacheVars)
<1>1. ASSUME NEW k \in todo, CompleteL1D(k) PROVE [L1D!Client]_(L1D!cacheVars)
  <2>1. CASE k \in DOMAIN accesses
      BY <1>1, <2>1 DEF CompleteL1D, L1D!Client
  <2>2. CASE k \notin DOMAIN accesses
      BY <1>1, <2>2 DEF CompleteL1D, cacheVars, L1D!cacheVars
  <2> QED
      BY <2>1, <2>2
<1>2. ASSUME UNCHANGED cacheVars PROVE [L1D!Client]_(L1D!cacheVars)
    BY <1>2 DEF cacheVars, L1D!cacheVars
<1>3. \/ UNCHANGED cacheVars
      \/ \E k \in todo : StartAccess(k) \/ CompleteL1D(k) \/ ResolveMispredictedL1D(k)
    BY DEF NextL1D, varsL1D, WaitL1D, StartWithoutCache
<1> QED
    BY <1>1, <1>2, <1>3, StartIsClient, FlushIsClient

\* Only issue puts an instruction in flight, and counts it.
LEMMA OnlyIssueAdds ==
    ASSUME TypeInv, [NextAnyTiming]_vars
    PROVE  \/ DOMAIN active' \subseteq DOMAIN active /\ nextId' = nextId
           \/ DOMAIN active' \subseteq DOMAIN active \cup {nextId} /\ nextId' = nextId + 1
<1>1. ASSUME NEW predictedTaken \in BOOLEAN, Issue(predictedTaken)
      PROVE  DOMAIN active' = DOMAIN active \cup {nextId} /\ nextId' = nextId + 1
    BY <1>1 DEF Issue, Extend
<1>2. ASSUME ~ \E predictedTaken \in BOOLEAN : Issue(predictedTaken)
      PROVE  DOMAIN active' \subseteq DOMAIN active /\ nextId' = nextId
  <2>1. nextId' = nextId
      BY <1>2, StaticPcsStay
  <2>2. ASSUME NEW k \in todo, VisitAnyTiming(k) PROVE DOMAIN active' = DOMAIN active
      BY <2>2 DEF VisitAnyTiming, Progress, Hold, StartWith, TypeInv, TypeOK
  <2>3. ASSUME NEW k \in DOMAIN cdbQueue, Broadcast(k) PROVE DOMAIN active' = DOMAIN active
      BY <2>3 DEF Broadcast
  <2> QED
      BY <1>2, <2>1, <2>2, <2>3, OthersStayActive
<1> QED
    BY <1>1, <1>2

\* Only a load or a store that starts its access is counted by the cache.
LEMMA OnlyStartsAreCounted ==
    ASSUME [NextL1D]_varsL1D, ~ \E k \in todo : StartAccess(k)
    PROVE  cacheStats' = cacheStats
BY DEF NextL1D, varsL1D, cacheVars, WaitL1D, StartWithoutCache, CompleteL1D,
       L1D!CompleteAccess, ResolveMispredictedL1D, L1D!CancelAccesses

LEMMA StartAccessIsCounted ==
    ASSUME ClientInv, NEW k \in todo, StartAccess(k)
    PROVE  StartsAreCounted'
<1>1. \E latency : StartWith(k, latency)
    BY DEF StartAccess
<1>2. /\ k \in DOMAIN active /\ ~active[k].executing /\ DOMAIN active' = DOMAIN active
      /\ \A j \in DOMAIN active : j # k => active'[j] = active[j]
      /\ active'[k].executing
    BY <1>1, StartedFields, ClientFacts
<1>3. nextId' = nextId
    BY <1>1 DEF StartWith, Visit, fetchVars
<1>4. YetToAccess' = YetToAccess \ {k} /\ k \in YetToAccess
    BY <1>2 DEF YetToAccess, UsesCache, StartAccess
<1>5. cacheStats'.accesses = cacheStats.accesses + 1
    BY ClientFacts DEF StartAccess, L1D!StartAccess, CacheProofs!CacheTypeOK
<1>6. Cardinality(YetToAccess') = Cardinality(YetToAccess) - 1
    BY <1>4, ClientFacts, FS_RemoveElement
<1> QED
    BY <1>3, <1>5, <1>6, ClientFacts DEF ClientInv, StartsAreCounted

LEMMA OthersAreCounted ==
    ASSUME ClientInv, [NextL1D]_varsL1D, ~ \E k \in todo : StartAccess(k)
    PROVE  StartsAreCounted'
<1>1. StartsNoAccess
    BY AccessSteps, ClientFacts
<1>2. cacheStats' = cacheStats
    BY OnlyStartsAreCounted
<1>3. [NextAnyTiming]_vars
    BY CachedIsAnyTiming, ClientFacts
<1>4. ASSUME NEW k \in DOMAIN active, k \in YetToAccess' PROVE k \in YetToAccess
    BY <1>1, <1>4 DEF YetToAccess, StartsNoAccess, Undisturbed, UsesCache
<1>5. /\ IsFiniteSet(YetToAccess) /\ Cardinality(YetToAccess) \in Nat
      /\ IsFiniteSet(YetToAccess \cup {nextId})
      /\ Cardinality(YetToAccess \cup {nextId}) \in Nat
      /\ Cardinality(YetToAccess \cup {nextId}) <= Cardinality(YetToAccess) + 1
  <2>1. IsFiniteSet(YetToAccess) /\ Cardinality(YetToAccess) \in Nat
      BY ClientFacts
  <2>2. /\ IsFiniteSet(YetToAccess \cup {nextId})
        /\ \/ Cardinality(YetToAccess \cup {nextId}) = Cardinality(YetToAccess)
           \/ Cardinality(YetToAccess \cup {nextId}) = Cardinality(YetToAccess) + 1
      BY <2>1, FS_AddElement
  <2> QED
      BY <2>1, <2>2
<1>6. CASE DOMAIN active' \subseteq DOMAIN active /\ nextId' = nextId
  <2>1. YetToAccess' \subseteq YetToAccess
      BY <1>4, <1>6 DEF YetToAccess
  <2>2. Cardinality(YetToAccess') \in Nat /\ Cardinality(YetToAccess') <= Cardinality(YetToAccess)
      BY <1>5, <2>1, FS_Subset, FS_CardinalityType
  <2> QED
      BY <1>2, <1>6, <2>2, ClientFacts DEF ClientInv, StartsAreCounted
<1>7. CASE DOMAIN active' \subseteq DOMAIN active \cup {nextId} /\ nextId' = nextId + 1
  <2>1. YetToAccess' \subseteq YetToAccess \cup {nextId}
      BY <1>4, <1>7 DEF YetToAccess
  <2>2. /\ Cardinality(YetToAccess') \in Nat
        /\ Cardinality(YetToAccess') <= Cardinality(YetToAccess \cup {nextId})
      BY <1>5, <2>1, FS_Subset, FS_CardinalityType
  <2> QED
      BY <1>2, <1>5, <1>7, <2>2, ClientFacts DEF ClientInv, StartsAreCounted
<1> QED
    BY <1>3, <1>6, <1>7, OnlyIssueAdds, ClientFacts

LEMMA InitClient == InitL1D => ClientInv
<1> SUFFICES ASSUME InitL1D PROVE ClientInv
    OBVIOUS
<1>1. 2 * HalfRange \in Nat \ {0} /\ MaxId + 1 \in Nat
    BY HalfRangeAssumption, MaxIdAssumption
<1>2. CacheProofs!DirtyInv
    BY <1>1, SameInit, CacheProofs!InitDirty, L1DAssumption DEF InitL1D
<1>3. YetToAccess = {} /\ nextId = 0 /\ cacheStats.accesses = 0
    BY DEF InitL1D, Init, EmptyFunction, L1D!CacheInit, YetToAccess
<1>4. StartsAreCounted
    BY <1>3, FS_EmptySet DEF StartsAreCounted
<1> QED
    BY <1>2, <1>4, InitAccesses DEF ClientInv

LEMMA NextClient ==
    ASSUME ClientInv, nextId <= MaxId + 1, [NextL1D]_varsL1D
    PROVE  ClientInv'
<1>1. 2 * HalfRange \in Nat \ {0} /\ MaxId + 1 \in Nat
    BY HalfRangeAssumption, MaxIdAssumption
<1>2. AccessInv'
    BY NextAccesses, ClientFacts
<1>3. [CacheProofs!Client]_(CacheProofs!cacheVars)
    BY CoreIsClient, SameClient
<1>4. CacheProofs!DirtyInv'
    BY <1>1, <1>3, CacheProofs!ClientDirty, L1DAssumption DEF ClientInv
<1>5. StartsAreCounted'
    BY StartAccessIsCounted, OthersAreCounted
<1> QED
    BY <1>2, <1>4, <1>5 DEF ClientInv

(***************************************************************************)
(* For every program, cache geometry and latency, and every bound on the    *)
(* ids that the run has not reached: the core is a client of the cache. It    *)
(* never asks for an access in a set with a pending fill, under an id or an    *)
(* address the cache does not have, or more often than once an instruction,   *)
(* and completes or cancels only accesses it started (FollowsCacheProtocol,   *)
(* but for the fairness of its completions).                                 *)
(***************************************************************************)
THEOREM CoreIsCacheClient ==
    SpecL1D /\ [](nextId <= MaxId + 1) => L1D!CacheInit /\ [][L1D!Client]_(L1D!cacheVars)
<1>1. ClientInv /\ nextId <= MaxId + 1 /\ [NextL1D]_varsL1D
          => ClientInv' /\ [L1D!Client]_(L1D!cacheVars)
    BY CoreIsClient, NextClient
<1>2. InitL1D => L1D!CacheInit
    BY DEF InitL1D
<1> QED
    BY <1>1, <1>2, InitClient, PTL DEF SpecL1D

(***************************************************************************)
(* So in the machine too, whatever is flushed while a miss is under way, a    *)
(* set is reserved exactly as long as one access will fill it or be           *)
(* cancelled.                                                                *)
(***************************************************************************)
THEOREM CachedFillsOwned == SpecL1D /\ [](nextId <= MaxId + 1) => []L1D!FillsAreOwned
<1>1. ClientInv => L1D!FillsAreOwned
    BY DEF ClientInv, CacheProofs!DirtyInv, CacheProofs!FillInv, CacheProofs!FillsAreOwned,
       CacheProofs!Fillers, CacheProofs!Sets, L1D!FillsAreOwned, L1D!Fillers, L1D!Sets
<1>2. ClientInv /\ nextId <= MaxId + 1 /\ [NextL1D]_varsL1D => ClientInv'
    BY NextClient
<1> QED
    BY <1>1, <1>2, InitClient, PTL DEF SpecL1D

(***************************************************************************)
(* And in the machine a dirty line leaves the cache only in the completion   *)
(* of an access that counted its writeback.                                  *)
(***************************************************************************)
THEOREM CachedEvictionsCounted ==
    SpecL1D /\ [](nextId <= MaxId + 1) => L1D!DirtyEvictionsAreCounted
<1>1. 2 * HalfRange \in Nat \ {0} /\ MaxId + 1 \in Nat
    BY HalfRangeAssumption, MaxIdAssumption
<1>2. ClientInv /\ nextId <= MaxId + 1 /\ [NextL1D]_varsL1D
          => ClientInv' /\ [CacheProofs!EvictionCounted]_(CacheProofs!cacheVars)
  <2> SUFFICES ASSUME ClientInv, nextId <= MaxId + 1, [NextL1D]_varsL1D
               PROVE  [CacheProofs!EvictionCounted]_(CacheProofs!cacheVars)
      BY NextClient
  <2>1. [CacheProofs!Client]_(CacheProofs!cacheVars)
      BY CoreIsClient, SameClient
  <2> QED
      BY <1>1, <2>1, CacheProofs!ClientDirty, L1DAssumption DEF ClientInv
<1>3. SpecL1D /\ [](nextId <= MaxId + 1)
          => [][CacheProofs!EvictionCounted]_(CacheProofs!cacheVars)
    BY <1>2, InitClient, PTL DEF SpecL1D
<1> QED
    BY <1>3 DEF L1D!DirtyEvictionsAreCounted, CacheProofs!EvictionCounted, L1D!cacheVars,
       CacheProofs!cacheVars, L1D!Replaces, CacheProofs!Replaces, L1D!Sets, CacheProofs!Sets
=============================================================================

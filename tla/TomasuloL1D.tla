------------------------------ MODULE TomasuloL1D ------------------------------
(* The cycle loop with its optional L1 data cache: a load or a store asks    *)
(* the cache for its latency when it starts, waits while its set has a fill   *)
(* pending, completes its access when it completes, and a misprediction       *)
(* cancels the accesses of the instructions it flushes.                       *)
EXTENDS TomasuloProperties

CONSTANTS
    l1dEnabled,         \* ArchitectureConfig::l1dEnabled
    NumSets, BlockSizeWords, HitLatency, MissPenalty,
    MaxId               \* bound on dynamic ids

\* What applyArchitectureConfigOverride accepts.
ASSUME L1DAssumption ==
    /\ NumSets \in Nat \ {0} /\ BlockSizeWords \in Nat \ {0}
    /\ HitLatency \in Nat \ {0} /\ MissPenalty \in Nat
ASSUME MaxIdAssumption == MaxId \in Nat

VARIABLES
    lines, pendingFills, cacheStats,    \* dataCache
    accesses        \* id -> cacheAccessResult of an executing load or store

L1D == INSTANCE DataCache
    WITH NumWords <- 2 * HalfRange, Ids <- 0 .. MaxId, MaxAccesses <- MaxId + 1

cacheVars == <<lines, pendingFills, cacheStats, accesses>>
varsL1D == <<vars, cacheVars>>

InitL1D == Init /\ L1D!CacheInit

\* static_cast<std::uint32_t>
Unsigned(address) == address % (2 * HalfRange)

UsesCache(k) == l1dEnabled /\ IsMemoryOp(active[k].instr)
IsStore(k) == active[k].instr.op = "SD"

FillPending(k) == UsesCache(k) /\ ~L1D!canStartAccess(Unsigned(Address(k)))

\* fault: the pending fill is not looked at
CanStartDuringFill(k) == CanStart(k)
CanStartL1D(k) == CanStart(k) /\ ~FillPending(k)

\* Waiting for an operand, an older store, a fill or a unit.
WaitL1D(k) ==
    /\ Hold(k)
    /\ ~CanStartL1D(k)
    /\ UNCHANGED cacheVars

\* startLoadAccess, startStoreAccess: the cache gives the latency.
StartAccess(k) ==
    /\ UsesCache(k) /\ CanStartL1D(k)
    /\ StartWith(k, L1D!access(Unsigned(Address(k)), IsStore(k)).latency)
    /\ L1D!StartAccess(k, Unsigned(Address(k)), IsStore(k))

StartWithoutCache(k) ==
    /\ ~UsesCache(k)
    /\ Start(k)
    /\ UNCHANGED cacheVars

\* An instruction that started an access completes it before its result is
\* computed.
CompleteL1D(k) ==
    /\ CompleteRegister(k) \/ CompleteStore(k) \/ ResolveCorrect(k)
    /\ IF k \in DOMAIN accesses THEN L1D!CompleteAccess(k) ELSE UNCHANGED cacheVars

\* faults: the accesses of flushed instructions go on; the branch's elders' go too
CancelNone(k) == {}
CancelAll(k) == DOMAIN accesses
CancelledBy(k) == {j \in DOMAIN accesses : j > k}

ResolveMispredictedL1D(k) ==
    /\ ResolveMispredicted(k)
    /\ L1D!CancelAccesses(CancelledBy(k))

NextL1D ==
    \/ \E predictedTaken \in BOOLEAN : Issue(predictedTaken) /\ UNCHANGED cacheVars
    \/ (StallIssue \/ Finish) /\ UNCHANGED cacheVars
    \/ \E k \in todo :
         \/ Progress(k) /\ UNCHANGED cacheVars
         \/ WaitL1D(k) \/ StartAccess(k) \/ StartWithoutCache(k)
    \/ (Commit \/ NoCommit) /\ UNCHANGED cacheVars
    \/ \E k \in DOMAIN cdbQueue : Broadcast(k) /\ UNCHANGED cacheVars
    \/ NoBroadcast /\ UNCHANGED cacheVars
    \/ \E k \in todo : CompleteL1D(k) \/ ResolveMispredictedL1D(k)
    \/ (EndCycle \/ Done) /\ UNCHANGED cacheVars

SpecL1D == InitL1D /\ [][NextL1D]_varsL1D /\ WF_varsL1D(NextL1D)

-----------------------------------------------------------------------------
(* Properties                                                                *)

(***************************************************************************)
(* The core keeps the accesses it started and no others: an executing load   *)
(* or store has one, a flushed one has none, and what is left of a miss's    *)
(* latency never exceeds what the cache gave it.                             *)
(***************************************************************************)
ExecutingMemoryOps == {k \in DOMAIN active : active[k].executing /\ UsesCache(k)}

AccessesAreExecuting ==
    /\ DOMAIN accesses = ExecutingMemoryOps
    /\ \A k \in DOMAIN accesses :
         /\ active[k].remaining < accesses[k].latency
         /\ accesses[k].setIndex = L1D!setIndex(Unsigned(Address(k)))
         /\ accesses[k].tag = L1D!tagOf(Unsigned(Address(k)))

(***************************************************************************)
(* The core is a client the cache allows: it never starts an access in a    *)
(* set with a pending fill and completes or cancels each access it started,  *)
(* so what DataCache.tla shows of its clients holds in the machine.          *)
(***************************************************************************)
FollowsCacheProtocol == L1D!CacheSpec

\* Of the core's own accesses: DataCache.tla states what the test's comment says.
WritebacksEvict == L1D!CountedWritebacksEvict
=============================================================================

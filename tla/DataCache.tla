------------------------------ MODULE DataCache ------------------------------
(* The optional L1 data cache (DataCache.cpp): direct-mapped, write-back,    *)
(* write-allocate, metadata only.  A miss reserves its set until the fill     *)
(* completes or is cancelled; the line changes only at completion.           *)
(*                                                                           *)
(* The client keeps the result of each access it started until it completes  *)
(* or cancels it (cacheAccessResult of the active instruction): `accesses'.   *)
(* An address is the unsigned one the client casts it to.                     *)
EXTENDS Integers, FiniteSets, Functions

CONSTANTS
    NumWords,           \* addresses of 32 bits
    NumSets, BlockSizeWords, HitLatency, MissPenalty,   \* CacheConfig
    Ids,                \* names of accesses
    MaxAccesses         \* bound on the accesses of a run

ASSUME NumSetsAssumption == NumSets \in Nat \ {0}
ASSUME BlockSizeAssumption == BlockSizeWords \in Nat \ {0}
ASSUME CacheLatencyAssumption == HitLatency \in Nat \ {0} /\ MissPenalty \in Nat
ASSUME NumWordsAssumption == NumWords \in Nat \ {0}
ASSUME MaxAccessesAssumption == MaxAccesses \in Nat

VARIABLES
    lines,          \* set -> CacheLine
    pendingFills,   \* set -> PendingFill
    cacheStats,     \* CacheStats
    accesses        \* id -> CacheAccessResult of an access in progress

cacheVars == <<lines, pendingFills, cacheStats, accesses>>

Words == 0 .. NumWords - 1
Sets == 0 .. NumSets - 1

InvalidLine == [valid |-> FALSE, dirty |-> FALSE, tag |-> 0]
NoFill == [valid |-> FALSE, tag |-> 0]

CacheInit ==
    /\ lines = [s \in Sets |-> InvalidLine]
    /\ pendingFills = [s \in Sets |-> NoFill]
    /\ cacheStats = [accesses |-> 0, hits |-> 0, misses |-> 0, writebacks |-> 0,
                     totalAccessLatency |-> 0]
    /\ accesses = [k \in {} |-> k]

\* decodeAddress: word addresses, blocks of consecutive words.
blockAddress(address) == address \div BlockSizeWords
setIndex(address) == blockAddress(address) % NumSets
\* fault: tags count from the block after the set's first
tagAfterFirst(address) == (blockAddress(address) \div NumSets) - 1
tagOf(address) == blockAddress(address) \div NumSets

\* fault: a reserved set accepts accesses
canAlwaysStart(address) == TRUE
canStartAccess(address) == ~pendingFills[setIndex(address)].valid

isHit(address) ==
    LET line == lines[setIndex(address)] IN line.valid /\ line.tag = tagOf(address)

\* The result of access(): the line is replaced, if it must be, at completion.
access(address, isStore) ==
    LET line == lines[setIndex(address)]
        hit == isHit(address)
    IN  [hit |-> hit,
         fillRequired |-> ~hit,
         writeback |-> ~hit /\ line.valid /\ line.dirty,
         dirtyOnFill |-> ~hit /\ isStore,
         latency |-> IF hit THEN HitLatency ELSE HitLatency + MissPenalty,
         setIndex |-> setIndex(address),
         tag |-> tagOf(address)]

count(b) == IF b THEN 1 ELSE 0

\* load() and store().
StartAccess(k, address, isStore) ==
    LET result == access(address, isStore) IN
      /\ accesses' = [j \in DOMAIN accesses \cup {k} |->
                         IF j = k THEN result ELSE accesses[j]]
      /\ pendingFills' =
            IF result.hit THEN pendingFills
            ELSE [pendingFills EXCEPT ![result.setIndex] =
                     [valid |-> TRUE, tag |-> result.tag]]
      /\ lines' = [lines EXCEPT ![result.setIndex].dirty = @ \/ (result.hit /\ isStore)]
      /\ cacheStats' = [cacheStats EXCEPT
            !.accesses = @ + 1,
            !.hits = @ + count(result.hit),
            !.misses = @ + count(~result.hit),
            !.writebacks = @ + count(result.writeback),
            !.totalAccessLatency = @ + result.latency]

Installed(result) == [valid |-> TRUE, dirty |-> result.dirtyOnFill, tag |-> result.tag]

CompleteAccess(k) ==
    LET result == accesses[k] IN
      /\ accesses' = Restrict(accesses, DOMAIN accesses \ {k})
      /\ IF result.fillRequired
         THEN /\ lines' = [lines EXCEPT ![result.setIndex] = Installed(result)]
              /\ pendingFills' = [pendingFills EXCEPT ![result.setIndex] = NoFill]
         ELSE UNCHANGED <<lines, pendingFills>>
      /\ UNCHANGED cacheStats

\* cancelAccess of each access of S: a fill that is the access's own is dropped.
OwnsFill(k, s) ==
    /\ accesses[k].fillRequired /\ accesses[k].setIndex = s
    /\ pendingFills[s].valid /\ pendingFills[s].tag = accesses[k].tag

\* fault: the cancelled fill keeps its set reserved
FillsNotCancelled(S) == pendingFills
FillsAfterCancel(S) ==
    [s \in Sets |-> IF \E k \in S : OwnsFill(k, s) THEN NoFill ELSE pendingFills[s]]

CancelAccesses(S) ==
    /\ accesses' = Restrict(accesses, DOMAIN accesses \ S)
    /\ pendingFills' = FillsAfterCancel(S)
    /\ UNCHANGED <<lines, cacheStats>>

-----------------------------------------------------------------------------
(* A client of the cache: it asks canStartAccess first and completes or       *)
(* cancels every access it started.                                          *)

Client ==
    \/ \E k \in Ids \ DOMAIN accesses, address \in Words, isStore \in BOOLEAN :
         /\ cacheStats.accesses < MaxAccesses
         /\ canStartAccess(address)
         /\ StartAccess(k, address, isStore)
    \/ \E k \in DOMAIN accesses : CompleteAccess(k)
    \/ \E S \in SUBSET DOMAIN accesses : S # {} /\ CancelAccesses(S)

CacheSpec == CacheInit /\ [][Client]_cacheVars
             /\ \A k \in Ids : WF_cacheVars(k \in DOMAIN accesses /\ CompleteAccess(k))

-----------------------------------------------------------------------------
(* Properties                                                                *)

AccessResults ==
    [hit : BOOLEAN, fillRequired : BOOLEAN, writeback : BOOLEAN, dirtyOnFill : BOOLEAN,
     latency : Nat, setIndex : Sets, tag : Nat]

\* The cache's state has the types of DataCache.h.
CacheTypeOK ==
    /\ lines \in [Sets -> [valid : BOOLEAN, dirty : BOOLEAN, tag : Nat]]
    /\ pendingFills \in [Sets -> [valid : BOOLEAN, tag : Nat]]
    /\ cacheStats \in [{"accesses", "hits", "misses", "writebacks",
                        "totalAccessLatency"} -> Nat]
    /\ DOMAIN accesses \subseteq Ids /\ accesses \in [DOMAIN accesses -> AccessResults]

(***************************************************************************)
(* A set is reserved exactly as long as one access in progress will fill it *)
(* or be cancelled, and is reserved for that access's block: a reservation  *)
(* nobody owned would block the set for ever, and one with two owners would *)
(* be freed by the first (access, completeAccess, cancelAccess).            *)
(***************************************************************************)
Fillers(s) == {k \in DOMAIN accesses : accesses[k].fillRequired /\ accesses[k].setIndex = s}

FillsAreOwned ==
    \A s \in Sets :
        /\ pendingFills[s].valid <=> Fillers(s) # {}
        /\ \A k \in Fillers(s) :
             Fillers(s) = {k} /\ pendingFills[s].tag = accesses[k].tag

(***************************************************************************)
(* A dirty line leaves the cache only in the completion of an access that   *)
(* counted its writeback: however long the miss takes, the line it judged   *)
(* when it started is the line it replaces (access, completeAccess).        *)
(***************************************************************************)
Replaces(k) ==
    /\ lines[accesses[k].setIndex].tag # accesses[k].tag
    /\ lines'[accesses[k].setIndex].valid
    /\ lines'[accesses[k].setIndex].tag = accesses[k].tag

DirtyEvictionsAreCounted ==
    [][\A s \in Sets :
         lines[s].valid /\ lines[s].dirty /\ ~(lines'[s].dirty /\ lines'[s].tag = lines[s].tag)
         => \E k \in DOMAIN accesses \ DOMAIN accesses' :
              accesses[k].setIndex = s /\ accesses[k].writeback /\ Replaces(k)]_cacheVars

\* "it evicts the dirty line and increments the writeback counter"
\* (tests/cache_dirty_writeback.asm): an access whose writeback was counted ends
\* by replacing the line.
CountedWritebacksEvict ==
    [][\A k \in DOMAIN accesses \ DOMAIN accesses' :
          accesses[k].writeback => Replaces(k)]_cacheVars

Blocks == {blockAddress(a) : a \in Words}
blockSet(b) == b % NumSets
Block(s, tag) == tag * NumSets + s
presentBlocks == {Block(s, lines[s].tag) : s \in {s \in Sets : lines[s].valid}}
fetchingBlocks == {Block(s, pendingFills[s].tag) : s \in {s \in Sets : pendingFills[s].valid}}

Abstract == INSTANCE BlockCache
    WITH SetOf <- blockSet, present <- presentBlocks, fetching <- fetchingBlocks

(***************************************************************************)
(* The cache is a blocking, direct-mapped block cache: a block is there     *)
(* only after a fill of it that was not cancelled, takes the place of its   *)
(* own set's block only, no two fills of a set overlap, and each ends.      *)
(***************************************************************************)
ImplementsBlockCache == Abstract!Spec
=============================================================================

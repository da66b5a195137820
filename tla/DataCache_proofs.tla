--------------------------- MODULE DataCache_proofs ---------------------------
(* The data cache, for every geometry, latency and number of accesses: types, *)
(* the ownership of pending fills, and the accounting of dirty lines.         *)
EXTENDS DataCache, TLAPS

-----------------------------------------------------------------------------
(* Types                                                                     *)

\* A division of naturals gives a natural.
LEMMA DivisionType ==
    ASSUME NEW a \in Nat, NEW n \in Nat \ {0}
    PROVE  a \div n \in Nat /\ a % n \in 0 .. n - 1
OBVIOUS

\* Every address has a set and a tag.
LEMMA AddressGeometry ==
    ASSUME NEW address \in Words
    PROVE  setIndex(address) \in Sets /\ tagOf(address) \in Nat
<1>1. address \in Nat
    BY NumWordsAssumption DEF Words
<1>2. blockAddress(address) \in Nat
    BY <1>1, BlockSizeAssumption, DivisionType DEF blockAddress
<1> QED
    BY <1>2, NumSetsAssumption, DivisionType DEF setIndex, tagOf, Sets

\* An access to an address has a result of the type of CacheAccessResult.
LEMMA AccessType ==
    ASSUME CacheTypeOK, NEW address \in Words, NEW isStore \in BOOLEAN
    PROVE  access(address, isStore) \in AccessResults
<1> DEFINE line == lines[setIndex(address)]
<1>1. line.valid \in BOOLEAN /\ line.dirty \in BOOLEAN
    BY AddressGeometry DEF CacheTypeOK
<1>2. isHit(address) \in BOOLEAN
    BY DEF isHit
<1>3. HitLatency \in Nat /\ HitLatency + MissPenalty \in Nat
    BY CacheLatencyAssumption
<1> QED
    BY <1>1, <1>2, <1>3, AddressGeometry DEF access, AccessResults

\* The cache starts well typed.
LEMMA CacheInitTypes == CacheInit => CacheTypeOK
BY DEF CacheInit, CacheTypeOK, InvalidLine, NoFill

\* The start of an access keeps the types.
LEMMA StartAccessTypes ==
    ASSUME CacheTypeOK, NEW k \in Ids, NEW address \in Words, NEW isStore \in BOOLEAN,
           StartAccess(k, address, isStore)
    PROVE  CacheTypeOK'
<1> DEFINE result == access(address, isStore)
<1>1. result \in AccessResults
    BY AccessType
<1> HIDE DEF result
<1>2. /\ result.setIndex \in Sets /\ result.tag \in Nat /\ result.latency \in Nat
      /\ result.hit \in BOOLEAN /\ result.writeback \in BOOLEAN
    BY <1>1 DEF AccessResults
<1>3. lines' \in [Sets -> [valid : BOOLEAN, dirty : BOOLEAN, tag : Nat]]
  <2>1. lines' = [lines EXCEPT ![result.setIndex].dirty = @ \/ (result.hit /\ isStore)]
    BY DEF StartAccess, result
  <2>2. lines[result.setIndex] \in [valid : BOOLEAN, dirty : BOOLEAN, tag : Nat]
    BY <1>2 DEF CacheTypeOK
  <2>3. (lines[result.setIndex].dirty \/ (result.hit /\ isStore)) \in BOOLEAN
    OBVIOUS
  <2> QED
    BY <1>2, <2>1, <2>2, <2>3 DEF CacheTypeOK
<1>4. pendingFills' \in [Sets -> [valid : BOOLEAN, tag : Nat]]
    BY <1>2 DEF StartAccess, CacheTypeOK, result
<1>5. cacheStats' \in [{"accesses", "hits", "misses", "writebacks",
                        "totalAccessLatency"} -> Nat]
  <2> DEFINE hits == count(result.hit)
             misses == count(~result.hit)
             writebacks == count(result.writeback)
  <2>1. hits \in Nat /\ misses \in Nat /\ writebacks \in Nat
      BY DEF count
  <2>2. cacheStats' = [cacheStats EXCEPT
            !.accesses = @ + 1, !.hits = @ + hits, !.misses = @ + misses,
            !.writebacks = @ + writebacks, !.totalAccessLatency = @ + result.latency]
      BY DEF StartAccess, result
  <2>3. cacheStats \in [{"accesses", "hits", "misses", "writebacks",
                         "totalAccessLatency"} -> Nat]
      BY DEF CacheTypeOK
  <2> HIDE DEF hits, misses, writebacks
  <2> DEFINE old == cacheStats
  <2>4. /\ old.accesses + 1 \in Nat /\ old.hits + hits \in Nat
        /\ old.misses + misses \in Nat /\ old.writebacks + writebacks \in Nat
        /\ old.totalAccessLatency + result.latency \in Nat
      BY <1>2, <2>1, <2>3
  <2> QED
      BY <2>2, <2>3, <2>4, Zenon
<1>6. DOMAIN accesses' \subseteq Ids /\ accesses' \in [DOMAIN accesses' -> AccessResults]
    BY <1>1 DEF StartAccess, CacheTypeOK, result
<1> QED
    BY <1>3, <1>4, <1>5, <1>6 DEF CacheTypeOK

\* What is left of the accesses when those of S are over.
LEMMA RemainingAccesses ==
    ASSUME CacheTypeOK, NEW S, accesses' = Restrict(accesses, DOMAIN accesses \ S)
    PROVE  /\ DOMAIN accesses' = DOMAIN accesses \ S
           /\ \A k \in DOMAIN accesses' : accesses'[k] = accesses[k]
           /\ DOMAIN accesses' \subseteq Ids
           /\ accesses' \in [DOMAIN accesses' -> AccessResults]
BY DEF Restrict, CacheTypeOK

\* The end of an access keeps the types.
LEMMA CompleteAccessTypes ==
    ASSUME CacheTypeOK, NEW k \in DOMAIN accesses, CompleteAccess(k)
    PROVE  CacheTypeOK'
<1>1. accesses[k] \in AccessResults
    BY DEF CacheTypeOK
<1>2. accesses' = Restrict(accesses, DOMAIN accesses \ {k})
    BY DEF CompleteAccess
<1>3. /\ lines' \in [Sets -> [valid : BOOLEAN, dirty : BOOLEAN, tag : Nat]]
      /\ pendingFills' \in [Sets -> [valid : BOOLEAN, tag : Nat]]
      /\ cacheStats' = cacheStats
  <2>1. CASE accesses[k].fillRequired
    <3>1. /\ Installed(accesses[k]) \in [valid : BOOLEAN, dirty : BOOLEAN, tag : Nat]
          /\ NoFill \in [valid : BOOLEAN, tag : Nat]
        BY <1>1 DEF AccessResults, Installed, NoFill
    <3>2. /\ lines' = [lines EXCEPT ![accesses[k].setIndex] = Installed(accesses[k])]
          /\ pendingFills' = [pendingFills EXCEPT ![accesses[k].setIndex] = NoFill]
          /\ cacheStats' = cacheStats
        BY <2>1 DEF CompleteAccess
    <3> QED
        BY <3>1, <3>2 DEF CacheTypeOK
  <2>2. CASE ~accesses[k].fillRequired
      BY <2>2 DEF CompleteAccess, CacheTypeOK
  <2> QED
      BY <2>1, <2>2
<1> QED
    BY <1>2, <1>3, RemainingAccesses DEF CacheTypeOK

\* Cancelled accesses leave the types.
LEMMA CancelAccessesTypes ==
    ASSUME CacheTypeOK, NEW S \in SUBSET DOMAIN accesses, CancelAccesses(S)
    PROVE  CacheTypeOK'
<1>1. accesses' = Restrict(accesses, DOMAIN accesses \ S)
    BY DEF CancelAccesses
<1>2. pendingFills' \in [Sets -> [valid : BOOLEAN, tag : Nat]]
    BY DEF CancelAccesses, FillsAfterCancel, CacheTypeOK, NoFill
<1>3. UNCHANGED <<lines, cacheStats>>
    BY DEF CancelAccesses
<1> QED
    BY <1>1, <1>2, <1>3, RemainingAccesses DEF CacheTypeOK

\* What a client does keeps the types.
LEMMA ClientTypes == CacheTypeOK /\ [Client]_cacheVars => CacheTypeOK'
<1> SUFFICES ASSUME CacheTypeOK, [Client]_cacheVars PROVE CacheTypeOK'
    OBVIOUS
<1>1. CASE UNCHANGED cacheVars
    BY <1>1 DEF cacheVars, CacheTypeOK
<1> QED
    BY <1>1, StartAccessTypes, CompleteAccessTypes, CancelAccessesTypes DEF Client

(***************************************************************************)
(* For every geometry and every client, sets, tags and counters keep their  *)
(* types: an access never names a set the cache does not have.              *)
(***************************************************************************)
THEOREM CacheTypeCorrect == CacheSpec => []CacheTypeOK
BY CacheInitTypes, ClientTypes, PTL DEF CacheSpec

-----------------------------------------------------------------------------
(* Pending fills                                                             *)

FillInv == CacheTypeOK /\ FillsAreOwned

\* The empty cache has no fill under way.
LEMMA InitFills == CacheInit => FillInv
<1> SUFFICES ASSUME CacheInit PROVE FillsAreOwned
    BY CacheInitTypes DEF FillInv
<1>1. DOMAIN accesses = {}
    BY DEF CacheInit
<1> QED
    BY <1>1 DEF CacheInit, FillsAreOwned, Fillers, NoFill

\* An access that misses becomes the only filler of its set, which had none;
\* every other set keeps its fillers.
LEMMA StartAccessFillers ==
    ASSUME FillInv, NEW k \in Ids \ DOMAIN accesses, NEW address \in Words,
           NEW isStore \in BOOLEAN, canStartAccess(address),
           StartAccess(k, address, isStore)
    PROVE  /\ Fillers(setIndex(address)) = {}
           /\ \A s \in Sets :
                Fillers(s)' = Fillers(s) \cup
                    (IF s = setIndex(address) /\ ~isHit(address) THEN {k} ELSE {})
           /\ \A j \in DOMAIN accesses : j \in DOMAIN accesses' /\ accesses'[j] = accesses[j]
           /\ accesses'[k] = access(address, isStore)
<1>1. Fillers(setIndex(address)) = {}
    BY AddressGeometry DEF FillInv, FillsAreOwned, canStartAccess
<1>2. /\ DOMAIN accesses' = DOMAIN accesses \cup {k}
      /\ \A j \in DOMAIN accesses : accesses'[j] = accesses[j]
      /\ accesses'[k] = access(address, isStore)
    BY DEF StartAccess
<1>3. /\ accesses'[k].fillRequired = ~isHit(address)
      /\ accesses'[k].setIndex = setIndex(address)
    BY <1>2 DEF access
<1>4. ASSUME NEW s \in Sets
      PROVE  Fillers(s)' = Fillers(s) \cup
                 (IF s = setIndex(address) /\ ~isHit(address) THEN {k} ELSE {})
    BY <1>2, <1>3 DEF Fillers
<1> QED
    BY <1>1, <1>2, <1>4

\* A started access owns the fill it reserved, and disturbs no other.
LEMMA StartAccessFills ==
    ASSUME FillInv, NEW k \in Ids \ DOMAIN accesses, NEW address \in Words,
           NEW isStore \in BOOLEAN, canStartAccess(address),
           StartAccess(k, address, isStore)
    PROVE  FillsAreOwned'
<1> DEFINE missSet == setIndex(address)
<1>1. /\ Fillers(missSet) = {}
      /\ \A s \in Sets :
           Fillers(s)' = Fillers(s) \cup
               (IF s = missSet /\ ~isHit(address) THEN {k} ELSE {})
      /\ \A j \in DOMAIN accesses : accesses'[j] = accesses[j]
      /\ accesses'[k] = access(address, isStore)
    BY StartAccessFillers
<1>2. /\ access(address, isStore).hit = isHit(address)
      /\ access(address, isStore).setIndex = missSet
    BY DEF access
<1>3. pendingFills' = IF isHit(address) THEN pendingFills
                      ELSE [pendingFills EXCEPT ![missSet] =
                               [valid |-> TRUE, tag |-> access(address, isStore).tag]]
    BY <1>2 DEF StartAccess
<1>4. missSet \in Sets
    BY AddressGeometry
<1> SUFFICES ASSUME NEW s \in Sets
             PROVE  /\ pendingFills'[s].valid <=> Fillers(s)' # {}
                    /\ \A j \in Fillers(s)' :
                         Fillers(s)' = {j} /\ pendingFills'[s].tag = accesses'[j].tag
    BY DEF FillsAreOwned
<1> HIDE DEF missSet
<1>5. CASE s = missSet /\ ~isHit(address)
  <2>1. Fillers(s)' = {k}
      BY <1>1, <1>5
  <2>2. pendingFills'[s] = [valid |-> TRUE, tag |-> access(address, isStore).tag]
      BY <1>3, <1>4, <1>5 DEF FillInv, CacheTypeOK
  <2> QED
      BY <1>1, <2>1, <2>2
<1>6. CASE ~(s = missSet /\ ~isHit(address))
  <2>1. Fillers(s)' = Fillers(s) /\ pendingFills'[s] = pendingFills[s]
      BY <1>1, <1>3, <1>4, <1>6 DEF FillInv, CacheTypeOK
  <2>2. Fillers(s) \subseteq DOMAIN accesses
      BY DEF Fillers
  <2> QED
      BY <1>1, <2>1, <2>2 DEF FillInv, FillsAreOwned
<1> QED
    BY <1>5, <1>6

\* What remains of the fillers when the accesses of S are over.
LEMMA RemainingFillers ==
    ASSUME CacheTypeOK, NEW S, accesses' = Restrict(accesses, DOMAIN accesses \ S),
           NEW s \in Sets
    PROVE  /\ Fillers(s)' = Fillers(s) \ S
           /\ \A k \in Fillers(s)' : accesses'[k] = accesses[k]
BY RemainingAccesses DEF Fillers

\* A completed access frees its own fill and no other.
LEMMA CompleteAccessFills ==
    ASSUME FillInv, NEW k \in DOMAIN accesses, CompleteAccess(k)
    PROVE  FillsAreOwned'
<1> SUFFICES ASSUME NEW s \in Sets
             PROVE  /\ pendingFills'[s].valid <=> Fillers(s)' # {}
                    /\ \A j \in Fillers(s)' :
                         Fillers(s)' = {j} /\ pendingFills'[s].tag = accesses'[j].tag
    BY DEF FillsAreOwned
<1>1. CacheTypeOK /\ accesses[k] \in AccessResults
    BY DEF FillInv, CacheTypeOK
<1>2. /\ Fillers(s)' = Fillers(s) \ {k}
      /\ \A j \in Fillers(s)' : accesses'[j] = accesses[j]
    BY <1>1, RemainingFillers DEF CompleteAccess
<1>3. /\ pendingFills[s].valid <=> Fillers(s) # {}
      /\ \A j \in Fillers(s) :
           Fillers(s) = {j} /\ pendingFills[s].tag = accesses[j].tag
    BY DEF FillInv, FillsAreOwned
<1>4. CASE k \in Fillers(s)
  <2>1. Fillers(s)' = {}
      BY <1>2, <1>3, <1>4
  <2>2. ~pendingFills'[s].valid
      BY <1>1, <1>4 DEF CompleteAccess, Fillers, NoFill, CacheTypeOK
  <2> QED
      BY <2>1, <2>2
<1>5. CASE k \notin Fillers(s)
  <2>1. pendingFills'[s] = pendingFills[s]
      BY <1>1, <1>5 DEF CompleteAccess, Fillers, CacheTypeOK
  <2> QED
      BY <1>2, <1>3, <1>5, <2>1
<1> QED
    BY <1>4, <1>5

\* A flush frees the fills of the accesses it cancels and no others.
LEMMA CancelAccessesFills ==
    ASSUME FillInv, NEW S \in SUBSET DOMAIN accesses, CancelAccesses(S)
    PROVE  FillsAreOwned'
<1> SUFFICES ASSUME NEW s \in Sets
             PROVE  /\ pendingFills'[s].valid <=> Fillers(s)' # {}
                    /\ \A j \in Fillers(s)' :
                         Fillers(s)' = {j} /\ pendingFills'[s].tag = accesses'[j].tag
    BY DEF FillsAreOwned
<1>1. CacheTypeOK
    BY DEF FillInv
<1>2. /\ Fillers(s)' = Fillers(s) \ S
      /\ \A j \in Fillers(s)' : accesses'[j] = accesses[j]
    BY <1>1, RemainingFillers DEF CancelAccesses
<1>3. /\ pendingFills[s].valid <=> Fillers(s) # {}
      /\ \A j \in Fillers(s) :
           Fillers(s) = {j} /\ pendingFills[s].tag = accesses[j].tag
    BY DEF FillInv, FillsAreOwned
<1>4. pendingFills'[s] =
          IF \E k \in S : OwnsFill(k, s) THEN NoFill ELSE pendingFills[s]
    BY DEF CancelAccesses, FillsAfterCancel
<1>5. ASSUME NEW k \in S PROVE OwnsFill(k, s) <=> k \in Fillers(s)
    BY <1>3 DEF OwnsFill, Fillers
<1>6. CASE \E k \in S : k \in Fillers(s)
    BY <1>2, <1>3, <1>4, <1>5, <1>6 DEF NoFill
<1>7. CASE ~\E k \in S : k \in Fillers(s)
    BY <1>2, <1>3, <1>4, <1>5, <1>7
<1> QED
    BY <1>6, <1>7

LEMMA ClientFills == FillInv /\ [Client]_cacheVars => FillInv'
<1> SUFFICES ASSUME FillInv, [Client]_cacheVars PROVE FillInv'
    OBVIOUS
<1>1. CacheTypeOK'
    BY ClientTypes DEF FillInv
<1>2. CASE UNCHANGED cacheVars
    BY <1>2 DEF cacheVars, FillInv, FillsAreOwned, Fillers, CacheTypeOK
<1>3. FillsAreOwned'
    BY <1>2, StartAccessFills, CompleteAccessFills, CancelAccessesFills DEF Client, FillInv
<1> QED
    BY <1>1, <1>3 DEF FillInv

(***************************************************************************)
(* For every geometry and every client, a set is reserved exactly as long   *)
(* as one access in progress will fill it: no set stays blocked by a fill    *)
(* that nobody completes or cancels, and no fill is freed by a stranger.     *)
(***************************************************************************)
THEOREM FillsOwned == CacheSpec => []FillsAreOwned
<1>1. FillInv => FillsAreOwned
    BY DEF FillInv
<1> QED
    BY <1>1, InitFills, ClientFills, PTL DEF CacheSpec

-----------------------------------------------------------------------------
(* Dirty lines                                                               *)

\* What a miss found out about the line of its set when it started is still so.
MissesJudgeTheirLine ==
    \A s \in Sets : \A k \in Fillers(s) :
        /\ accesses[k].writeback = (lines[s].valid /\ lines[s].dirty)
        /\ lines[s].valid => lines[s].tag # accesses[k].tag

DirtyInv == FillInv /\ MissesJudgeTheirLine

\* The empty cache has no miss under way.
LEMMA InitDirty == CacheInit => DirtyInv
<1> SUFFICES ASSUME CacheInit PROVE MissesJudgeTheirLine
    BY InitFills DEF DirtyInv
<1> QED
    BY DEF CacheInit, MissesJudgeTheirLine, Fillers

\* The start of an access judges its own set's line, and changes no line that a
\* miss has judged.
LEMMA StartAccessDirty ==
    ASSUME DirtyInv, NEW k \in Ids \ DOMAIN accesses, NEW address \in Words,
           NEW isStore \in BOOLEAN, canStartAccess(address),
           StartAccess(k, address, isStore)
    PROVE  /\ MissesJudgeTheirLine'
           /\ \A s \in Sets : lines[s].valid /\ lines[s].dirty
                => lines'[s].dirty /\ lines'[s].tag = lines[s].tag
<1> DEFINE touched == setIndex(address)
           result == access(address, isStore)
<1>1. /\ Fillers(touched) = {}
      /\ \A s \in Sets :
           Fillers(s)' = Fillers(s) \cup
               (IF s = touched /\ ~isHit(address) THEN {k} ELSE {})
      /\ \A j \in DOMAIN accesses : accesses'[j] = accesses[j]
      /\ accesses'[k] = result
    BY StartAccessFillers DEF DirtyInv
<1>2. /\ result.hit = isHit(address) /\ result.tag = tagOf(address)
      /\ result.setIndex = touched
      /\ result.writeback = (~isHit(address) /\ lines[touched].valid /\ lines[touched].dirty)
    BY DEF access
<1>3. touched \in Sets /\ CacheTypeOK
    BY AddressGeometry DEF DirtyInv, FillInv
<1>4. lines' = [lines EXCEPT ![touched].dirty = @ \/ (isHit(address) /\ isStore)]
    BY <1>2 DEF StartAccess
<1>5. isHit(address) <=> lines[touched].valid /\ lines[touched].tag = tagOf(address)
    BY DEF isHit
<1> HIDE DEF touched, result
<1>6. /\ \A s \in Sets : s # touched => lines'[s] = lines[s]
      /\ lines'[touched].valid = lines[touched].valid
      /\ lines'[touched].tag = lines[touched].tag
      /\ lines'[touched].dirty = (lines[touched].dirty \/ (isHit(address) /\ isStore))
    BY <1>3, <1>4 DEF CacheTypeOK
<1>7. ASSUME NEW s \in Sets, NEW j \in Fillers(s)'
      PROVE  /\ accesses'[j].writeback = (lines'[s].valid /\ lines'[s].dirty)
             /\ lines'[s].valid => lines'[s].tag # accesses'[j].tag
  <2>1. CASE s = touched
    <3>1. j = k /\ ~isHit(address)
        BY <1>1, <1>7, <2>1
    <3>2. /\ result.writeback = (lines[touched].valid /\ lines[touched].dirty)
          /\ lines[touched].valid => lines[touched].tag # result.tag
        BY <1>2, <1>5, <3>1
    <3>3. lines'[touched].dirty = lines[touched].dirty
        BY <1>3, <1>6, <3>1 DEF CacheTypeOK
    <3> QED
        BY <1>1, <1>6, <2>1, <3>1, <3>2, <3>3
  <2>2. CASE s # touched
    <3>1. j \in Fillers(s) /\ j \in DOMAIN accesses
        BY <1>1, <1>7, <2>2 DEF Fillers
    <3> QED
        BY <1>1, <1>6, <2>2, <3>1 DEF DirtyInv, MissesJudgeTheirLine
  <2> QED
      BY <2>1, <2>2
<1> QED
    BY <1>6, <1>7 DEF MissesJudgeTheirLine

\* A completed fill replaces the line its access judged; no other line changes.
LEMMA CompleteAccessDirty ==
    ASSUME DirtyInv, NEW k \in DOMAIN accesses, CompleteAccess(k)
    PROVE  /\ MissesJudgeTheirLine'
           /\ \A s \in Sets : lines'[s] # lines[s] =>
                /\ k \in Fillers(s)
                /\ lines[s].valid /\ lines[s].dirty => accesses[k].writeback /\ Replaces(k)
<1>1. CacheTypeOK /\ accesses[k] \in AccessResults
    BY DEF DirtyInv, FillInv, CacheTypeOK
<1>2. ASSUME NEW s \in Sets
      PROVE  /\ Fillers(s)' = Fillers(s) \ {k}
             /\ \A j \in Fillers(s)' : accesses'[j] = accesses[j]
    BY <1>1, RemainingFillers DEF CompleteAccess
<1>3. ASSUME NEW s \in Sets, k \notin Fillers(s)
      PROVE  lines'[s] = lines[s]
    BY <1>1, <1>3 DEF CompleteAccess, Fillers, CacheTypeOK
<1>4. ASSUME NEW s \in Sets, k \in Fillers(s)
      PROVE  /\ Fillers(s) = {k} /\ accesses[k].setIndex = s
             /\ lines'[s].valid /\ lines'[s].tag = accesses[k].tag
  <2>1. accesses[k].fillRequired /\ accesses[k].setIndex = s
      BY <1>4 DEF Fillers
  <2>2. lines'[s] = Installed(accesses[k])
      BY <1>1, <2>1 DEF CompleteAccess, CacheTypeOK
  <2> QED
      BY <1>4, <2>1, <2>2 DEF DirtyInv, FillInv, FillsAreOwned, Installed
<1>5. MissesJudgeTheirLine'
  <2> SUFFICES ASSUME NEW s \in Sets, NEW j \in Fillers(s)'
               PROVE  /\ accesses'[j].writeback = (lines'[s].valid /\ lines'[s].dirty)
                      /\ lines'[s].valid => lines'[s].tag # accesses'[j].tag
      BY DEF MissesJudgeTheirLine
  <2>1. j \in Fillers(s) /\ j # k /\ accesses'[j] = accesses[j]
      BY <1>2
  <2>2. lines'[s] = lines[s]
      BY <1>3, <1>4, <2>1
  <2> QED
      BY <2>1, <2>2 DEF DirtyInv, MissesJudgeTheirLine
<1>6. ASSUME NEW s \in Sets, lines'[s] # lines[s], lines[s].valid, lines[s].dirty
      PROVE  accesses[k].writeback /\ Replaces(k)
  <2>1. k \in Fillers(s)
      BY <1>3, <1>6
  <2>2. accesses[k].writeback /\ lines[s].tag # accesses[k].tag
      BY <1>6, <2>1 DEF DirtyInv, MissesJudgeTheirLine
  <2> QED
      BY <1>4, <2>1, <2>2 DEF Replaces
<1> QED
    BY <1>3, <1>5, <1>6

\* Cancelled misses leave every line, and the others' judgement of it.
LEMMA CancelAccessesDirty ==
    ASSUME DirtyInv, NEW S \in SUBSET DOMAIN accesses, CancelAccesses(S)
    PROVE  MissesJudgeTheirLine' /\ lines' = lines
<1>1. CacheTypeOK
    BY DEF DirtyInv, FillInv
<1>2. lines' = lines
    BY DEF CancelAccesses
<1>3. ASSUME NEW s \in Sets, NEW j \in Fillers(s)'
      PROVE  j \in Fillers(s) /\ accesses'[j] = accesses[j]
    BY <1>1, RemainingFillers DEF CancelAccesses
<1> QED
    BY <1>2, <1>3 DEF DirtyInv, MissesJudgeTheirLine

\* The step that DirtyEvictionsAreCounted allows.
EvictionCounted ==
    \A s \in Sets :
        lines[s].valid /\ lines[s].dirty /\ ~(lines'[s].dirty /\ lines'[s].tag = lines[s].tag)
        => \E k \in DOMAIN accesses \ DOMAIN accesses' :
             accesses[k].setIndex = s /\ accesses[k].writeback /\ Replaces(k)

LEMMA ClientDirty == DirtyInv /\ [Client]_cacheVars => DirtyInv' /\ [EvictionCounted]_cacheVars
<1> SUFFICES ASSUME DirtyInv, [Client]_cacheVars
             PROVE  MissesJudgeTheirLine' /\ [EvictionCounted]_cacheVars
    BY ClientFills DEF DirtyInv
<1>1. CASE UNCHANGED cacheVars
    BY <1>1 DEF cacheVars, DirtyInv, MissesJudgeTheirLine, Fillers
<1>2. ASSUME NEW k \in Ids \ DOMAIN accesses, NEW address \in Words, NEW isStore \in BOOLEAN,
             canStartAccess(address), StartAccess(k, address, isStore)
      PROVE  MissesJudgeTheirLine' /\ EvictionCounted
    BY <1>2, StartAccessDirty DEF EvictionCounted
<1>3. ASSUME NEW k \in DOMAIN accesses, CompleteAccess(k)
      PROVE  MissesJudgeTheirLine' /\ EvictionCounted
  <2>1. DOMAIN accesses' = DOMAIN accesses \ {k}
      BY <1>3, RemainingAccesses DEF CompleteAccess, DirtyInv, FillInv
  <2>2. ASSUME NEW s \in Sets, lines[s].valid, lines[s].dirty,
               ~(lines'[s].dirty /\ lines'[s].tag = lines[s].tag)
        PROVE  accesses[k].setIndex = s /\ accesses[k].writeback /\ Replaces(k)
      BY <1>3, <2>2, CompleteAccessDirty DEF Fillers
  <2> QED
      BY <1>3, <2>1, <2>2, CompleteAccessDirty DEF EvictionCounted
<1>4. ASSUME NEW S \in SUBSET DOMAIN accesses, CancelAccesses(S)
      PROVE  MissesJudgeTheirLine' /\ EvictionCounted
    BY <1>4, CancelAccessesDirty DEF EvictionCounted
<1> QED
    BY <1>1, <1>2, <1>3, <1>4 DEF Client

(***************************************************************************)
(* For every geometry and every client, a dirty line leaves the cache only  *)
(* in the completion of an access that counted its writeback, however many   *)
(* accesses started, ended or were cancelled in between.                     *)
(***************************************************************************)
THEOREM EvictionsCounted == CacheSpec => DirtyEvictionsAreCounted
<1>1. CacheSpec => [][EvictionCounted]_cacheVars
    BY InitDirty, ClientDirty, PTL DEF CacheSpec
<1> QED
    BY <1>1 DEF DirtyEvictionsAreCounted, EvictionCounted

-----------------------------------------------------------------------------
(* Block numbers                                                             *)

\* A number of the form t * n + s, s below n, has the quotient t and the rest s.
LEMMA QuotientIsUnique ==
    ASSUME NEW n \in Nat \ {0}, NEW t \in Nat, NEW s \in 0 .. n - 1,
           NEW u \in Nat, NEW r \in 0 .. n - 1, t * n + s = u * n + r
    PROVE  t = u /\ s = r
<1>1. ASSUME NEW a \in Nat, NEW b \in Nat, a < b PROVE a * n + n <= b * n
  <2>1. b - a - 1 \in Nat
      BY <1>1
  <2>2. (b - a - 1) * n \in Nat
      BY <2>1
  <2>3. (b - a - 1) * n = b * n - a * n - n
      OBVIOUS
  <2>4. a * n \in Int /\ b * n \in Int
      OBVIOUS
  <2> QED
      BY <2>2, <2>3, <2>4
<1>2. t * n \in Int /\ u * n \in Int
    OBVIOUS
<1>3. ~(t < u)
    BY <1>1, <1>2
<1>4. ~(u < t)
    BY <1>1, <1>2
<1>5. t = u
    BY <1>3, <1>4
<1> QED
    BY <1>2, <1>5

\* Division gives a number of that form.
LEMMA DivisionForm ==
    ASSUME NEW a \in Nat, NEW n \in Nat \ {0}
    PROVE  a = (a \div n) * n + (a % n)
<1> DEFINE q == a \div n
           r == a % n
<1>1. q \in Int /\ r \in Int
    OBVIOUS
<1>2. n * q + r = a
    BY SMTT(30)
<1> HIDE DEF q, r
<1>3. a = q * n + r
    BY <1>1, <1>2
<1> QED
    BY <1>3 DEF q, r

\* Set and tag name a block, and the block of an address has its set and tag.
LEMMA BlockGeometry ==
    ASSUME NEW s \in Sets, NEW tag \in Nat
    PROVE  /\ Block(s, tag) \in Nat /\ blockSet(Block(s, tag)) = s
           /\ \A r \in Sets, other \in Nat :
                Block(s, tag) = Block(r, other) => s = r /\ tag = other
<1>1. NumSets \in Nat \ {0} /\ s \in 0 .. NumSets - 1
    BY NumSetsAssumption DEF Sets
<1>2. tag * NumSets + s \in Nat
    BY <1>1
<1> DEFINE b == tag * NumSets + s
<1>3. b \in Nat /\ b \div NumSets \in Nat /\ b % NumSets \in 0 .. NumSets - 1
      /\ b = (b \div NumSets) * NumSets + (b % NumSets)
    BY <1>1, <1>2, DivisionType, DivisionForm
<1> DEFINE q == b \div NumSets
           rest == b % NumSets
<1>4. tag * NumSets + s = q * NumSets + rest
    BY <1>3
<1>5. q \in Nat /\ rest \in 0 .. NumSets - 1
    BY <1>3
<1> HIDE DEF q, rest
<1>6. \A r \in Sets, other \in Nat :
          tag * NumSets + s = other * NumSets + r => s = r /\ tag = other
    BY <1>1, QuotientIsUnique DEF Sets
<1>7. rest = s
  <2>1. rest \in Sets
      BY <1>5 DEF Sets
  <2> QED
      BY <1>4, <1>5, <1>6, <2>1, Zenon
<1> QED
    BY <1>2, <1>6, <1>7 DEF Block, blockSet, rest

LEMMA AddressBlock ==
    ASSUME NEW address \in Words
    PROVE  /\ Block(setIndex(address), tagOf(address)) = blockAddress(address)
           /\ blockAddress(address) \in Blocks
<1>1. address \in Nat
    BY NumWordsAssumption DEF Words
<1>2. blockAddress(address) \in Nat
    BY <1>1, BlockSizeAssumption, DivisionType DEF blockAddress
<1> QED
    BY <1>2, NumSetsAssumption, DivisionForm DEF Block, setIndex, tagOf, Blocks

-----------------------------------------------------------------------------
(* The block cache                                                           *)

\* The blocks that lines, or fills, stand for.
BlocksOf(holders) ==
    {Block(s, holders[s].tag) : s \in {s \in Sets : holders[s].valid}}

Tagged(holders) == \A s \in Sets : holders[s].tag \in Nat

\* A block is among them exactly if its set holds its tag.
LEMMA BlockHeld ==
    ASSUME NEW holders, Tagged(holders), NEW s \in Sets, NEW tag \in Nat
    PROVE  Block(s, tag) \in BlocksOf(holders) <=>
               holders[s].valid /\ holders[s].tag = tag
<1>1. ASSUME Block(s, tag) \in BlocksOf(holders)
      PROVE  holders[s].valid /\ holders[s].tag = tag
  <2>1. PICK r \in Sets : holders[r].valid /\ Block(s, tag) = Block(r, holders[r].tag)
      BY <1>1 DEF BlocksOf
  <2>2. s = r /\ tag = holders[r].tag
      BY <2>1, BlockGeometry DEF Tagged
  <2> QED
      BY <2>1, <2>2
<1>2. ASSUME holders[s].valid, holders[s].tag = tag
      PROVE  Block(s, tag) \in BlocksOf(holders)
    BY <1>2 DEF BlocksOf
<1> QED
    BY <1>1, <1>2

\* Each of them is of a set and a tag.
LEMMA HeldBlock ==
    ASSUME NEW holders, Tagged(holders), NEW b \in BlocksOf(holders)
    PROVE  \E s \in Sets :
               holders[s].valid /\ b = Block(s, holders[s].tag) /\ blockSet(b) = s
BY BlockGeometry DEF BlocksOf, Tagged

\* What holds the same blocks.
LEMMA SameBlocks ==
    ASSUME NEW before, NEW after,
           \A s \in Sets : (after[s].valid <=> before[s].valid) /\ after[s].tag = before[s].tag
    PROVE  BlocksOf(after) = BlocksOf(before)
BY DEF BlocksOf

\* A set that takes a block gives up the one it held.
LEMMA TakenBlock ==
    ASSUME NEW before, NEW after, Tagged(before), Tagged(after), NEW s \in Sets,
           \A r \in Sets : r # s => after[r] = before[r], after[s].valid
    PROVE  BlocksOf(after) =
               {c \in BlocksOf(before) : blockSet(c) # s} \cup {Block(s, after[s].tag)}
<1>1. ASSUME NEW b \in BlocksOf(after), b # Block(s, after[s].tag)
      PROVE  b \in BlocksOf(before) /\ blockSet(b) # s
  <2>1. PICK r \in Sets : after[r].valid /\ b = Block(r, after[r].tag) /\ blockSet(b) = r
      BY HeldBlock
  <2>2. r # s
      BY <1>1, <2>1
  <2>3. after[r] = before[r]
      BY <2>2
  <2> QED
      BY <2>1, <2>2, <2>3, BlockHeld DEF Tagged
<1>2. ASSUME NEW b \in BlocksOf(before), blockSet(b) # s PROVE b \in BlocksOf(after)
  <2>1. PICK r \in Sets : before[r].valid /\ b = Block(r, before[r].tag) /\ blockSet(b) = r
      BY HeldBlock
  <2>2. after[r] = before[r]
      BY <1>2, <2>1
  <2> QED
      BY <2>1, <2>2 DEF BlocksOf
<1>3. Block(s, after[s].tag) \in BlocksOf(after)
    BY DEF BlocksOf
<1> QED
    BY <1>1, <1>2, <1>3

\* Sets that give up their blocks.
LEMMA DroppedBlocks ==
    ASSUME NEW before, NEW after, Tagged(before), Tagged(after), NEW T,
           \A s \in Sets : IF s \in T THEN ~after[s].valid ELSE after[s] = before[s]
    PROVE  BlocksOf(after) = {c \in BlocksOf(before) : blockSet(c) \notin T}
<1>1. ASSUME NEW b \in BlocksOf(after) PROVE b \in BlocksOf(before) /\ blockSet(b) \notin T
  <2>1. PICK r \in Sets : after[r].valid /\ b = Block(r, after[r].tag) /\ blockSet(b) = r
      BY HeldBlock
  <2>2. r \notin T /\ after[r] = before[r]
      BY <2>1
  <2> QED
      BY <2>1, <2>2 DEF BlocksOf
<1>2. ASSUME NEW b \in BlocksOf(before), blockSet(b) \notin T PROVE b \in BlocksOf(after)
  <2>1. PICK r \in Sets : before[r].valid /\ b = Block(r, before[r].tag) /\ blockSet(b) = r
      BY HeldBlock
  <2>2. after[r] = before[r]
      BY <1>2, <2>1
  <2> QED
      BY <2>1, <2>2 DEF BlocksOf
<1> QED
    BY <1>1, <1>2

LEMMA MappedBlocks ==
    /\ presentBlocks = BlocksOf(lines) /\ presentBlocks' = BlocksOf(lines')
    /\ fetchingBlocks = BlocksOf(pendingFills) /\ fetchingBlocks' = BlocksOf(pendingFills')
BY DEF presentBlocks, fetchingBlocks, BlocksOf

\* Lines, fills and accesses name blocks that exist.
BlocksExist ==
    /\ presentBlocks \subseteq Blocks
    /\ \A k \in DOMAIN accesses : Block(accesses[k].setIndex, accesses[k].tag) \in Blocks

BlockInv == FillInv /\ BlocksExist

LEMMA InitBlocks == CacheInit => BlockInv /\ Abstract!Init
<1> SUFFICES ASSUME CacheInit PROVE BlockInv /\ Abstract!Init
    OBVIOUS
<1>1. presentBlocks = {} /\ fetchingBlocks = {} /\ DOMAIN accesses = {}
    BY DEF CacheInit, presentBlocks, fetchingBlocks, InvalidLine, NoFill
<1> QED
    BY <1>1, InitFills DEF BlockInv, BlocksExist, Abstract!Init

LEMMA BlockFacts ==
    ASSUME BlockInv
    PROVE  /\ CacheTypeOK /\ Tagged(lines) /\ Tagged(pendingFills)
           /\ \A k \in DOMAIN accesses : accesses[k] \in AccessResults
           /\ fetchingBlocks \subseteq Blocks
<1>1. CacheTypeOK
    BY DEF BlockInv, FillInv
<1>2. ASSUME NEW b \in fetchingBlocks PROVE b \in Blocks
  <2>1. PICK s \in Sets : pendingFills[s].valid /\ b = Block(s, pendingFills[s].tag)
      BY DEF fetchingBlocks
  <2>2. PICK k \in Fillers(s) : pendingFills[s].tag = accesses[k].tag
      BY <2>1 DEF BlockInv, FillInv, FillsAreOwned
  <2> QED
      BY <2>1, <2>2 DEF BlockInv, BlocksExist, Fillers
<1> QED
    BY <1>1, <1>2 DEF CacheTypeOK, Tagged

\* A step of the block cache, or none.
BlockStep == Abstract!Next \/ UNCHANGED <<presentBlocks, fetchingBlocks>>

\* A hit leaves the blocks; a miss starts the fetch of the block it asks for.
LEMMA StartAccessBlocks ==
    ASSUME BlockInv, CacheTypeOK', NEW k \in Ids \ DOMAIN accesses, NEW address \in Words,
           NEW isStore \in BOOLEAN, canStartAccess(address),
           StartAccess(k, address, isStore)
    PROVE  BlocksExist' /\ BlockStep
<1> DEFINE s == setIndex(address)
           t == tagOf(address)
           b == blockAddress(address)
           result == access(address, isStore)
<1>1. s \in Sets /\ t \in Nat /\ b = Block(s, t) /\ b \in Blocks
    BY AddressGeometry, AddressBlock
<1>2. /\ result.hit = isHit(address) /\ result.setIndex = s /\ result.tag = t
    BY DEF access
<1>3. /\ lines' = [lines EXCEPT ![s].dirty = @ \/ (result.hit /\ isStore)]
      /\ pendingFills' = IF result.hit THEN pendingFills
                         ELSE [pendingFills EXCEPT ![s] = [valid |-> TRUE, tag |-> t]]
      /\ DOMAIN accesses' = DOMAIN accesses \cup {k}
      /\ accesses'[k] = result
      /\ \A j \in DOMAIN accesses : accesses'[j] = accesses[j]
    BY <1>2 DEF StartAccess
<1>4. /\ isHit(address) <=> lines[s].valid /\ lines[s].tag = t
      /\ ~pendingFills[s].valid
    BY DEF isHit, canStartAccess
<1>5. CacheTypeOK /\ Tagged(lines) /\ Tagged(pendingFills) /\ Tagged(pendingFills')
    BY BlockFacts DEF CacheTypeOK, Tagged
<1> HIDE DEF s, t, b, result
<1>6. presentBlocks' = presentBlocks
  <2>1. ASSUME NEW r \in Sets
        PROVE  (lines'[r].valid <=> lines[r].valid) /\ lines'[r].tag = lines[r].tag
      BY <1>1, <1>3, <1>5 DEF CacheTypeOK
  <2> QED
      BY <2>1, SameBlocks, MappedBlocks
<1>7. BlocksExist'
  <2>1. ASSUME NEW j \in DOMAIN accesses'
        PROVE  Block(accesses'[j].setIndex, accesses'[j].tag) \in Blocks
      BY <1>1, <1>2, <1>3 DEF BlockInv, BlocksExist
  <2> QED
      BY <1>6, <2>1 DEF BlockInv, BlocksExist
<1>8. CASE result.hit
  <2>1. pendingFills' = pendingFills
      BY <1>3, <1>8
  <2>2. fetchingBlocks' = fetchingBlocks
      BY <2>1, MappedBlocks
  <2> QED
      BY <1>6, <1>7, <2>2 DEF BlockStep
<1>9. CASE ~result.hit
  <2>1. pendingFills' = [pendingFills EXCEPT ![s] = [valid |-> TRUE, tag |-> t]]
      BY <1>3, <1>9
  <2>2. /\ \A r \in Sets : r # s => pendingFills'[r] = pendingFills[r]
        /\ pendingFills'[s].valid /\ pendingFills'[s].tag = t
      BY <1>1, <1>5, <2>1 DEF CacheTypeOK
  <2>3. fetchingBlocks' = {c \in fetchingBlocks : blockSet(c) # s} \cup {b}
      BY <1>1, <1>5, <2>2, TakenBlock, MappedBlocks
  <2>4. ASSUME NEW c \in fetchingBlocks PROVE blockSet(c) # s
      BY <1>4, <1>5, MappedBlocks, HeldBlock
  <2>5. b \notin presentBlocks
      BY <1>1, <1>2, <1>4, <1>5, <1>9, BlockHeld, MappedBlocks
  <2>6. blockSet(b) = s
      BY <1>1, BlockGeometry
  <2>7. Abstract!SameSet(b) \cap fetchingBlocks = {}
      BY <2>4, <2>6 DEF Abstract!SameSet
  <2>8. fetchingBlocks' = fetchingBlocks \cup {b}
      BY <2>3, <2>4
  <2>9. Abstract!Fetch(b)
      BY <1>6, <2>5, <2>7, <2>8 DEF Abstract!Fetch
  <2>10. Abstract!Next
      BY <1>1, <2>9 DEF Abstract!Next
  <2> QED
      BY <1>7, <2>10 DEF BlockStep
<1> QED
    BY <1>8, <1>9

\* The end of a miss is the arrival of its block.
LEMMA CompleteAccessBlocks ==
    ASSUME BlockInv, CacheTypeOK', NEW k \in DOMAIN accesses, CompleteAccess(k)
    PROVE  BlocksExist' /\ BlockStep
<1> DEFINE s == accesses[k].setIndex
           t == accesses[k].tag
           b == Block(s, t)
<1>1. CacheTypeOK /\ Tagged(lines) /\ Tagged(pendingFills)
      /\ accesses[k] \in AccessResults /\ fetchingBlocks \subseteq Blocks
    BY BlockFacts
<1>2. s \in Sets /\ t \in Nat /\ b \in Blocks
    BY <1>1 DEF AccessResults, BlockInv, BlocksExist
<1>3. blockSet(b) = s
    BY <1>2, BlockGeometry
<1>4. ASSUME NEW j \in DOMAIN accesses'
      PROVE  Block(accesses'[j].setIndex, accesses'[j].tag) \in Blocks
    BY <1>1, RemainingAccesses DEF CompleteAccess, BlockInv, BlocksExist
<1>5. CASE ~accesses[k].fillRequired
  <2>1. lines' = lines /\ pendingFills' = pendingFills
      BY <1>5 DEF CompleteAccess
  <2>2. UNCHANGED <<presentBlocks, fetchingBlocks>>
      BY <2>1, MappedBlocks
  <2> QED
      BY <1>4, <2>2 DEF BlockInv, BlocksExist, BlockStep
<1>6. CASE accesses[k].fillRequired
  <2>1. /\ lines' = [lines EXCEPT ![s] = Installed(accesses[k])]
        /\ pendingFills' = [pendingFills EXCEPT ![s] = NoFill]
      BY <1>6 DEF CompleteAccess
  <2>2. pendingFills[s].valid /\ pendingFills[s].tag = t
    <3>1. k \in Fillers(s)
        BY <1>6 DEF Fillers
    <3> QED
        BY <1>2, <3>1 DEF BlockInv, FillInv, FillsAreOwned
  <2> HIDE DEF s, t
  <2>3. /\ \A r \in Sets : r # s => lines'[r] = lines[r]
        /\ lines'[s].valid /\ lines'[s].tag = t
        /\ \A r \in Sets : r # s => pendingFills'[r] = pendingFills[r]
        /\ ~pendingFills'[s].valid
      BY <1>1, <1>2, <2>1 DEF CacheTypeOK, Installed, NoFill, t
  <2>4. Tagged(lines') /\ Tagged(pendingFills')
      BY DEF CacheTypeOK, Tagged
  <2> HIDE DEF b
  <2>5. presentBlocks' = {c \in presentBlocks : blockSet(c) # s} \cup {b}
      BY <1>1, <1>2, <2>3, <2>4, TakenBlock, MappedBlocks DEF b
  <2>6. fetchingBlocks' = {c \in fetchingBlocks : blockSet(c) \notin {s}}
    <3> DEFINE T == {s}
    <3>1. \A r \in Sets :
              IF r \in T THEN ~pendingFills'[r].valid ELSE pendingFills'[r] = pendingFills[r]
        BY <2>3
    <3> HIDE DEF T
    <3>2. fetchingBlocks' = {c \in fetchingBlocks : blockSet(c) \notin T}
        BY <1>1, <2>4, <3>1, DroppedBlocks, MappedBlocks
    <3> QED
        BY <3>2 DEF T
  <2>7. ASSUME NEW c \in fetchingBlocks PROVE blockSet(c) = s <=> c = b
    <3>1. PICK r \in Sets : pendingFills[r].valid /\ c = Block(r, pendingFills[r].tag) /\ blockSet(c) = r
        BY <1>1, HeldBlock, MappedBlocks
    <3> QED
        BY <1>3, <2>2, <3>1 DEF b
  <2>8. b \in fetchingBlocks
      BY <1>1, <1>2, <2>2, BlockHeld, MappedBlocks DEF b
  <2>9. fetchingBlocks' = fetchingBlocks \ {b}
      BY <2>6, <2>7
  <2>10. presentBlocks \subseteq Blocks
      BY DEF BlockInv, BlocksExist
  <2>11. presentBlocks' = (presentBlocks \ Abstract!SameSet(b)) \cup {b}
      BY <1>3, <2>5, <2>10 DEF Abstract!SameSet
  <2>12. Abstract!Arrive(b)
      BY <2>8, <2>9, <2>11 DEF Abstract!Arrive
  <2>13. presentBlocks' \subseteq Blocks
      BY <1>2, <2>5, <2>10
  <2> QED
      BY <1>2, <1>4, <2>12, <2>13 DEF BlocksExist, BlockStep, Abstract!Next
<1> QED
    BY <1>5, <1>6

\* Cancelled misses abandon their blocks together.
LEMMA CancelAccessesBlocks ==
    ASSUME BlockInv, CacheTypeOK', NEW S \in SUBSET DOMAIN accesses, CancelAccesses(S)
    PROVE  BlocksExist' /\ BlockStep
<1> DEFINE T == {s \in Sets : \E k \in S : OwnsFill(k, s)}
           B == {c \in fetchingBlocks : blockSet(c) \in T}
<1>1. Tagged(pendingFills) /\ Tagged(pendingFills') /\ CacheTypeOK
    BY BlockFacts DEF CacheTypeOK, Tagged
<1>2. \A s \in Sets :
          IF s \in T THEN ~pendingFills'[s].valid ELSE pendingFills'[s] = pendingFills[s]
    BY DEF CancelAccesses, FillsAfterCancel, NoFill
<1>3. ASSUME NEW j \in DOMAIN accesses'
      PROVE  Block(accesses'[j].setIndex, accesses'[j].tag) \in Blocks
    BY <1>1, RemainingAccesses DEF CancelAccesses, BlockInv, BlocksExist
<1>4. presentBlocks' = presentBlocks
  <2>1. lines' = lines
      BY DEF CancelAccesses
  <2> QED
      BY <2>1, MappedBlocks
<1> HIDE DEF T
<1>5. fetchingBlocks' = {c \in fetchingBlocks : blockSet(c) \notin T}
    BY <1>1, <1>2, DroppedBlocks, MappedBlocks
<1>6. Abstract!Abandon(B)
    BY <1>4, <1>5 DEF Abstract!Abandon
<1>7. B \in SUBSET fetchingBlocks
    OBVIOUS
<1> HIDE DEF B
<1> QED
    BY <1>3, <1>4, <1>6, <1>7 DEF BlockInv, BlocksExist, BlockStep, Abstract!Next

LEMMA ClientBlocks == BlockInv /\ [Client]_cacheVars => BlockInv' /\ BlockStep
<1> SUFFICES ASSUME BlockInv, [Client]_cacheVars PROVE BlocksExist' /\ BlockStep
    BY ClientFills DEF BlockInv
<1>1. CacheTypeOK'
    BY ClientTypes, BlockFacts
<1>2. CASE UNCHANGED cacheVars
  <2>1. lines' = lines /\ pendingFills' = pendingFills /\ accesses' = accesses
      BY <1>2 DEF cacheVars
  <2> QED
      BY <2>1, MappedBlocks DEF BlockInv, BlocksExist, BlockStep
<1> QED
    BY <1>1, <1>2, StartAccessBlocks, CompleteAccessBlocks, CancelAccessesBlocks DEF Client

(***************************************************************************)
(* For every geometry and every client, the cache is a blocking, direct-     *)
(* mapped block cache in all it does: it fetches a block only if it is not    *)
(* there and no other of its set is on its way, a block comes in only by a    *)
(* fetch that ran to its end and puts out its own set's block and no other.   *)
(* (That every fetch ends is the liveness half of ImplementsBlockCache.)      *)
(***************************************************************************)
THEOREM BlockCacheRefined == CacheSpec => Abstract!Init /\ [][Abstract!Next]_(Abstract!vars)
<1>1. BlockInv /\ [Client]_cacheVars => BlockInv' /\ [Abstract!Next]_(Abstract!vars)
    BY ClientBlocks DEF BlockStep, Abstract!vars
<1> QED
    BY <1>1, InitBlocks, PTL DEF CacheSpec
=============================================================================

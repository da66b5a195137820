------------------------- MODULE BranchPredictor_proofs -------------------------
(* Proofs about the predictors of BranchPredictor.tla: any history length,    *)
(* any branches, any number of outcomes.  A counter is followed through the    *)
(* outcomes that trained it; each adds the largest number to their set.        *)
EXTENDS BranchPredictor, FiniteSetTheorems, TLAPS

-----------------------------------------------------------------------------
(* The youngest members of a set of numbers                                  *)

Above(x, S) == {y \in S : y > x}

\* With a number larger than all the others, the k + 1 youngest are this one
\* and the k youngest of the others.
LEMMA YoungestGrows ==
    ASSUME NEW S \in SUBSET Nat, IsFiniteSet(S), NEW m \in Nat, \A n \in S : n < m,
           NEW k \in Nat
    PROVE  Youngest(k + 1, S \cup {m}) = Youngest(k, S) \cup {m}
<1>1. Above(m, S \cup {m}) = {}
  <2>1. ~(m > m) /\ \A n \in S : ~(n > m)
      OBVIOUS
  <2> QED
      BY <2>1 DEF Above
<1>2. Cardinality(Above(m, S \cup {m})) < k + 1
  <2>1. Cardinality(Above(m, S \cup {m})) = 0
      BY <1>1, FS_EmptySet
  <2> QED
      BY <2>1
<1>3. ASSUME NEW x \in S
      PROVE  Cardinality(Above(x, S \cup {m})) < k + 1 <=> Cardinality(Above(x, S)) < k
  <2>1. Above(x, S \cup {m}) = Above(x, S) \cup {m} /\ m \notin Above(x, S)
      BY DEF Above
  <2>2. IsFiniteSet(Above(x, S)) /\ Cardinality(Above(x, S)) \in Nat
      BY FS_Subset, FS_CardinalityType DEF Above
  <2>3. Cardinality(Above(x, S \cup {m})) = Cardinality(Above(x, S)) + 1
      BY <2>1, <2>2, FS_AddElement
  <2> QED
      BY <2>2, <2>3
<1>4. Youngest(k + 1, S \cup {m}) = {x \in S \cup {m} : Cardinality(Above(x, S \cup {m})) < k + 1}
    BY DEF Youngest, Above
<1>5. Youngest(k, S) = {x \in S : Cardinality(Above(x, S)) < k}
    BY DEF Youngest, Above
<1> QED
    BY <1>2, <1>3, <1>4, <1>5

LEMMA NoneYoungest ==
    ASSUME NEW S \in SUBSET Nat, IsFiniteSet(S) PROVE Youngest(0, S) = {}
<1>1. ASSUME NEW x \in S PROVE Cardinality(Above(x, S)) \in Nat
  <2>1. Above(x, S) \in SUBSET S
      BY DEF Above
  <2> QED
      BY <2>1, FS_Subset, FS_CardinalityType
<1>2. \A x \in S : ~(Cardinality(Above(x, S)) < 0)
    BY <1>1
<1> QED
    BY <1>2 DEF Youngest, Above

LEMMA YoungestCount ==
    ASSUME NEW S \in SUBSET Nat, IsFiniteSet(S), NEW m \in Nat, \A n \in S : n < m,
           NEW k \in Nat
    PROVE  /\ Youngest(k, S) \subseteq S
           /\ Cardinality(Youngest(k, S)) \in Nat
           /\ Cardinality(Youngest(k + 1, S \cup {m})) = Cardinality(Youngest(k, S)) + 1
<1>1. Youngest(k, S) \subseteq S
    BY DEF Youngest
<1>2. IsFiniteSet(Youngest(k, S)) /\ Cardinality(Youngest(k, S)) \in Nat
    BY <1>1, FS_Subset, FS_CardinalityType
<1>3. Youngest(k + 1, S \cup {m}) = Youngest(k, S) \cup {m}
    BY YoungestGrows
<1>4. m \notin Youngest(k, S)
    BY <1>1
<1>5. Cardinality(Youngest(k, S) \cup {m}) = Cardinality(Youngest(k, S)) + 1
    BY <1>2, <1>4, FS_AddElement
<1> QED
    BY <1>1, <1>2, <1>3, <1>5

\* The youngest of all is the new number.
LEMMA YoungestIsLargest ==
    ASSUME NEW S \in SUBSET Nat, IsFiniteSet(S), NEW m \in Nat, \A n \in S : n < m
    PROVE  Youngest(1, S \cup {m}) = {m}
<1>1. Youngest(0 + 1, S \cup {m}) = Youngest(0, S) \cup {m}
    BY YoungestGrows
<1>2. Youngest(0, S) = {}
    BY NoneYoungest
<1> QED
    BY <1>1, <1>2

\* Without the new number the k + 1 youngest are the k youngest of the others.
LEMMA YoungestWithout ==
    ASSUME NEW S \in SUBSET Nat, IsFiniteSet(S), NEW m \in Nat, \A n \in S : n < m,
           NEW k \in Nat
    PROVE  Youngest(k + 1, S \cup {m}) \ Youngest(1, Youngest(k + 1, S \cup {m}))
             = Youngest(k, S)
<1>1. Youngest(k, S) \subseteq S
    BY DEF Youngest
<1>2. IsFiniteSet(Youngest(k, S)) /\ Youngest(k, S) \in SUBSET Nat
    BY <1>1, FS_Subset
<1>3. \A n \in Youngest(k, S) : n < m
    BY <1>1
<1>4. Youngest(k + 1, S \cup {m}) = Youngest(k, S) \cup {m}
    BY YoungestGrows
<1>5. Youngest(1, Youngest(k, S) \cup {m}) = {m}
    BY <1>2, <1>3, YoungestIsLargest
<1>6. m \notin Youngest(k, S)
    BY <1>1
<1>7. (Youngest(k, S) \cup {m}) \ {m} = Youngest(k, S)
    BY <1>6
<1> QED
    BY <1>4, <1>5, <1>7

-----------------------------------------------------------------------------
(* What an entry knows of the outcomes that trained it                       *)

AllWere(run, S, taken) == \A n \in S : run[n].taken = taken

\* A counter that met a streak of k has gone k steps that way, as far as it goes,
\* and after a streak of three it takes two exceptions to change its mind.
CounterFollows(run, S, counter) ==
    /\ counter \in Counters
    /\ \A k \in 1 .. 3 : Youngest(k, S) = {} => counter = 1
    /\ \A k \in 1 .. 3, taken \in BOOLEAN :
         Cardinality(Youngest(k, S)) = k /\ AllWere(run, Youngest(k, S), taken)
         => IF taken THEN counter >= k ELSE counter <= 3 - k
    /\ LET recent == Youngest(4, S)
           habit == recent \ Youngest(1, recent)
       IN  \A taken \in BOOLEAN :
             Cardinality(habit) = 3 /\ AllWere(run, habit, taken)
             => (predictsTaken(counter) <=> taken)

LEMMA CounterTrained ==
    ASSUME NEW S \in SUBSET Nat, IsFiniteSet(S), NEW m \in Nat, \A n \in S : n < m,
           NEW before, NEW after, \A n \in S : after[n].taken = before[n].taken,
           NEW taken \in BOOLEAN, after[m].taken = taken,
           NEW counter, CounterFollows(before, S, counter)
    PROVE  CounterFollows(after, S \cup {m}, trained(counter, taken))
<1> DEFINE next == trained(counter, taken)
<1>1. counter \in 0 .. 3 /\ next \in 0 .. 3
      /\ (taken => next >= 1 /\ (counter >= 2 => next = 3) /\ (counter >= 1 => next >= 2))
      /\ (~taken => next <= 2 /\ (counter <= 1 => next = 0) /\ (counter <= 2 => next <= 1))
      /\ (counter = 3 => next >= 2) /\ (counter = 0 => next <= 1)
    BY DEF CounterFollows, Counters, trained
<1> HIDE DEF next
<1>2. ASSUME NEW k \in Nat
      PROVE  /\ Youngest(k + 1, S \cup {m}) = Youngest(k, S) \cup {m}
             /\ Youngest(k, S) \subseteq S
             /\ Cardinality(Youngest(k, S)) \in Nat
             /\ Cardinality(Youngest(k + 1, S \cup {m})) = Cardinality(Youngest(k, S)) + 1
  <2>1. Youngest(k + 1, S \cup {m}) = Youngest(k, S) \cup {m}
      BY YoungestGrows
  <2>2. /\ Youngest(k, S) \subseteq S
        /\ Cardinality(Youngest(k, S)) \in Nat
        /\ Cardinality(Youngest(k + 1, S \cup {m})) = Cardinality(Youngest(k, S)) + 1
      BY YoungestCount
  <2> QED
      BY <2>1, <2>2
<1>3. ASSUME NEW k \in 0 .. 2, NEW way \in BOOLEAN,
             Cardinality(Youngest(k + 1, S \cup {m})) = k + 1,
             AllWere(after, Youngest(k + 1, S \cup {m}), way)
      PROVE  IF way THEN next >= k + 1 ELSE next <= 3 - (k + 1)
  <2>0. /\ Youngest(k + 1, S \cup {m}) = Youngest(k, S) \cup {m}
        /\ Youngest(k, S) \subseteq S
        /\ Cardinality(Youngest(k, S)) \in Nat
        /\ Cardinality(Youngest(k + 1, S \cup {m})) = Cardinality(Youngest(k, S)) + 1
    <3>1. k \in Nat
        OBVIOUS
    <3> QED
        BY <1>2, <3>1
  <2>a. Cardinality(Youngest(k, S)) = k
      BY <1>3, <2>0
  <2>b. way = taken
      BY <1>3, <2>0 DEF AllWere
  <2>c. AllWere(before, Youngest(k, S), way)
      BY <1>3, <2>0 DEF AllWere
  <2>1. way = taken /\ Cardinality(Youngest(k, S)) = k /\ AllWere(before, Youngest(k, S), way)
      BY <2>a, <2>b, <2>c
  <2>2. CASE k = 0
      BY <1>1, <2>1, <2>2
  <2>3. CASE k \in 1 .. 2
    <3>1. IF way THEN counter >= k ELSE counter <= 3 - k
        BY <2>1, <2>3 DEF CounterFollows
    <3> QED
        BY <1>1, <2>1, <2>3, <3>1
  <2> QED
      BY <2>2, <2>3
<1>4. ASSUME NEW k \in 1 .. 3, NEW way \in BOOLEAN,
             Cardinality(Youngest(k, S \cup {m})) = k, AllWere(after, Youngest(k, S \cup {m}), way)
      PROVE  IF way THEN next >= k ELSE next <= 3 - k
  <2>1. k - 1 \in 0 .. 2 /\ (k - 1) + 1 = k
      OBVIOUS
  <2> QED
      BY <1>3, <1>4, <2>1
<1>5. ASSUME NEW k \in 1 .. 3 PROVE Youngest(k, S \cup {m}) # {}
  <2>1. k - 1 \in Nat /\ (k - 1) + 1 = k
      OBVIOUS
  <2>2. m \in Youngest((k - 1) + 1, S \cup {m})
      BY <1>2, <2>1
  <2> QED
      BY <2>1, <2>2
<1>6. ASSUME NEW habit, habit = Youngest(4, S \cup {m}) \ Youngest(1, Youngest(4, S \cup {m})),
             NEW way \in BOOLEAN, Cardinality(habit) = 3, AllWere(after, habit, way)
      PROVE  predictsTaken(next) <=> way
  <2>1. Youngest(3 + 1, S \cup {m}) \ Youngest(1, Youngest(3 + 1, S \cup {m})) = Youngest(3, S)
      BY YoungestWithout
  <2>2. habit = Youngest(3, S)
      BY <1>6, <2>1
  <2>3. AllWere(before, Youngest(3, S), way) /\ Cardinality(Youngest(3, S)) = 3
      BY <1>2, <1>6, <2>2 DEF AllWere
  <2>4. IF way THEN counter >= 3 ELSE counter <= 0
      BY <2>3 DEF CounterFollows
  <2> QED
      BY <1>1, <2>4 DEF predictsTaken
<1> QED
    BY <1>1, <1>4, <1>5, <1>6 DEF CounterFollows, Counters, next

\* A bit is the youngest outcome.
BitFollows(run, S, known, bit) ==
    /\ Youngest(1, S) = {} => ~known
    /\ \A taken \in BOOLEAN :
         Cardinality(Youngest(1, S)) = 1 /\ AllWere(run, Youngest(1, S), taken)
         => known /\ bit = taken

LEMMA BitTrained ==
    ASSUME NEW S \in SUBSET Nat, IsFiniteSet(S), NEW m \in Nat, \A n \in S : n < m,
           NEW after, NEW taken \in BOOLEAN, after[m].taken = taken
    PROVE  BitFollows(after, S \cup {m}, TRUE, taken)
<1>1. Youngest(1, S \cup {m}) = {m}
    BY YoungestIsLargest
<1> QED
    BY <1>1 DEF BitFollows, AllWere

\* Before any outcome.
LEMMA Untrained ==
    ASSUME NEW run
    PROVE  CounterFollows(run, {}, 1) /\ \A bit : BitFollows(run, {}, FALSE, bit)
<1>1. \A k : Youngest(k, {}) = {}
    BY DEF Youngest
<1>2. Cardinality({}) = 0
    BY FS_EmptySet
<1>3. \A bit : BitFollows(run, {}, FALSE, bit)
  <2>1. Youngest(1, {}) = {} /\ Cardinality(Youngest(1, {})) # 1
      BY <1>1, <1>2
  <2> QED
      BY <2>1 DEF BitFollows
<1>4. \A k \in 1 .. 3 : Cardinality(Youngest(k, {})) # k
  <2>1. \A k \in 1 .. 3 : k # 0
      OBVIOUS
  <2> QED
      BY <1>1, <1>2, <2>1
<1>5. Cardinality(Youngest(4, {}) \ Youngest(1, Youngest(4, {}))) # 3
  <2>1. Youngest(4, {}) \ Youngest(1, Youngest(4, {})) = {} /\ 0 # 3
      BY <1>1
  <2> QED
      BY <1>2, <2>1
<1>6. CounterFollows(run, {}, 1)
    BY <1>4, <1>5 DEF CounterFollows, Counters
<1> QED
    BY <1>3, <1>6

\* Later outcomes that train other entries leave an entry's knowledge alone.
LEMMA CounterKept ==
    ASSUME NEW S, NEW before, NEW after, \A n \in S : after[n].taken = before[n].taken,
           NEW counter, CounterFollows(before, S, counter)
    PROVE  CounterFollows(after, S, counter)
<1>1. \A k : Youngest(k, S) \subseteq S
    BY DEF Youngest
<1>2. ASSUME NEW T \in SUBSET S, NEW taken, AllWere(after, T, taken)
      PROVE  AllWere(before, T, taken)
    BY <1>2 DEF AllWere
<1>3. \A k, taken : AllWere(after, Youngest(k, S), taken) => AllWere(before, Youngest(k, S), taken)
    BY <1>1, <1>2
<1>4. \A T, taken : AllWere(after, Youngest(4, S) \ T, taken)
                     => AllWere(before, Youngest(4, S) \ T, taken)
    BY <1>1, <1>2
<1>5. counter \in Counters /\ \A k \in 1 .. 3 : Youngest(k, S) = {} => counter = 1
    BY DEF CounterFollows
<1>6. ASSUME NEW k \in 1 .. 3, NEW taken \in BOOLEAN,
             Cardinality(Youngest(k, S)) = k, AllWere(after, Youngest(k, S), taken)
      PROVE  IF taken THEN counter >= k ELSE counter <= 3 - k
    BY <1>3, <1>6 DEF CounterFollows
<1>7. ASSUME NEW taken \in BOOLEAN,
             Cardinality(Youngest(4, S) \ Youngest(1, Youngest(4, S))) = 3,
             AllWere(after, Youngest(4, S) \ Youngest(1, Youngest(4, S)), taken)
      PROVE  predictsTaken(counter) <=> taken
    BY <1>4, <1>7 DEF CounterFollows
<1> QED
    BY <1>5, <1>6, <1>7 DEF CounterFollows

LEMMA BitKept ==
    ASSUME NEW S, NEW before, NEW after, \A n \in S : after[n].taken = before[n].taken,
           NEW known, NEW bit, BitFollows(before, S, known, bit)
    PROVE  BitFollows(after, S, known, bit)
<1>1. Youngest(1, S) \subseteq S
    BY DEF Youngest
<1>2. ASSUME NEW taken, AllWere(after, Youngest(1, S), taken)
      PROVE  AllWere(before, Youngest(1, S), taken)
    BY <1>1, <1>2 DEF AllWere
<1> QED
    BY <1>2 DEF BitFollows

-----------------------------------------------------------------------------
(* The entry an outcome trained, by the definition of the predictor          *)

HistoryIn(run, n) == [b \in Bits |-> n - b >= 1 /\ run[n - b].taken]
IndexIn(run, n, branch) == [b \in Bits |-> BitOf(branch, b) # HistoryIn(run, n)[b]]
KeyIn(type, run, n) ==
    IF type = "GShare" THEN IndexIn(run, n - 1, run[n].pc) ELSE run[n].pc
TrainedIn(type, run, e) == {n \in DOMAIN run : KeyIn(type, run, n) = e}

Outcome == [pc : Nat, taken : BOOLEAN]

LEMMA AppendFacts ==
    ASSUME NEW run \in Seq(Outcome), NEW outcome \in Outcome
    PROVE  /\ Append(run, outcome) \in Seq(Outcome)
           /\ Len(run) \in Nat /\ Len(Append(run, outcome)) = Len(run) + 1
           /\ DOMAIN run = 1 .. Len(run)
           /\ DOMAIN Append(run, outcome) = 1 .. Len(run) + 1
           /\ \A n \in 1 .. Len(run) : Append(run, outcome)[n] = run[n]
           /\ Append(run, outcome)[Len(run) + 1] = outcome
OBVIOUS

\* The history before an outcome does not depend on it or on later ones.
LEMMA HistoryKept ==
    ASSUME NEW run \in Seq(Outcome), NEW outcome \in Outcome, NEW n \in Nat, n <= Len(run)
    PROVE  HistoryIn(Append(run, outcome), n) = HistoryIn(run, n)
<1>1. ASSUME NEW b \in Bits
      PROVE  (n - b >= 1 /\ Append(run, outcome)[n - b].taken) = (n - b >= 1 /\ run[n - b].taken)
  <2>1. b \in Nat
      BY HistoryBitsAssumption DEF Bits
  <2>2. CASE n - b >= 1
    <3>1. n - b \in 1 .. Len(run)
        BY <2>1, <2>2, AppendFacts
    <3>2. Append(run, outcome)[n - b] = run[n - b]
        BY <3>1, AppendFacts
    <3> QED
        BY <3>2
  <2>3. CASE ~(n - b >= 1)
      BY <2>3
  <2> QED
      BY <2>2, <2>3
<1> QED
    BY <1>1 DEF HistoryIn

\* An outcome joins those that trained its entry, and is later than all of them.
Joins(type, run, after, e, key, taken) ==
    LET S == TrainedIn(type, run, e)
        m == Len(run) + 1
    IN  /\ S \in SUBSET Nat /\ IsFiniteSet(S) /\ m \in Nat /\ \A n \in S : n < m
        /\ \A n \in S : after[n].taken = run[n].taken
        /\ after[m].taken = taken
        /\ key = e => TrainedIn(type, after, e) = S \cup {m}
        /\ key # e => TrainedIn(type, after, e) = S

\* The entry trained by an old outcome is what it was; the new one trains one more.
LEMMA TrainedGrows ==
    ASSUME NEW type, NEW run \in Seq(Outcome), NEW outcome \in Outcome, NEW e,
           NEW after, after = Append(run, outcome)
    PROVE  Joins(type, run, after, e, KeyIn(type, after, Len(run) + 1), outcome.taken)
<1> DEFINE m == Len(run) + 1
           key == KeyIn(type, after, m)
<1>1. /\ Len(run) \in Nat /\ m \in Nat /\ DOMAIN run = 1 .. Len(run)
      /\ DOMAIN after = 1 .. m
      /\ \A n \in 1 .. Len(run) : after[n] = run[n]
      /\ after[m] = outcome
    BY AppendFacts
<1>2. TrainedIn(type, run, e) \subseteq 1 .. Len(run)
    BY <1>1 DEF TrainedIn
<1>3. IsFiniteSet(TrainedIn(type, run, e))
  <2>1. 1 \in Int /\ Len(run) \in Int
      BY <1>1
  <2>2. IsFiniteSet(1 .. Len(run))
      BY <2>1, FS_Interval
  <2> QED
      BY <1>2, <2>2, FS_Subset
<1>4. ASSUME NEW n \in 1 .. Len(run) PROVE KeyIn(type, after, n) = KeyIn(type, run, n)
  <2>1. n - 1 \in Nat /\ n - 1 <= Len(run) /\ after[n].pc = run[n].pc
      BY <1>1
  <2>2. HistoryIn(after, n - 1) = HistoryIn(run, n - 1)
      BY <2>1, HistoryKept
  <2> QED
      BY <2>1, <2>2 DEF KeyIn, IndexIn
<1>5. 1 .. m = 1 .. Len(run) \cup {m} /\ m \notin 1 .. Len(run)
    BY <1>1
<1>6. TrainedIn(type, after, e)
        = TrainedIn(type, run, e) \cup {n \in {m} : KeyIn(type, after, n) = e}
    BY <1>1, <1>4, <1>5 DEF TrainedIn
<1>7. \A n \in TrainedIn(type, run, e) : n \in Nat /\ n < m
    BY <1>1, <1>2
<1>8. \A n \in TrainedIn(type, run, e) : after[n].taken = run[n].taken
    BY <1>1, <1>2
<1> QED
    BY <1>1, <1>3, <1>6, <1>7, <1>8 DEF Joins

\* Reading a table after an entry was written.
LEMMA CounterPut ==
    ASSUME NEW table, NEW k, NEW v, NEW e
    PROVE  counterAt(Put(table, k, v), e) = IF e = k THEN v ELSE counterAt(table, e)
BY DEF counterAt, Put

-----------------------------------------------------------------------------
(* The inductive invariant: the history is the latest outcomes, and each     *)
(* entry is what the outcomes that trained it make it.                       *)

CountersLearnt(type, run, E, table) ==
    \A e \in E : CounterFollows(run, TrainedIn(type, run, e), counterAt(table, e))
BitsLearnt(type, run, E, table) ==
    \A e \in E : BitFollows(run, TrainedIn(type, run, e), e \in DOMAIN table, table[e])

PredictorInv ==
    /\ PredictorTypeOK
    /\ outcomes \in Seq(Outcome) /\ Len(outcomes) <= MaxOutcomes
    /\ predictorType = "GShare" => globalHistory = HistoryIn(outcomes, Len(outcomes))
    /\ predictorType = "OneBit" =>
         BitsLearnt(predictorType, outcomes, BranchPcs, oneBitTable)
    /\ predictorType = "TwoBit" =>
         CountersLearnt(predictorType, outcomes, BranchPcs, twoBitTable)
    /\ predictorType = "GShare" =>
         CountersLearnt(predictorType, outcomes, Indices, gshareTable)

LEMMA InitPredictorInv == PredictorInit => PredictorInv
<1> SUFFICES ASSUME PredictorInit PROVE PredictorInv
    OBVIOUS
<1> USE DEF PredictorInit, NoEntries
<1>1. outcomes \in Seq(Outcome) /\ Len(outcomes) = 0 /\ DOMAIN outcomes = {} /\ Len(outcomes) <= MaxOutcomes
    BY MaxOutcomesAssumption
<1>2. PredictorTypeOK
    BY <1>1 DEF PredictorTypeOK, Indices
<1>3. globalHistory = HistoryIn(outcomes, Len(outcomes))
  <2>1. ASSUME NEW b \in Bits PROVE ~(0 - b >= 1)
      BY HistoryBitsAssumption DEF Bits
  <2> QED
      BY <1>1, <2>1 DEF HistoryIn
<1>4. \A e : TrainedIn(predictorType, outcomes, e) = {}
    BY <1>1 DEF TrainedIn
<1>5. \A e : counterAt(twoBitTable, e) = 1 /\ counterAt(gshareTable, e) = 1
    BY DEF counterAt
<1>6. \A e : CounterFollows(outcomes, TrainedIn(predictorType, outcomes, e), 1)
    BY <1>4, Untrained
<1>7. \A e : BitFollows(outcomes, TrainedIn(predictorType, outcomes, e),
                        e \in DOMAIN oneBitTable, oneBitTable[e])
  <2>1. \A e : (e \in DOMAIN oneBitTable) = FALSE
      OBVIOUS
  <2> QED
      BY <1>4, <2>1, Untrained
<1> QED
    BY <1>1, <1>2, <1>3, <1>5, <1>6, <1>7 DEF PredictorInv, CountersLearnt, BitsLearnt

Entries(table, T) == table \in [DOMAIN table -> T]

LEMMA EntriesPut ==
    ASSUME NEW table, NEW T, Entries(table, T), NEW k, NEW v \in T
    PROVE  Entries(Put(table, k, v), T)
BY DEF Put, Entries

\* What a step leaves true of the types.
LEMMA UpdateTypes ==
    ASSUME PredictorTypeOK, outcomes \in Seq(Outcome), NEW branch \in BranchPcs,
           NEW taken \in BOOLEAN, update(branch, taken)
    PROVE  PredictorTypeOK'
<1>1. /\ predictorType \in PredictorTypes /\ predictorType' = predictorType
      /\ Entries(oneBitTable, BOOLEAN) /\ Entries(twoBitTable, Counters)
      /\ Entries(gshareTable, Counters) /\ DOMAIN gshareTable \subseteq Indices
      /\ globalHistory \in Indices
    BY DEF PredictorTypeOK, update, Entries
<1>2. branch \in Nat /\ [pc |-> branch, taken |-> taken] \in Outcome
    BY BranchPcsAssumption DEF Outcome
<1>3. outcomes' = Append(outcomes, [pc |-> branch, taken |-> taken])
    BY DEF update
<1>4. \A n \in DOMAIN outcomes' : outcomes'[n] \in [pc : Nat, taken : BOOLEAN]
  <2>1. outcomes' \in Seq(Outcome)
      BY <1>2, <1>3, AppendFacts
  <2>2. \A n \in DOMAIN outcomes' : outcomes'[n] \in Outcome
      BY <2>1
  <2> QED
      BY <2>2 DEF Outcome
<1>5. \A c \in Counters : trained(c, taken) \in Counters
    BY DEF trained, Counters
<1>6. \A table, k : Entries(table, Counters) => counterAt(table, k) \in Counters
    BY DEF counterAt, Counters, Entries
<1>8. getGShareIndex(branch) \in Indices
    BY DEF getGShareIndex, Indices
<1>9. ShiftedIn(taken) \in Indices
  <2>1. ASSUME NEW b \in Bits, b # 0 PROVE globalHistory[b - 1] \in BOOLEAN
    <3>1. b - 1 \in Bits
        BY <2>1, HistoryBitsAssumption DEF Bits
    <3> QED
        BY <1>1, <3>1 DEF Indices
  <2> QED
      BY <2>1 DEF ShiftedIn, Indices
<1>10. Entries(oneBitTable', BOOLEAN)
  <2>1. oneBitTable' = oneBitTable \/ oneBitTable' = Put(oneBitTable, branch, taken)
      BY DEF update
  <2>2. Entries(Put(oneBitTable, branch, taken), BOOLEAN)
      BY <1>1, EntriesPut
  <2>3. Entries(oneBitTable, BOOLEAN)
      BY <1>1
  <2> QED
      BY <2>1, <2>2, <2>3
<1>11. Entries(twoBitTable', Counters)
  <2>1. \/ twoBitTable' = twoBitTable
        \/ twoBitTable' = Put(twoBitTable, branch, trained(counterAt(twoBitTable, branch), taken))
      BY DEF update
  <2>2. trained(counterAt(twoBitTable, branch), taken) \in Counters
      BY <1>1, <1>5, <1>6
  <2> DEFINE counter == trained(counterAt(twoBitTable, branch), taken)
  <2>3. counter \in Counters
      BY <2>2
  <2> HIDE DEF counter
  <2>4. Entries(Put(twoBitTable, branch, counter), Counters)
      BY <1>1, <2>3, EntriesPut
  <2>5. Entries(twoBitTable, Counters)
      BY <1>1
  <2> QED
      BY <2>1, <2>4, <2>5 DEF counter
<1>12. /\ DOMAIN gshareTable' \subseteq Indices
       /\ Entries(gshareTable', Counters)
       /\ globalHistory' \in Indices
  <2> DEFINE index == getGShareIndex(branch)
  <2>1. \/ gshareTable' = gshareTable
        \/ gshareTable' = Put(gshareTable, index, trained(counterAt(gshareTable, index), taken))
      BY DEF update, TrainedIndex
  <2>2. trained(counterAt(gshareTable, index), taken) \in Counters
      BY <1>1, <1>5, <1>6
  <2>3. globalHistory' = globalHistory \/ globalHistory' = ShiftedIn(taken)
      BY DEF update
  <2>4. index \in Indices
      BY <1>8
  <2> HIDE DEF index
  <2> DEFINE counter == trained(counterAt(gshareTable, index), taken)
  <2>5. counter \in Counters
      BY <2>2
  <2> HIDE DEF counter
  <2>6. /\ Entries(Put(gshareTable, index, counter), Counters)
        /\ DOMAIN Put(gshareTable, index, counter) = DOMAIN gshareTable \cup {index}
    <3>1. Entries(Put(gshareTable, index, counter), Counters)
        BY <1>1, <2>5, EntriesPut
    <3>2. DOMAIN Put(gshareTable, index, counter) = DOMAIN gshareTable \cup {index}
        BY DEF Put
    <3> QED
        BY <3>1, <3>2
  <2>7. DOMAIN Put(gshareTable, index, counter) \subseteq Indices
      BY <1>1, <2>4, <2>6
  <2>8. gshareTable' = gshareTable \/ gshareTable' = Put(gshareTable, index, counter)
      BY <2>1 DEF counter
  <2>9. Entries(gshareTable, Counters) /\ DOMAIN gshareTable \subseteq Indices
      BY <1>1
  <2>10. DOMAIN gshareTable' \subseteq Indices /\ Entries(gshareTable', Counters)
      BY <2>6, <2>7, <2>8, <2>9
  <2> QED
      BY <1>1, <1>9, <2>3, <2>10
<1> QED
    BY <1>1, <1>4, <1>10, <1>11, <1>12 DEF PredictorTypeOK, Entries

\* A table before and after an outcome of the entry `key': `value' is written there.
Writes(type, run, outcome, after, key, table, value, table2) ==
    /\ run \in Seq(Outcome) /\ outcome \in Outcome
    /\ after = Append(run, outcome)
    /\ key = KeyIn(type, after, Len(run) + 1)
    /\ table2 = Put(table, key, value)

\* An outcome of one entry: its counter learns it, the others are left alone.
LEMMA CountersStep ==
    ASSUME NEW type, NEW run, NEW outcome, NEW after, NEW key,
           NEW E, NEW table,
           CountersLearnt(type, run, E, table),
           NEW table2,
           Writes(type, run, outcome, after, key, table,
                  trained(counterAt(table, key), outcome.taken), table2)
    PROVE  CountersLearnt(type, after, E, table2)
<1> SUFFICES ASSUME NEW e \in E
             PROVE  CounterFollows(after, TrainedIn(type, after, e), counterAt(table2, e))
    BY DEF CountersLearnt
<1> DEFINE m == Len(run) + 1
           S == TrainedIn(type, run, e)
           taken == outcome.taken
<1>0. /\ run \in Seq(Outcome) /\ outcome \in Outcome /\ after = Append(run, outcome)
      /\ key = KeyIn(type, after, Len(run) + 1)
    BY DEF Writes
<1>1. taken \in BOOLEAN
    BY <1>0 DEF Outcome
<1>2. CounterFollows(run, S, counterAt(table, e))
    BY DEF CountersLearnt
<1>3. /\ S \in SUBSET Nat /\ IsFiniteSet(S) /\ m \in Nat /\ \A n \in S : n < m
      /\ \A n \in S : after[n].taken = run[n].taken
      /\ after[m].taken = taken
      /\ key = e => TrainedIn(type, after, e) = S \cup {m}
      /\ key # e => TrainedIn(type, after, e) = S
  <2>1. Joins(type, run, after, e, key, taken)
      BY <1>0, TrainedGrows
  <2> QED
      BY <2>1 DEF Joins
<1>5. counterAt(table2, e)
        = IF e = key THEN trained(counterAt(table, e), taken) ELSE counterAt(table, e)
    BY CounterPut DEF Writes
<1> HIDE DEF S, m, taken
<1>6. CASE key = e
  <2>1. CounterFollows(after, S \cup {m}, trained(counterAt(table, e), taken))
      BY <1>1, <1>2, <1>3, CounterTrained
  <2> QED
      BY <1>3, <1>5, <1>6, <2>1
<1>7. CASE key # e
  <2>1. CounterFollows(after, S, counterAt(table, e))
      BY <1>2, <1>3, CounterKept
  <2> QED
      BY <1>3, <1>5, <1>7, <2>1
<1> QED
    BY <1>6, <1>7

\* The same for the bits.
LEMMA BitsStep ==
    ASSUME NEW type, NEW run, NEW outcome, NEW after, NEW key,
           NEW E, NEW table,
           BitsLearnt(type, run, E, table),
           NEW table2,
           Writes(type, run, outcome, after, key, table, outcome.taken, table2)
    PROVE  BitsLearnt(type, after, E, table2)
<1> SUFFICES ASSUME NEW e \in E
             PROVE  BitFollows(after, TrainedIn(type, after, e), e \in DOMAIN table2, table2[e])
    BY DEF BitsLearnt
<1> DEFINE m == Len(run) + 1
           S == TrainedIn(type, run, e)
           taken == outcome.taken
<1>0. /\ run \in Seq(Outcome) /\ outcome \in Outcome /\ after = Append(run, outcome)
      /\ key = KeyIn(type, after, Len(run) + 1)
    BY DEF Writes
<1>1. taken \in BOOLEAN
    BY <1>0 DEF Outcome
<1>2. BitFollows(run, S, e \in DOMAIN table, table[e])
    BY DEF BitsLearnt
<1>3. /\ S \in SUBSET Nat /\ IsFiniteSet(S) /\ m \in Nat /\ \A n \in S : n < m
      /\ \A n \in S : after[n].taken = run[n].taken
      /\ after[m].taken = taken
      /\ key = e => TrainedIn(type, after, e) = S \cup {m}
      /\ key # e => TrainedIn(type, after, e) = S
  <2>1. Joins(type, run, after, e, key, taken)
      BY <1>0, TrainedGrows
  <2> QED
      BY <2>1 DEF Joins
<1> HIDE DEF S, m
<1>6. CASE key = e
  <2>1. BitFollows(after, S \cup {m}, TRUE, taken)
      BY <1>1, <1>3, BitTrained
  <2>2. (e \in DOMAIN table2) = TRUE /\ table2[e] = taken
      BY <1>6 DEF Put, Writes
  <2> QED
      BY <1>3, <1>6, <2>1, <2>2
<1>7. CASE key # e
  <2>1. BitFollows(after, S, e \in DOMAIN table, table[e])
      BY <1>2, <1>3, BitKept
  <2>2. (e \in DOMAIN table2) = (e \in DOMAIN table)
      BY <1>7 DEF Put, Writes
  <2>3. CASE e \in DOMAIN table
    <3>1. table2[e] = table[e]
        BY <1>7, <2>3 DEF Put, Writes
    <3> QED
        BY <1>3, <1>7, <2>1, <2>2, <3>1
  <2>4. CASE e \notin DOMAIN table
      BY <1>3, <1>7, <2>1, <2>2, <2>4 DEF BitFollows
  <2> QED
      BY <2>3, <2>4
<1> QED
    BY <1>6, <1>7

\* gshare's history takes the outcome in.
LEMMA HistoryShifted ==
    ASSUME NEW run \in Seq(Outcome), NEW outcome \in Outcome,
           globalHistory = HistoryIn(run, Len(run)),
           NEW after, after = Append(run, outcome), NEW m, m = Len(run) + 1
    PROVE  ShiftedIn(outcome.taken) = HistoryIn(after, m)
<1>1. ASSUME NEW b \in Bits
      PROVE  (IF b = 0 THEN outcome.taken ELSE globalHistory[b - 1])
               = (m - b >= 1 /\ after[m - b].taken)
  <2>1. b \in Nat /\ Len(run) \in Nat
      BY HistoryBitsAssumption, AppendFacts DEF Bits
  <2>2. CASE b = 0
    <3>1. m - b = m /\ m >= 1
        BY <2>1, <2>2
    <3>2. after[m] = outcome /\ outcome.taken \in BOOLEAN
        BY AppendFacts DEF Outcome
    <3> QED
        BY <2>2, <3>1, <3>2
  <2>3. CASE b # 0
    <3>1. b - 1 \in Bits /\ Len(run) - (b - 1) = m - b
        BY <2>1, <2>3, HistoryBitsAssumption DEF Bits
    <3>2. globalHistory[b - 1] = (Len(run) - (b - 1) >= 1 /\ run[Len(run) - (b - 1)].taken)
        BY <3>1 DEF HistoryIn
    <3>3. globalHistory[b - 1] = (m - b >= 1 /\ run[m - b].taken)
        BY <3>1, <3>2
    <3>4. CASE m - b >= 1
      <4>1. m - b \in 1 .. Len(run)
          BY <2>1, <2>3, <3>4
      <4>2. after[m - b] = run[m - b]
          BY <4>1, AppendFacts
      <4> QED
          BY <2>3, <3>3, <4>2
    <3>5. CASE ~(m - b >= 1)
        BY <2>3, <3>3, <3>5
    <3> QED
        BY <3>4, <3>5
  <2> QED
      BY <2>2, <2>3
<1>2. ShiftedIn(outcome.taken)
        = [b \in Bits |-> IF b = 0 THEN outcome.taken ELSE globalHistory[b - 1]]
    BY DEF ShiftedIn
<1>3. HistoryIn(after, m)
        = [b \in Bits |-> m - b >= 1 /\ after[m - b].taken]
    BY DEF HistoryIn
<1> QED
    BY <1>1, <1>2, <1>3, Zenon

\* One outcome.
LEMMA UpdateKeepsInv ==
    ASSUME PredictorInv, NEW branch \in BranchPcs, NEW taken \in BOOLEAN,
           Len(outcomes) < MaxOutcomes, update(branch, taken)
    PROVE  PredictorInv'
<1>1. PICK type, run, before, outcome, after, m :
        /\ type = predictorType /\ run = outcomes /\ before = globalHistory
        /\ outcome = [pc |-> branch, taken |-> taken]
        /\ after = Append(run, outcome) /\ m = Len(run) + 1
    OBVIOUS
<1>2. outcomes' = after /\ predictorType' = type
    BY <1>1 DEF update
<1>3. run \in Seq(Outcome) /\ outcome \in Outcome /\ outcome.taken = taken /\ outcome.pc = branch
    BY <1>1, BranchPcsAssumption DEF PredictorInv, Outcome
<1>4. after \in Seq(Outcome) /\ Len(after) = m /\ m \in Nat /\ after[m] = outcome
    BY <1>1, <1>3, AppendFacts
<1>5. outcomes' \in Seq(Outcome) /\ Len(outcomes') <= MaxOutcomes
    BY <1>1, <1>2, <1>4, MaxOutcomesAssumption
<1>6. PredictorTypeOK'
    BY UpdateTypes DEF PredictorInv
<1>7. CASE type = "OneBit"
  <2>1. KeyIn(type, after, m) = branch
      BY <1>3, <1>4, <1>7 DEF KeyIn
  <2>2. PICK table, table2 : table = oneBitTable /\ table2 = oneBitTable'
      OBVIOUS
  <2>3. BitsLearnt(type, run, BranchPcs, table)
      BY <1>1, <1>7, <2>2 DEF PredictorInv
  <2>4. table2 = Put(table, branch, outcome.taken)
      BY <1>1, <1>3, <1>7, <2>2 DEF update
  <2>5. BitsLearnt(type, after, BranchPcs, table2)
    <3>1. Writes(type, run, outcome, after, branch, table, outcome.taken, table2)
        BY <1>1, <1>3, <2>1, <2>4 DEF Writes
    <3> QED
        BY <2>3, <3>1, BitsStep
  <2> QED
      BY <1>2, <1>5, <1>6, <1>7, <2>2, <2>5 DEF PredictorInv
<1>8. CASE type = "TwoBit"
  <2>1. KeyIn(type, after, m) = branch
      BY <1>3, <1>4, <1>8 DEF KeyIn
  <2>2. PICK table, table2 : table = twoBitTable /\ table2 = twoBitTable'
      OBVIOUS
  <2>3. CountersLearnt(type, run, BranchPcs, table)
      BY <1>1, <1>8, <2>2 DEF PredictorInv
  <2>4. table2 = Put(table, branch, trained(counterAt(table, branch), outcome.taken))
      BY <1>1, <1>3, <1>8, <2>2 DEF update
  <2>5. CountersLearnt(type, after, BranchPcs, table2)
    <3>1. Writes(type, run, outcome, after, branch, table,
                 trained(counterAt(table, branch), outcome.taken), table2)
        BY <1>1, <1>3, <2>1, <2>4 DEF Writes
    <3> QED
        BY <2>3, <3>1, CountersStep
  <2> QED
      BY <1>2, <1>5, <1>6, <1>8, <2>2, <2>5 DEF PredictorInv
<1>9. CASE type = "GShare"
  <2>1. before = HistoryIn(run, Len(run))
      BY <1>1, <1>9 DEF PredictorInv
  <2>2. PICK index : index = getGShareIndex(branch)
      OBVIOUS
  <2>3. KeyIn(type, after, m) = index
    <3>1. m - 1 = Len(run) /\ Len(run) \in Nat
        BY <1>1, <1>3, AppendFacts
    <3>2. HistoryIn(after, m - 1) = before
        BY <1>1, <1>3, <2>1, <3>1, HistoryKept
    <3>3. IndexIn(after, m - 1, branch) = index
        BY <1>1, <2>2, <3>2 DEF IndexIn, getGShareIndex
    <3> QED
        BY <1>3, <1>4, <1>9, <3>3 DEF KeyIn
  <2>4. PICK table, table2 : table = gshareTable /\ table2 = gshareTable'
      OBVIOUS
  <2>5. CountersLearnt(type, run, Indices, table)
      BY <1>1, <1>9, <2>4 DEF PredictorInv
  <2>6. table2 = Put(table, index, trained(counterAt(table, index), outcome.taken))
      BY <1>1, <1>3, <1>9, <2>2, <2>4 DEF update, TrainedIndex
  <2>7. CountersLearnt(type, after, Indices, table2)
    <3>1. Writes(type, run, outcome, after, index, table,
                 trained(counterAt(table, index), outcome.taken), table2)
        BY <1>1, <1>3, <2>3, <2>6 DEF Writes
    <3> QED
        BY <2>5, <3>1, CountersStep
  <2>8. globalHistory' = HistoryIn(after, m)
    <3>1. globalHistory' = ShiftedIn(taken)
        BY <1>1, <1>9 DEF update
    <3>2. globalHistory = HistoryIn(run, Len(run))
        BY <1>1, <2>1
    <3>3. after = Append(run, outcome) /\ m = Len(run) + 1
        BY <1>1
    <3>4. run \in Seq(Outcome) /\ outcome \in Outcome
        BY <1>3
    <3>5. ShiftedIn(outcome.taken) = HistoryIn(after, m)
        BY <3>2, <3>3, <3>4, HistoryShifted
    <3> QED
        BY <1>3, <3>1, <3>5
  <2> QED
      BY <1>2, <1>4, <1>5, <1>6, <1>9, <2>4, <2>7, <2>8 DEF PredictorInv
<1>10. CASE type \notin {"OneBit", "TwoBit", "GShare"}
    BY <1>2, <1>5, <1>6, <1>10 DEF PredictorInv
<1> QED
    BY <1>7, <1>8, <1>9, <1>10

LEMMA NextPredictorInv == PredictorInv /\ [Resolution]_predictorVars => PredictorInv'
<1>1. ASSUME PredictorInv, Resolution PROVE PredictorInv'
  <2>1. PICK branch \in BranchPcs, taken \in BOOLEAN :
            Len(outcomes) < MaxOutcomes /\ update(branch, taken)
      BY <1>1 DEF Resolution
  <2> QED
      BY <1>1, <2>1, UpdateKeepsInv
<1>2. ASSUME PredictorInv, UNCHANGED predictorVars PROVE PredictorInv'
    BY <1>2 DEF PredictorInv, PredictorTypeOK, predictorVars, tableVars, TrainedIn, Indices,
              CountersLearnt, BitsLearnt
<1> QED
    BY <1>1, <1>2

LEMMA PredictorInvariant == PredictorSpec => []PredictorInv
<1> QED
    BY InitPredictorInv, NextPredictorInv, PTL DEF PredictorSpec

-----------------------------------------------------------------------------
(* The properties                                                            *)

\* The entry a prediction of `branch' now reads.
EntryOf(branch) ==
    IF predictorType = "GShare" THEN IndexIn(outcomes, Len(outcomes), branch) ELSE branch

LEMMA TrainedByEntry ==
    ASSUME NEW branch
    PROVE  TrainedBy(branch) = TrainedIn(predictorType, outcomes, EntryOf(branch))
BY DEF TrainedBy, SameEntry, TrainedIn, KeyIn, EntryOf, IndexAfter, HistoryAfter, IndexIn, HistoryIn

\* A counter the branch reads follows the outcomes that trained it.
LEMMA CounterRead ==
    ASSUME PredictorInv, NEW branch \in BranchPcs, predictorType \in {"TwoBit", "GShare"}
    PROVE  \E counter : /\ CounterFollows(outcomes, TrainedBy(branch), counter)
                        /\ predict(branch) = predictsTaken(counter)
<1>1. CASE predictorType = "TwoBit"
  <2>1. EntryOf(branch) = branch /\ predict(branch) = predictsTaken(counterAt(twoBitTable, branch))
      BY <1>1 DEF EntryOf, predict
  <2>2. CounterFollows(outcomes, TrainedBy(branch), counterAt(twoBitTable, branch))
      BY <1>1, <2>1, TrainedByEntry DEF PredictorInv, CountersLearnt
  <2> QED
      BY <2>1, <2>2
<1>2. CASE predictorType = "GShare"
  <2>1. getGShareIndex(branch) \in Indices
      BY DEF getGShareIndex, Indices
  <2>2. EntryOf(branch) = getGShareIndex(branch)
      BY <1>2 DEF EntryOf, getGShareIndex, IndexIn, PredictorInv
  <2>3. predict(branch) = predictsTaken(counterAt(gshareTable, getGShareIndex(branch)))
      BY <1>2 DEF predict
  <2>4. CounterFollows(outcomes, TrainedBy(branch), counterAt(gshareTable, getGShareIndex(branch)))
      BY <1>2, <2>1, <2>2, TrainedByEntry DEF PredictorInv, CountersLearnt
  <2> QED
      BY <2>3, <2>4
<1> QED
    BY <1>1, <1>2

\* A static predictor would need more outcomes than there are.
LEMMA NeverEnough ==
    ASSUME PredictorInv, NEW branch
    PROVE  Cardinality(Youngest(MaxOutcomes + 1, TrainedBy(branch))) # MaxOutcomes + 1
<1> DEFINE recent == Youngest(MaxOutcomes + 1, TrainedBy(branch))
           n == Len(outcomes)
<1>1. outcomes \in Seq(Outcome) /\ n \in Nat /\ n <= MaxOutcomes
    BY DEF PredictorInv
<1>2. recent \subseteq 1 .. n
    BY <1>1 DEF Youngest, TrainedBy
<1> HIDE DEF recent, n
<1>3. IsFiniteSet(1 .. n) /\ Cardinality(1 .. n) = n
  <2>1. 1 \in Int /\ n \in Int /\ ~(1 > n + 1) /\ n - 1 + 1 = n
      BY <1>1
  <2> QED
      BY <2>1, FS_Interval
<1>4. IsFiniteSet(recent) /\ Cardinality(recent) <= Cardinality(1 .. n)
    BY <1>2, <1>3, FS_Subset
<1>5. Cardinality(recent) \in Nat
    BY <1>4, FS_CardinalityType
<1>6. Cardinality(recent) # MaxOutcomes + 1
    BY <1>1, <1>3, <1>4, <1>5, MaxOutcomesAssumption
<1> QED
    BY <1>6 DEF recent

LEMMA RecentDecides == PredictorInv => RecentOutcomesDecide
<1> SUFFICES ASSUME PredictorInv, NEW branch \in BranchPcs,
                    NEW recent, recent = Youngest(Needed, TrainedBy(branch))
             PROVE  /\ predictorType # "AlwaysTaken" /\ recent = {} => ~predict(branch)
                    /\ \A taken \in BOOLEAN :
                         Cardinality(recent) = Needed /\ AllWere(outcomes, recent, taken)
                         => predict(branch) = taken
    BY DEF RecentOutcomesDecide, AllWere
<1>1. CASE predictorType = "OneBit"
  <2>1. /\ Needed = 1 /\ EntryOf(branch) = branch
        /\ predict(branch) = (branch \in DOMAIN oneBitTable /\ oneBitTable[branch])
      BY <1>1 DEF Needed, EntryOf, predict
  <2>2. BitFollows(outcomes, TrainedBy(branch), branch \in DOMAIN oneBitTable, oneBitTable[branch])
      BY <1>1, <2>1, TrainedByEntry DEF PredictorInv, BitsLearnt
  <2> QED
      BY <2>1, <2>2 DEF BitFollows
<1>2. CASE predictorType \in {"TwoBit", "GShare"}
  <2>1. Needed = 2
      BY <1>2 DEF Needed
  <2>2. PICK counter : /\ CounterFollows(outcomes, TrainedBy(branch), counter)
                       /\ predict(branch) = predictsTaken(counter)
      BY <1>2, CounterRead
  <2>3. /\ recent = {} => counter = 1
        /\ \A taken \in BOOLEAN :
             Cardinality(recent) = 2 /\ AllWere(outcomes, recent, taken)
             => IF taken THEN counter >= 2 ELSE counter <= 1
        /\ counter \in 0 .. 3
    <3>1. 2 \in 1 .. 3 /\ 3 - 2 = 1
        OBVIOUS
    <3> QED
        BY <2>1, <2>2, <3>1 DEF CounterFollows, Counters
  <2>4. /\ counter = 1 => ~predictsTaken(counter)
        /\ counter >= 2 => predictsTaken(counter) = TRUE
        /\ counter <= 1 => predictsTaken(counter) = FALSE
      BY <2>3 DEF predictsTaken
  <2> QED
      BY <2>1, <2>2, <2>3, <2>4
<1>3. CASE predictorType \in {"AlwaysNotTaken", "AlwaysTaken"}
  <2>1. Needed = MaxOutcomes + 1 /\ (predictorType # "AlwaysTaken" => ~predict(branch))
      BY <1>3 DEF Needed, predict
  <2> QED
      BY <2>1, NeverEnough
<1>4. predictorType \in AllPredictorTypes
    BY PredictorTypesAssumption DEF PredictorInv, PredictorTypeOK
<1> QED
    BY <1>1, <1>2, <1>3, <1>4 DEF AllPredictorTypes

LEMMA HabitDecides == PredictorInv => HabitSurvivesAnException
<1> SUFFICES ASSUME PredictorInv, predictorType \in {"TwoBit", "GShare"},
                    NEW branch \in BranchPcs, NEW taken \in BOOLEAN,
                    NEW habit, habit = Youngest(4, TrainedBy(branch))
                                         \ Youngest(1, Youngest(4, TrainedBy(branch))),
                    Cardinality(habit) = 3, AllWere(outcomes, habit, taken)
             PROVE  predict(branch) = taken
    BY DEF HabitSurvivesAnException, AllWere
<1>1. PICK counter : /\ CounterFollows(outcomes, TrainedBy(branch), counter)
                     /\ predict(branch) = predictsTaken(counter)
    BY CounterRead
<1>2. predictsTaken(counter) <=> taken
    BY <1>1 DEF CounterFollows
<1>3. predictsTaken(counter) \in BOOLEAN
    BY DEF predictsTaken
<1> QED
    BY <1>1, <1>2, <1>3

\* The tables, the counters and the history have the types of BranchPredictor.h,
\* for every history length and every set of branches.
THEOREM PredictorTypeCorrect == PredictorSpec => []PredictorTypeOK
<1>1. PredictorInv => PredictorTypeOK
    BY DEF PredictorInv
<1> QED
    BY <1>1, PredictorInvariant, PTL

\* One outcome decides what a one-bit entry predicts next, two equal ones what a
\* two-bit or gshare entry does, whatever came before (predict, update).
THEOREM OutcomesDecide == PredictorSpec => []RecentOutcomesDecide
<1> QED
    BY RecentDecides, PredictorInvariant, PTL

\* After three equal outcomes one exception does not change the prediction.
THEOREM HabitSurvives == PredictorSpec => []HabitSurvivesAnException
<1> QED
    BY HabitDecides, PredictorInvariant, PTL
=============================================================================

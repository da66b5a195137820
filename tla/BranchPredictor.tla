---------------------------- MODULE BranchPredictor ----------------------------
(* The branch predictors (BranchPredictor.cpp): two static ones, a bit or a  *)
(* two-bit counter for each branch, and gshare, whose counters are selected   *)
(* by the branch's pc exclusive-or the global history.                        *)
(*                                                                           *)
(* An index of the gshare table is a function from bit positions to BOOLEAN: *)
(* exclusive-or is then inequality, bit by bit, and the mask the domain.      *)
EXTENDS Integers, Sequences, FiniteSets

CONSTANTS
    PredictorTypes,     \* of the five, those a run may choose
    historyBits,        \* 4 in the code
    BranchPcs,          \* static pcs of branches
    MaxOutcomes         \* bound on the branches resolved

AllPredictorTypes ==
    {"AlwaysNotTaken", "AlwaysTaken", "OneBit", "TwoBit", "GShare"}

ASSUME PredictorTypesAssumption == PredictorTypes \subseteq AllPredictorTypes
ASSUME HistoryBitsAssumption == historyBits \in Nat \ {0}
ASSUME BranchPcsAssumption == BranchPcs \subseteq Nat
ASSUME MaxOutcomesAssumption == MaxOutcomes \in Nat

VARIABLES
    predictorType,
    oneBitTable,        \* pc -> last outcome, of branches resolved
    twoBitTable,        \* pc -> counter
    gshareTable,        \* index -> counter
    globalHistory,      \* bit 0 is the latest outcome
    outcomes            \* what update() was called with, so far (not in the code)

tableVars == <<oneBitTable, twoBitTable, gshareTable, globalHistory>>
predictorVars == <<predictorType, tableVars, outcomes>>

Bits == 0 .. historyBits - 1
NoEntries == [k \in {} |-> k]

PredictorInit ==
    /\ predictorType \in PredictorTypes
    /\ oneBitTable = NoEntries /\ twoBitTable = NoEntries /\ gshareTable = NoEntries
    /\ globalHistory = [b \in Bits |-> FALSE]
    /\ outcomes = <<>>

BitOf(n, b) == (n \div 2^b) % 2 = 1
getGShareIndex(branch) == [b \in Bits |-> BitOf(branch, b) # globalHistory[b]]

\* A counter that was never trained is weakly not taken.
counterAt(table, k) == IF k \in DOMAIN table THEN table[k] ELSE 1

predictsTaken(counter) == counter >= 2
\* faults: the counter wraps round; it passes its last value
trainedWrapping(counter, taken) ==
    IF taken THEN (counter + 1) % 4 ELSE IF counter > 0 THEN counter - 1 ELSE counter
trainedPast(counter, taken) ==
    IF taken THEN counter + 1 ELSE IF counter > 0 THEN counter - 1 ELSE counter
trained(counter, taken) ==
    IF taken /\ counter < 3 THEN counter + 1
    ELSE IF ~taken /\ counter > 0 THEN counter - 1
    ELSE counter

predict(branch) ==
    CASE predictorType = "AlwaysNotTaken" -> FALSE
      [] predictorType = "AlwaysTaken" -> TRUE
      [] predictorType = "OneBit" -> branch \in DOMAIN oneBitTable /\ oneBitTable[branch]
      [] predictorType = "TwoBit" -> predictsTaken(counterAt(twoBitTable, branch))
      [] predictorType = "GShare" -> predictsTaken(counterAt(gshareTable, getGShareIndex(branch)))

Put(table, k, v) == [x \in DOMAIN table \cup {k} |-> IF x = k THEN v ELSE table[x]]

ShiftedIn(taken) == [b \in Bits |-> IF b = 0 THEN taken ELSE globalHistory[b - 1]]

\* fault: the counter is selected with the history the outcome is already in
IndexAfterShift(branch, taken) == [b \in Bits |-> BitOf(branch, b) # ShiftedIn(taken)[b]]
TrainedIndex(branch, taken) == getGShareIndex(branch)

\* GShare selects its counter with the old history, then shifts the outcome in.
update(branch, taken) ==
    /\ oneBitTable' =
         IF predictorType = "OneBit" THEN Put(oneBitTable, branch, taken) ELSE oneBitTable
    /\ twoBitTable' =
         IF predictorType = "TwoBit"
         THEN Put(twoBitTable, branch, trained(counterAt(twoBitTable, branch), taken))
         ELSE twoBitTable
    /\ IF predictorType = "GShare"
       THEN LET index == TrainedIndex(branch, taken) IN
              /\ gshareTable' =
                   Put(gshareTable, index, trained(counterAt(gshareTable, index), taken))
              /\ globalHistory' = ShiftedIn(taken)
       ELSE UNCHANGED <<gshareTable, globalHistory>>
    /\ outcomes' = Append(outcomes, [pc |-> branch, taken |-> taken])
    /\ UNCHANGED predictorType

-----------------------------------------------------------------------------
(* A predictor on its own: branches resolve in any order, either way.        *)

Resolution ==
    \E branch \in BranchPcs, taken \in BOOLEAN :
        Len(outcomes) < MaxOutcomes /\ update(branch, taken)

PredictorSpec == PredictorInit /\ [][Resolution]_predictorVars

-----------------------------------------------------------------------------
(* Properties                                                                *)

Indices == [Bits -> BOOLEAN]
Counters == 0 .. 3

\* The tables have the types and the counters the range BranchPredictor.h gives.
PredictorTypeOK ==
    /\ predictorType \in PredictorTypes
    /\ oneBitTable \in [DOMAIN oneBitTable -> BOOLEAN]
    /\ twoBitTable \in [DOMAIN twoBitTable -> Counters]
    /\ DOMAIN gshareTable \subseteq Indices
    /\ gshareTable \in [DOMAIN gshareTable -> Counters]
    /\ globalHistory \in Indices
    /\ \A n \in DOMAIN outcomes : outcomes[n] \in [pc : Nat, taken : BOOLEAN]

\* The history a branch met, and the gshare index it had, when the first n
\* outcomes were known: by the definition of the predictor, not by its state.
HistoryAfter(n) == [b \in Bits |-> n - b >= 1 /\ outcomes[n - b].taken]
IndexAfter(n, branch) == [b \in Bits |-> BitOf(branch, b) # HistoryAfter(n)[b]]

\* The outcomes that trained the entry a prediction of `branch' now reads.
SameEntry(n, branch) ==
    CASE predictorType = "GShare" ->
            IndexAfter(n - 1, outcomes[n].pc) = IndexAfter(Len(outcomes), branch)
      [] OTHER -> outcomes[n].pc = branch
TrainedBy(branch) == {n \in DOMAIN outcomes : SameEntry(n, branch)}

\* How many agreeing outcomes the predictor needs to follow them.
Needed ==
    CASE predictorType = "OneBit" -> 1
      [] predictorType \in {"TwoBit", "GShare"} -> 2
      [] OTHER -> MaxOutcomes + 1

Youngest(n, S) == {x \in S : Cardinality({y \in S : y > x}) < n}

(***************************************************************************)
(* A predictor follows what it saw: one outcome decides the next prediction *)
(* of a one-bit entry, two equal ones in a row that of a two-bit counter,   *)
(* whatever came before; an entry that saw nothing predicts not taken.  For *)
(* gshare the entry is the one selected by the pc and the last historyBits  *)
(* outcomes of all branches (predict, update, getGShareIndex).              *)
(***************************************************************************)
RecentOutcomesDecide ==
    \A branch \in BranchPcs :
        LET recent == Youngest(Needed, TrainedBy(branch)) IN
          /\ predictorType # "AlwaysTaken" /\ recent = {} => ~predict(branch)
          /\ \A taken \in BOOLEAN :
               /\ Cardinality(recent) = Needed
               /\ \A n \in recent : outcomes[n].taken = taken
               => predict(branch) = taken

(***************************************************************************)
(* The second bit earns its keep: after three equal outcomes one exception  *)
(* does not change what a two-bit or gshare entry predicts.                 *)
(***************************************************************************)
HabitSurvivesAnException ==
    predictorType \in {"TwoBit", "GShare"} =>
        \A branch \in BranchPcs :
            LET recent == Youngest(4, TrainedBy(branch))
                habit == recent \ Youngest(1, recent)
            IN  \A taken \in BOOLEAN :
                  /\ Cardinality(habit) = 3
                  /\ \A n \in habit : outcomes[n].taken = taken
                  => predict(branch) = taken
=============================================================================

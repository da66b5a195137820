--------------------------- MODULE Simulator_proofs ---------------------------
(* The simulator with any of its predictors runs the cycle loop of the        *)
(* proofs before, and what it records of a run is true of it: the cycles of   *)
(* the status table, the stages of the FP pipelines, the performance counters *)
(* and what the predictor was trained with.                                   *)
EXTENDS SimulatorProperties, CachedCore_proofs

-----------------------------------------------------------------------------
(* The simulator runs the loop                                               *)

\* A predictor chooses a direction, the records are added: either way a step of
\* the loop with its cache, or none.
LEMMA RecordedSteps == [NextSim]_varsSim => [NextL1D]_varsL1D
<1> SUFFICES ASSUME [NextSim]_varsSim PROVE [NextL1D]_varsL1D
    OBVIOUS
<1>1. ASSUME IssuePredicted
      PROVE  \E predictedTaken \in BOOLEAN : Issue(predictedTaken) /\ UNCHANGED cacheVars
  <2> DEFINE taken == IsBranch(NextInstruction) /\ predict(pc)
  <2>1. taken \in BOOLEAN
      OBVIOUS
  <2>2. Issue(taken) /\ UNCHANGED cacheVars
      BY <1>1 DEF IssuePredicted, CycleStarts, cacheVars
  <2> QED
      BY <2>1, <2>2
<1>2. CASE IssueStalls \/ NothingToIssue
    BY <1>2 DEF IssueStalls, NothingToIssue, CycleStarts, cacheVars, NextL1D
<1>3. ASSUME NEW k \in todo, Proceed(k) \/ WaitStalled(k) \/ StartRecorded(k)
      PROVE  NextL1D
    BY <1>3 DEF Proceed, WaitStalled, StartRecorded, NextL1D, cacheVars
<1>4. CASE CommitRecorded \/ NoCommitRecorded \/ NoBroadcastRecorded \/ EndCycleRecorded \/ Stop
    BY <1>4 DEF CommitRecorded, NoCommitRecorded, NoBroadcastRecorded, EndCycleRecorded,
       Stop, NextL1D, cacheVars
<1>5. ASSUME NEW k \in DOMAIN cdbQueue, BroadcastRecorded(k) PROVE NextL1D
    BY <1>5 DEF BroadcastRecorded, NextL1D, cacheVars
<1>6. ASSUME NEW k \in todo, CompleteRecorded(k) \/ ResolveRecorded(k) PROVE NextL1D
    BY <1>6 DEF CompleteRecorded, ResolveRecorded, NextL1D
<1>7. CASE UNCHANGED varsSim
    BY <1>7 DEF varsSim
<1> QED
    BY <1>1, <1>2, <1>3, <1>4, <1>5, <1>6, <1>7 DEF NextSim, NextL1D

(***************************************************************************)
(* Every behaviour of the simulator, with whichever predictor, is one of    *)
(* the loop with its data cache: all that is proved of SpecL1D holds of it.  *)
(***************************************************************************)
THEOREM SimulatorRunsTheLoop == SpecSim => InitL1D /\ [][NextL1D]_varsL1D
BY RecordedSteps, PTL DEF SpecSim, InitSim

-----------------------------------------------------------------------------
(* Where the instructions are                                                *)

\* An instruction in flight is active, on the bus, or finished in the ROB; the
\* others are committed or flushed.
LEMMA LoopFacts ==
    ASSUME QueueInv
    PROVE  /\ TypeInv /\ TypeOK /\ RobInv /\ FateInv /\ ResultInv
           /\ nextId \in Nat /\ nextId \notin Ids /\ Ids \subseteq Nat /\ DOMAIN statusTable = Ids
           /\ DOMAIN active \subseteq InFlight /\ DOMAIN cdbQueue \subseteq InFlight
           /\ DOMAIN active \cap DOMAIN cdbQueue = {} /\ InFlight \subseteq Ids
           /\ Ids = InFlight \cup Committed \cup Flushed
           /\ InFlight \cap Committed = {} /\ InFlight \cap Flushed = {}
           /\ Committed \cap Flushed = {}
           /\ \A c \in Committed, i \in InFlight : c < i
           /\ todo \subseteq DOMAIN active
<1>1. /\ TypeInv /\ TypeOK /\ RobInv /\ FateInv /\ ResultInv /\ OwedOnce
      /\ EveryInstructionHasOneFate
    BY DEF QueueInv, ResultInv, FateInv, RobInv, TypeInv
<1>2. /\ DOMAIN active \subseteq InFlight /\ InFlight \subseteq Ids /\ Ids \subseteq Nat
      /\ nextId \in Nat
    BY ActiveInFlight
<1>3. nextId \notin Ids
    BY <1>2 DEF Ids
<1>4. DOMAIN statusTable = Ids /\ todo \subseteq DOMAIN active
    BY <1>1 DEF TypeOK
<1>5. InFlight = {robEntries[t].id : t \in BusyTags}
    BY <1>1, InFlightByTag DEF InFlightHoldBusyTags
<1>6. DOMAIN cdbQueue \subseteq InFlight /\ DOMAIN active \cap DOMAIN cdbQueue = {}
    BY <1>1, <1>5 DEF OwedOnce, Unfinished
<1>7. /\ Ids = InFlight \cup Committed \cup Flushed
      /\ Committed \cap Flushed = {} /\ InFlight \cap Flushed = {}
      /\ \A c \in Committed, i \in InFlight : c < i
    BY <1>1, <1>4 DEF EveryInstructionHasOneFate
<1>8. InFlight \cap Committed = {}
    BY <1>2, <1>7
<1> QED
    BY <1>1, <1>2, <1>3, <1>4, <1>6, <1>7, <1>8

\* An issue adds the youngest instruction.
LEMMA IssueMoves ==
    ASSUME QueueInv, NEW predictedTaken \in BOOLEAN, Issue(predictedTaken)
    PROVE  /\ phase = "issue" /\ phase' = "execute" /\ todo' = DOMAIN active
           /\ Ids' = Ids \cup {nextId} /\ InFlight' = InFlight \cup {nextId}
           /\ Committed' = Committed /\ Flushed' = Flushed
           /\ DOMAIN cdbQueue' = DOMAIN cdbQueue /\ DOMAIN active' = DOMAIN active \cup {nextId}
           /\ \A k \in DOMAIN active : active'[k] = active[k]
           /\ active'[nextId] = IssuedInstruction(NextInstruction, predictedTaken)
<1>1. [NextAnyTiming]_vars /\ TypeInv /\ RobInv /\ FateInv /\ nextId \in Nat
    BY LoopFacts DEF NextAnyTiming
<1>2. RobInv'
    BY <1>1, AnyTimingWindow
<1>3. InFlight' = InFlight \cup {nextId} /\ Committed' = Committed /\ Flushed' = Flushed
    BY <1>1, <1>2, IssueInFlight, IssueFates
<1>4. Ids' = Ids \cup {nextId}
    BY <1>1 DEF Issue, Ids
<1>5. phase = "issue" /\ phase' = "execute" /\ todo' = DOMAIN active /\ cdbQueue' = cdbQueue
    BY DEF Issue, StartCycle, cdbVars
<1> QED
    BY <1>3, <1>4, <1>5, IssuedFields

\* These steps move nothing.
LEMMA NothingMoves ==
    ASSUME QueueInv,
           \/ StallIssue \/ Finish \/ NoCommit \/ NoBroadcast \/ EndCycle \/ Done
           \/ UNCHANGED vars
    PROVE  /\ Ids' = Ids /\ InFlight' = InFlight /\ active' = active /\ cdbQueue' = cdbQueue
           /\ Committed' = Committed /\ Flushed' = Flushed
<1>1. [NextAnyTiming]_vars /\ ResultInv
    BY LoopFacts DEF NextAnyTiming
<1>2. CASE UNCHANGED vars
    BY <1>2 DEF vars, fetchVars, robVars, cdbVars, Ids, InFlight, Committed, Flushed, Window,
       Entry, Slot
<1>3. CASE StallIssue \/ Finish \/ NoCommit \/ NoBroadcast \/ EndCycle \/ Done
  <2>1. active' = active /\ cdbQueue' = cdbQueue /\ nextId' = nextId /\ statusTable' = statusTable
      BY <1>3 DEF StallIssue, Finish, NoCommit, CommitStage, NoBroadcast, BroadcastStage,
         EndCycle, Done, fetchVars, cdbVars, vars
  <2>2. /\ robHead' = robHead /\ robCount' = robCount /\ robEntries' = robEntries
      BY <1>3 DEF StallIssue, Finish, NoCommit, CommitStage, NoBroadcast, BroadcastStage,
         EndCycle, Done, robVars, vars
  <2> QED
      BY <2>1, <2>2 DEF Ids, InFlight, Committed, Flushed, Window, Entry, Slot
<1> QED
    BY <1>2, <1>3

\* A visit of the execution loop changes one instruction in its place.
LEMMA VisitMoves ==
    ASSUME QueueInv, NEW k \in todo, VisitAnyTiming(k)
    PROVE  /\ phase = "execute" /\ phase' = "execute" /\ todo' = todo \ {k}
           /\ k \in DOMAIN active /\ \A j \in todo : k <= j
           /\ Ids' = Ids /\ InFlight' = InFlight /\ DOMAIN active' = DOMAIN active
           /\ cdbQueue' = cdbQueue /\ Committed' = Committed /\ Flushed' = Flushed
           /\ \A j \in DOMAIN active : j # k => active'[j] = active[j]
<1>1. /\ phase = "execute" /\ phase' = "execute" /\ todo' = todo \ {k}
      /\ \A j \in todo : k <= j
      /\ nextId' = nextId /\ cdbQueue' = cdbQueue /\ statusTable' = statusTable
      /\ robHead' = robHead /\ robCount' = robCount /\ robEntries' = robEntries
    BY DEF VisitAnyTiming, Progress, Hold, StartWith, Visit, Oldest, fetchVars, cdbVars, robVars
<1>2. /\ k \in DOMAIN active /\ DOMAIN active' = DOMAIN active
      /\ \A j \in DOMAIN active : j # k => active'[j] = active[j]
    BY LoopFacts, VisitedFields
<1> QED
    BY <1>1, <1>2 DEF Ids, InFlight, Committed, Flushed, Window, Entry, Slot

\* A commit takes the oldest instruction in flight, which is finished.
LEMMA CommitMoves ==
    ASSUME QueueInv, Commit
    PROVE  LET head == robEntries[robHead].id IN
           /\ phase = "execute" /\ todo = {} /\ phase' = "broadcast" /\ todo' = todo
           /\ head \in InFlight /\ head \notin DOMAIN active \cup DOMAIN cdbQueue
           /\ \A i \in InFlight : head <= i
           /\ Ids' = Ids /\ InFlight' = InFlight \ {head}
           /\ active' = active /\ cdbQueue' = cdbQueue
           /\ Committed' = Committed \cup {head} /\ Flushed' = Flushed
<1> DEFINE head == robEntries[robHead].id
<1>1. [NextAnyTiming]_vars /\ TypeInv /\ TypeOK /\ RobInv /\ FateInv /\ ResultInv
    BY LoopFacts DEF NextAnyTiming
<1>2. RobInv'
    BY <1>1, AnyTimingWindow
<1>3. /\ head \in InFlight /\ InFlight' = InFlight \ {head} /\ \A i \in InFlight : head <= i
    BY <1>1, <1>2, CommitInFlight
<1>4. /\ phase = "execute" /\ todo = {} /\ phase' = "broadcast" /\ todo' = todo
      /\ nextId' = nextId /\ active' = active /\ cdbQueue' = cdbQueue
      /\ statusTable' = [statusTable EXCEPT ![head].committed = TRUE]
      /\ robEntries[robHead].ready
    BY DEF Commit, CommitStage, HeadReady, fetchVars, cdbVars
<1>5. statusTable \in [Ids -> Statuses] /\ head \in Ids
    BY <1>1, <1>3, LoopFacts DEF TypeOK
<1>6. head \notin DOMAIN active \cup DOMAIN cdbQueue
  <2>1. OwedOnce
      BY <1>1 DEF ResultInv
  <2>2. robHead \in Tags /\ RobIsWindow /\ BusyTags \subseteq Tags
      BY <1>1 DEF RobInv, TypeOK, BusyTags
  <2>3. \A t \in BusyTags : robEntries[t].id = head => t = robHead
    <3>1. robHead \in BusyTags
        BY <1>1, CommitSlots
    <3> QED
        BY <1>1, <3>1, SlotsHoldDifferentIds
  <2> QED
      BY <1>4, <2>1, <2>3 DEF OwedOnce, Unfinished
<1> HIDE DEF head
<1>7. Committed' = Committed \cup {head} /\ Flushed' = Flushed
    BY <1>4, <1>5 DEF Committed, Flushed, Statuses
<1> QED
    BY <1>3, <1>4, <1>6, <1>7 DEF head, Ids

\* A broadcast finishes the instruction whose result it is.
LEMMA BroadcastMoves ==
    ASSUME QueueInv, NEW b \in DOMAIN cdbQueue, Broadcast(b)
    PROVE  /\ phase = "broadcast" /\ phase' = "complete"
           /\ Ids' = Ids /\ InFlight' = InFlight /\ DOMAIN active' = DOMAIN active
           /\ DOMAIN cdbQueue' = DOMAIN cdbQueue \ {b}
           /\ Committed' = Committed /\ Flushed' = Flushed
           /\ \A k \in DOMAIN active :
                /\ active'[k].instr = active[k].instr
                /\ active'[k].executing = active[k].executing
                /\ active'[k].remaining = active[k].remaining
                /\ active'[k].predictedTaken = active[k].predictedTaken
<1>1. [NextAnyTiming]_vars /\ TypeInv /\ TypeOK /\ RobInv /\ ResultInv
    BY LoopFacts DEF NextAnyTiming
<1>2. /\ phase = "broadcast" /\ phase' = "complete" /\ statusTable' = statusTable
      /\ nextId' = nextId /\ cdbQueue' = Remove(cdbQueue, b)
      /\ active' = [j \in DOMAIN active |-> Woken(active[j], cdbQueue[b])]
    BY DEF Broadcast, BroadcastStage, fetchVars
<1>3. ~MovesSlots
    BY <1>2 DEF MovesSlots, Issue, StartCycle, Commit, CommitStage, ResolveMispredicted, Complete
<1>4. InFlight' = InFlight
    BY <1>1, <1>3, InFlightSteps
<1>5. DOMAIN cdbQueue' = DOMAIN cdbQueue \ {b}
    BY <1>2 DEF Remove, Restrict
<1>6. ASSUME NEW k \in DOMAIN active PROVE active'[k].remaining = active[k].remaining
  <2>1. active[k] \in ActiveRecords /\ cdbQueue[b] \in Messages
      BY <1>1 DEF TypeOK
  <2> QED
      BY <1>2, <2>1, WokenType
<1> QED
    BY <1>1, <1>2, <1>4, <1>5, <1>6, WokenFields DEF Ids, Committed, Flushed

\* A completion hands a result to the bus, or finishes a store or a branch.
LEMMA CompletionMoves ==
    ASSUME QueueInv, NEW k \in todo,
           CompleteRegister(k) \/ CompleteStore(k) \/ ResolveCorrect(k)
    PROVE  /\ phase = "complete" /\ phase' = "complete" /\ todo' = todo \ {k}
           /\ k \in DOMAIN active /\ \A j \in todo : k <= j
           /\ Ids' = Ids /\ InFlight' = InFlight /\ DOMAIN active' = DOMAIN active \ {k}
           /\ Committed' = Committed /\ Flushed' = Flushed
           /\ \A j \in DOMAIN active' : active'[j] = active[j]
           /\ DOMAIN cdbQueue' = IF writesRegister(active[k].instr)
                                 THEN DOMAIN cdbQueue \cup {k} ELSE DOMAIN cdbQueue
<1>1. [NextAnyTiming]_vars /\ TypeInv /\ TypeOK /\ RobInv /\ ResultInv /\ k \in DOMAIN active
    BY LoopFacts DEF NextAnyTiming
<1>2. /\ phase = "complete" /\ phase' = "complete" /\ statusTable' = statusTable
      /\ nextId' = nextId /\ todo' = todo \ {k} /\ \A j \in todo : k <= j
      /\ active' = Remove(active, k)
    BY DEF CompleteRegister, CompleteStore, ResolveCorrect, Complete, Retire, Oldest
<1>3. ~MovesSlots
  <2>1. ASSUME NEW j \in todo, ResolveMispredicted(j) PROVE FALSE
    <3>1. Oldest(k, todo) /\ Oldest(j, todo) /\ todo \subseteq Nat
        BY <2>1, LoopFacts DEF CompleteRegister, CompleteStore, ResolveCorrect, Complete,
           ResolveMispredicted
    <3>2. j = k
        BY <3>1 DEF Oldest
    <3>3. IsBranch(active[k].instr) /\ ActualTaken(k) # active[k].predictedTaken
        BY <2>1, <3>2 DEF ResolveMispredicted
    <3>4. active[k].instr.rd = None /\ active[k].instr.op # "SD"
        BY <1>1, <3>3, StoresAndBranchesWriteNone DEF IsBranch, BranchOps
    <3> QED
        BY <3>3, <3>4 DEF CompleteRegister, CompleteStore, ResolveCorrect, writesRegister
  <2> QED
      BY <1>2, <2>1 DEF MovesSlots, Issue, StartCycle, Commit, CommitStage
<1>4. InFlight' = InFlight
    BY <1>1, <1>3, InFlightSteps
<1>5. /\ DOMAIN active' = DOMAIN active \ {k}
      /\ \A j \in DOMAIN active' : active'[j] = active[j]
    BY <1>2 DEF Remove, Restrict
<1>6. DOMAIN cdbQueue' = IF writesRegister(active[k].instr)
                         THEN DOMAIN cdbQueue \cup {k} ELSE DOMAIN cdbQueue
  <2>1. CASE CompleteRegister(k)
      BY <2>1 DEF CompleteRegister, Extend
  <2>2. CASE CompleteStore(k) \/ ResolveCorrect(k)
    <3>1. cdbQueue' = cdbQueue
        BY <2>2 DEF CompleteStore, ResolveCorrect, cdbVars
    <3>2. ~writesRegister(active[k].instr)
        BY <1>1, <2>2, StoresAndBranchesWriteNone DEF CompleteStore, ResolveCorrect,
           writesRegister
    <3> QED
        BY <3>1, <3>2
  <2> QED
      BY <2>1, <2>2
<1> QED
    BY <1>1, <1>2, <1>4, <1>5, <1>6 DEF Ids, Committed, Flushed

\* A misprediction takes everything younger out of flight.
LEMMA MispredictionMoves ==
    ASSUME QueueInv, NEW k \in todo, ResolveMispredicted(k)
    PROVE  /\ phase = "complete" /\ phase' = "complete" /\ todo' = {j \in todo : j < k}
           /\ k \in DOMAIN active /\ \A j \in todo : k <= j
           /\ Ids' = Ids /\ InFlight' = {i \in InFlight : i <= k}
           /\ DOMAIN active' = {j \in DOMAIN active : j < k}
           /\ DOMAIN cdbQueue' = {j \in DOMAIN cdbQueue : j < k}
           /\ Committed' = Committed /\ Flushed' = Flushed \cup {i \in InFlight : i > k}
           /\ \A j \in DOMAIN active' : active'[j] = active[j]
<1>1. [NextAnyTiming]_vars /\ TypeInv /\ RobInv /\ FateInv /\ k \in DOMAIN active
    BY LoopFacts DEF NextAnyTiming
<1>2. RobInv'
    BY <1>1, AnyTimingWindow
<1>3. /\ InFlight' = {i \in InFlight : i <= k}
      /\ Committed' = Committed /\ Flushed' = Flushed \cup {i \in InFlight : i > k}
    BY <1>1, <1>2, ResolveMispredictedInFlight, ResolveMispredictedFates
<1>4. /\ phase = "complete" /\ phase' = "complete" /\ todo' = {j \in todo : j < k}
      /\ nextId' = nextId /\ \A j \in todo : k <= j
      /\ active' = Remove(UpTo(active, k), k) /\ cdbQueue' = UpTo(cdbQueue, k)
    BY DEF ResolveMispredicted, Complete, Oldest
<1>5. /\ k \in Nat /\ DOMAIN active \subseteq Nat /\ DOMAIN cdbQueue \subseteq Nat
      /\ k \notin DOMAIN cdbQueue
    BY <1>1, LoopFacts
<1>6. DOMAIN cdbQueue' = {j \in DOMAIN cdbQueue : j <= k}
    BY <1>4 DEF UpTo, Restrict
<1>7. DOMAIN cdbQueue' = {j \in DOMAIN cdbQueue : j < k}
    BY <1>5, <1>6
<1>8. /\ DOMAIN active' = {j \in DOMAIN active : j <= k} \ {k}
      /\ \A j \in DOMAIN active' : active'[j] = active[j]
    BY <1>4 DEF UpTo, Remove, Restrict
<1>9. DOMAIN active' = {j \in DOMAIN active : j < k}
    BY <1>5, <1>8
<1> QED
    BY <1>1, <1>3, <1>4, <1>7, <1>8, <1>9 DEF Ids

-----------------------------------------------------------------------------
(* The recorded cycles                                                       *)

Moments == Nat \cup {NotYet}
Times ==
    [predictedTaken : BOOLEAN, actualTaken : BOOLEAN, issue : Nat, start : Moments,
     end : Moments, writeback : Moments, commit : Moments, flush : Moments]

TimelineTypeOK == cycle \in Nat /\ timeline \in [Ids -> Times]

\* Of a stage of this cycle that the loop has yet to reach, nothing is recorded.
HavePassed(t, now, stage, unvisited) ==
    /\ t.issue <= now /\ t.start <= now /\ t.end <= now
    /\ t.writeback <= now /\ t.commit <= now /\ t.flush <= now
    /\ stage \in {"issue", "done"} \/ unvisited => t.issue < now
    /\ stage \in {"issue", "done"} => t.start < now
    /\ stage \in {"issue", "execute", "done"} => t.commit < now
    /\ stage # "complete" => t.end < now /\ t.writeback < now /\ t.flush < now

Unvisited(k) == phase = "execute" /\ k \in todo
TimesHavePassed == \A k \in Ids : HavePassed(timeline[k], cycle, phase, Unvisited(k))

\* The cycles that an instruction which executes has been counted down for.
Executed(k) ==
    cycle - timeline[k].start + (IF phase \in {"issue", "done"} \/ Unvisited(k) THEN 0 ELSE 1)

\* Its row says how far an instruction has come.
ActiveTimes(k) ==
    LET t == timeline[k] IN
      /\ t.end = NotYet /\ t.writeback = NotYet
      /\ t.predictedTaken = active[k].predictedTaken
      /\ IF active[k].executing
         THEN /\ t.start # NotYet
              /\ Executed(k) + active[k].remaining \in Latencies(active[k].instr)
         ELSE t.start = NotYet /\ active[k].remaining = getLatency(active[k].instr.op)

OnBusTimes(k) ==
    /\ timeline[k].end # NotYet /\ timeline[k].writeback = NotYet
    /\ writesRegister(InstructionOf(k))

RowsShowProgress ==
    /\ \A k \in DOMAIN active : ActiveTimes(k)
    /\ \A k \in DOMAIN cdbQueue : OnBusTimes(k)
    /\ \A k \in InFlight \ (DOMAIN active \cup DOMAIN cdbQueue) :
         timeline[k].writeback # NotYet

\* StagesTakeTheirTime, of one row.
InSequence(t, i, committed) ==
    /\ t.start # NotYet => t.start > t.issue
    /\ t.end # NotYet => t.start # NotYet /\ t.end - t.start + 1 \in Latencies(i)
    /\ t.writeback # NotYet =>
         /\ t.end # NotYet
         /\ IF writesRegister(i) THEN t.writeback > t.end ELSE t.writeback = t.end
    /\ committed <=> t.commit # NotYet
    /\ committed => t.writeback # NotYet /\ t.commit > t.writeback

RowsInSequence ==
    \A k \in Ids : InSequence(timeline[k], InstructionOf(k), k \in Committed)

RowsInv == TimelineTypeOK /\ TimesHavePassed /\ RowsShowProgress /\ RowsInSequence
TimesInv == QueueInv /\ RowsInv

\* What every step of the simulator keeps and leaves alone.
LEMMA SimulatorSteps ==
    ASSUME QueueInv, [NextSim]_varsSim
    PROVE  /\ QueueInv' /\ [NextAnyTiming]_vars /\ [NextL1D]_varsL1D
           /\ \A k \in Ids : InstructionOf(k)' = InstructionOf(k)
<1>1. TypeInv /\ [NextL1D]_varsL1D
    BY LoopFacts, RecordedSteps
<1>2. [NextAnyTiming]_vars
    BY <1>1, CachedIsAnyTiming
<1> QED
    BY <1>1, <1>2, AnyTimingQueue, InstructionsStay

\* What the fields of a row are.
LEMMA RowTypes ==
    ASSUME NEW t \in Times
    PROVE  /\ t.issue \in Nat /\ t.start \in Int /\ t.end \in Int /\ t.writeback \in Int
           /\ t.commit \in Int /\ t.flush \in Int /\ NotYet \in Int /\ NotYet < 0
           /\ \A m \in {t.start, t.end, t.writeback, t.commit, t.flush} :
                m # NotYet => m \in Nat
BY DEF Times, Moments, NotYet

LEMMA InitRows == InitSim => TimesInv
<1> SUFFICES ASSUME InitSim PROVE TimesInv
    OBVIOUS
<1>1. Init /\ cycle = 1 /\ timeline = EmptyFunction
    BY DEF InitSim, InitL1D
<1>2. QueueInv
    BY <1>1, InitQueue
<1>3. Ids = {} /\ DOMAIN active = {} /\ DOMAIN cdbQueue = {}
    BY <1>1 DEF Init, Ids, EmptyFunction
<1>4. InFlight = {}
    BY <1>2, <1>3, LoopFacts
<1>5. TimelineTypeOK
    BY <1>1, <1>3 DEF TimelineTypeOK, EmptyFunction
<1> QED
    BY <1>2, <1>3, <1>4, <1>5 DEF TimesInv, RowsInv, TimesHavePassed, RowsShowProgress,
       RowsInSequence

\* An issue adds a row, of this cycle.
LEMMA IssueRows == ASSUME TimesInv, IssuePredicted PROVE RowsInv'
<1> DEFINE taken == IsBranch(NextInstruction) /\ predict(pc)
           row == NewTimes(taken)
<1>1. /\ QueueInv /\ TimelineTypeOK /\ TimesHavePassed /\ RowsShowProgress /\ RowsInSequence
      /\ taken \in BOOLEAN /\ Issue(taken) /\ cycle' = cycle
      /\ timeline' = Extend(timeline, nextId, row)
    BY DEF TimesInv, RowsInv, IssuePredicted, CycleStarts
<1>2. /\ phase = "issue" /\ phase' = "execute" /\ todo' = DOMAIN active
      /\ Ids' = Ids \cup {nextId} /\ InFlight' = InFlight \cup {nextId}
      /\ Committed' = Committed /\ Flushed' = Flushed
      /\ DOMAIN cdbQueue' = DOMAIN cdbQueue /\ DOMAIN active' = DOMAIN active \cup {nextId}
      /\ \A k \in DOMAIN active : active'[k] = active[k]
      /\ active'[nextId] = IssuedInstruction(NextInstruction, taken)
    BY <1>1, IssueMoves
<1>3. \A k \in Ids : InstructionOf(k)' = InstructionOf(k)
    BY <1>1, SimulatorSteps DEF NextSim
<1>4. /\ nextId \in Nat /\ nextId \notin Ids /\ DOMAIN active \subseteq InFlight
      /\ InFlight \subseteq Ids /\ DOMAIN cdbQueue \subseteq InFlight /\ Committed \subseteq Ids
    BY <1>1, LoopFacts
<1>5. cycle \in Nat /\ timeline \in [Ids -> Times] /\ row \in Times
    BY <1>1 DEF TimelineTypeOK, NewTimes, Times, Moments
<1>6. /\ row.issue = cycle /\ row.start = NotYet /\ row.end = NotYet /\ row.writeback = NotYet
      /\ row.commit = NotYet /\ row.flush = NotYet /\ row.predictedTaken = taken
    BY DEF NewTimes
<1> HIDE DEF row, taken
<1>12. PICK new : new = nextId
    OBVIOUS
<1>7. /\ timeline' \in [Ids' -> Times] /\ timeline'[new] = row
      /\ \A k \in Ids : timeline'[k] = timeline[k]
  <2>1. timeline' = [k \in Ids \cup {new} |-> IF k = new THEN row ELSE timeline[k]]
      BY <1>1, <1>5, <1>12 DEF Extend
  <2> QED
      BY <1>2, <1>4, <1>5, <1>12, <2>1
<1>8. TimelineTypeOK'
    BY <1>1, <1>5, <1>7 DEF TimelineTypeOK
<1>9. TimesHavePassed'
  <2>1. ASSUME NEW k \in Ids PROVE HavePassed(timeline[k], cycle, "execute", Unvisited(k)')
    <3>1. HavePassed(timeline[k], cycle, "issue", Unvisited(k))
        BY <1>1, <1>2 DEF TimesHavePassed
    <3> QED
        BY <3>1 DEF HavePassed
  <2>2. HavePassed(row, cycle, "execute", Unvisited(new)')
    <3>1. ~Unvisited(new)'
        BY <1>2, <1>4, <1>12 DEF Unvisited
    <3> QED
        BY <1>5, <1>6, <3>1 DEF HavePassed, NotYet
  <2> QED
      BY <1>1, <1>2, <1>12, <1>7, <2>1, <2>2 DEF TimesHavePassed
<1>10. RowsShowProgress'
  <2>1. ASSUME NEW k \in DOMAIN active PROVE ActiveTimes(k)'
    <3>1. /\ timeline'[k] = timeline[k] /\ active'[k] = active[k]
          /\ ActiveTimes(k) /\ Unvisited(k)'
        BY <1>1, <1>2, <1>4, <1>7, <2>1 DEF RowsShowProgress, Unvisited
    <3>2. Executed(k)' = Executed(k)
        BY <1>1, <1>2, <3>1 DEF Executed
    <3> QED
        BY <3>1, <3>2 DEF ActiveTimes
  <2>2. ActiveTimes(new)'
    <3>1. /\ active'[new].executing = FALSE /\ active'[new].predictedTaken = taken
          /\ active'[new].remaining = getLatency(active'[new].instr.op)
        BY <1>2, <1>12 DEF IssuedInstruction
    <3> QED
        BY <1>6, <1>7, <3>1 DEF ActiveTimes
  <2>3. ASSUME NEW k \in DOMAIN cdbQueue PROVE OnBusTimes(k)'
      BY <1>1, <1>3, <1>4, <1>7 DEF RowsShowProgress, OnBusTimes
  <2> QED
      BY <1>1, <1>2, <1>4, <1>12, <1>7, <2>1, <2>2, <2>3 DEF RowsShowProgress
<1>11. RowsInSequence'
  <2>1. InSequence(row, InstructionOf(new)', new \in Committed)
      BY <1>4, <1>12, <1>6 DEF InSequence, NotYet
  <2> QED
      BY <1>1, <1>2, <1>3, <1>12, <1>7, <2>1 DEF RowsInSequence
<1> QED
    BY <1>8, <1>9, <1>10, <1>11 DEF RowsInv

\* The phases pass in their order and a cycle ends with the last.
LoopPasses ==
    \/ phase = "issue" /\ phase' = "execute" /\ todo' = DOMAIN active /\ cycle' = cycle
    \/ phase = "issue" /\ phase' = "done" /\ cycle' = cycle
    \/ phase = "execute" /\ todo = {} /\ phase' = "broadcast" /\ cycle' = cycle
    \/ phase = "broadcast" /\ phase' = "complete" /\ cycle' = cycle
    \/ phase = "complete" /\ phase' = "issue" /\ cycle' = cycle + 1
    \/ phase' = phase /\ cycle' = cycle /\ todo' \subseteq todo

\* A row that a step leaves alone is as good afterwards.
LEMMA RowStays ==
    ASSUME TimesInv, LoopPasses, NEW k \in Ids, timeline'[k] = timeline[k]
    PROVE  HavePassed(timeline'[k], cycle', phase', Unvisited(k)')
<1>1. PICK t : t = timeline[k]
    OBVIOUS
<1>2. PICK now : now = cycle
    OBVIOUS
<1>3. t \in Times /\ now \in Nat
    BY <1>1, <1>2 DEF TimesInv, RowsInv, TimelineTypeOK
<1>4. HavePassed(t, now, phase, Unvisited(k))
    BY <1>1, <1>2 DEF TimesInv, RowsInv, TimesHavePassed
<1>5. /\ t.issue \in Nat /\ t.start \in Int /\ t.end \in Int /\ t.writeback \in Int
      /\ t.commit \in Int /\ t.flush \in Int
    BY <1>3, RowTypes
<1>6. CASE phase = "complete" /\ phase' = "issue" /\ cycle' = cycle + 1
  <2>1. /\ t.issue < now + 1 /\ t.start < now + 1 /\ t.end < now + 1
        /\ t.writeback < now + 1 /\ t.commit < now + 1 /\ t.flush < now + 1
      BY <1>3, <1>4, <1>5 DEF HavePassed
  <2>2. HavePassed(t, now + 1, "issue", FALSE)
      BY <1>3, <1>5, <2>1 DEF HavePassed
  <2>3. ~Unvisited(k)'
      BY <1>6 DEF Unvisited
  <2> QED
      BY <1>1, <1>2, <1>6, <2>2, <2>3 DEF HavePassed
<1>7. CASE phase = "issue" /\ phase' \in {"execute", "done"} /\ cycle' = cycle
  <2>1. HavePassed(t, now, phase', Unvisited(k)')
      BY <1>4, <1>7 DEF HavePassed
  <2> QED
      BY <1>1, <1>2, <1>7, <2>1
<1>8. CASE phase = "execute" /\ phase' = "broadcast" /\ cycle' = cycle
  <2>1. ~Unvisited(k)'
      BY <1>8 DEF Unvisited
  <2>2. HavePassed(t, now, phase', Unvisited(k)')
      BY <1>4, <1>8, <2>1 DEF HavePassed
  <2> QED
      BY <1>1, <1>2, <1>8, <2>2
<1>9. CASE phase = "broadcast" /\ phase' = "complete" /\ cycle' = cycle
  <2>1. ~Unvisited(k)'
      BY <1>9 DEF Unvisited
  <2>2. HavePassed(t, now, phase', Unvisited(k)')
      BY <1>4, <1>9, <2>1 DEF HavePassed
  <2> QED
      BY <1>1, <1>2, <1>9, <2>2
<1>10. CASE phase' = phase /\ cycle' = cycle /\ todo' \subseteq todo
  <2>1. Unvisited(k)' => Unvisited(k)
      BY <1>10 DEF Unvisited
  <2>2. HavePassed(t, now, phase', Unvisited(k)')
      BY <1>4, <1>10, <2>1 DEF HavePassed
  <2> QED
      BY <1>1, <1>2, <1>10, <2>2
<1> QED
    BY <1>6, <1>7, <1>8, <1>9, <1>10 DEF LoopPasses

\* So is that of an instruction in flight which the step does not visit.
LEMMA ActiveStays ==
    ASSUME TimesInv, LoopPasses, NEW k \in DOMAIN active, timeline'[k] = timeline[k],
           phase = "execute" /\ phase' = "execute" => (k \in todo' <=> k \in todo),
           active'[k].instr = active[k].instr, active'[k].executing = active[k].executing,
           active'[k].remaining = active[k].remaining,
           active'[k].predictedTaken = active[k].predictedTaken
    PROVE  ActiveTimes(k)'
<1>1. ActiveTimes(k)
    BY DEF TimesInv, RowsInv, RowsShowProgress
<1>2. cycle \in Nat /\ phase \in {"issue", "execute", "broadcast", "complete", "done"}
    BY LoopFacts DEF TimesInv, RowsInv, TimelineTypeOK, TypeOK
<1>3. timeline[k].start \in Int
    BY LoopFacts, RowTypes DEF TimesInv, RowsInv, TimelineTypeOK
<1>4. Executed(k)' = Executed(k)
    BY <1>2, <1>3 DEF LoopPasses, Executed, Unvisited
<1> QED
    BY <1>1, <1>4 DEF ActiveTimes

\* Steps that record no stage.
RecordsNoStage ==
    \/ IssueStalls \/ NothingToIssue \/ NoCommitRecorded \/ NoBroadcastRecorded
    \/ EndCycleRecorded \/ Stop \/ UNCHANGED varsSim

LEMMA QuietRows == ASSUME TimesInv, RecordsNoStage PROVE RowsInv'
<1>1. /\ QueueInv /\ TimelineTypeOK /\ TimesHavePassed /\ RowsShowProgress /\ RowsInSequence
    BY DEF TimesInv, RowsInv
<1>2. /\ timeline' = timeline
      /\ \/ StallIssue \/ Finish \/ NoCommit \/ NoBroadcast \/ EndCycle \/ Done
         \/ UNCHANGED vars
    BY DEF RecordsNoStage, IssueStalls, NothingToIssue, NoCommitRecorded, NoBroadcastRecorded,
       EndCycleRecorded, Stop, recordVars, varsSim, varsL1D
<1>3. /\ Ids' = Ids /\ InFlight' = InFlight /\ active' = active /\ cdbQueue' = cdbQueue
      /\ Committed' = Committed /\ Flushed' = Flushed
    BY <1>1, <1>2, NothingMoves
<1>4. /\ InFlight \subseteq Ids /\ DOMAIN cdbQueue \subseteq InFlight
      /\ DOMAIN active \subseteq InFlight
      /\ \A k \in Ids : InstructionOf(k)' = InstructionOf(k)
    BY <1>1, LoopFacts, SimulatorSteps DEF RecordsNoStage, NextSim
<1>5. LoopPasses
  <2>1. CASE IssueStalls \/ NothingToIssue
      BY <2>1 DEF IssueStalls, NothingToIssue, StallIssue, StartCycle, CycleStarts, LoopPasses
  <2>2. CASE NoCommitRecorded \/ NoBroadcastRecorded
      BY <2>2 DEF NoCommitRecorded, NoCommit, CommitStage, NoBroadcastRecorded, NoBroadcast,
         BroadcastStage, recordVars, LoopPasses
  <2>3. CASE EndCycleRecorded
      BY <2>3 DEF EndCycleRecorded, EndCycle, LoopPasses
  <2>4. CASE Stop
      BY <2>4 DEF Stop, Finish, Done, vars, recordVars, LoopPasses
  <2>5. CASE UNCHANGED varsSim
      BY <2>5 DEF varsSim, varsL1D, vars, recordVars, LoopPasses
  <2> QED
      BY <2>1, <2>2, <2>3, <2>4, <2>5 DEF RecordsNoStage
<1>6. TimelineTypeOK'
  <2>1. cycle' \in Nat
      BY <1>1, <1>5 DEF TimelineTypeOK, LoopPasses
  <2> QED
      BY <1>1, <1>2, <1>3, <2>1 DEF TimelineTypeOK
<1>7. TimesHavePassed'
    BY <1>2, <1>3, <1>5, RowStays DEF TimesHavePassed
<1>8. ASSUME NEW k \in DOMAIN active PROVE ActiveTimes(k)'
  <2>1. phase = "execute" /\ phase' = "execute" => (k \in todo' <=> k \in todo)
      BY DEF RecordsNoStage, IssueStalls, NothingToIssue, NoCommitRecorded,
         NoBroadcastRecorded, EndCycleRecorded, Stop, StallIssue, StartCycle, NoCommit,
         CommitStage, NoBroadcast, BroadcastStage, EndCycle, Finish, Done, varsSim, varsL1D, vars
  <2> QED
      BY <1>2, <1>3, <1>5, <2>1, ActiveStays
<1>9. RowsShowProgress'
    BY <1>1, <1>2, <1>3, <1>4, <1>8 DEF RowsShowProgress, OnBusTimes
<1>10. RowsInSequence'
    BY <1>1, <1>2, <1>3, <1>4 DEF RowsInSequence
<1> QED
    BY <1>6, <1>7, <1>9, <1>10 DEF RowsInv

\* A step that records k and leaves every other row and instruction alone.
RecordsOnly(k) ==
    /\ \A j \in Ids : j # k => timeline'[j] = timeline[j]
    /\ Ids' = Ids /\ (phase = "execute" /\ phase' = "execute" => todo' = todo \ {k})
    /\ \A j \in DOMAIN active' : j # k =>
         /\ j \in DOMAIN active
         /\ active'[j].instr = active[j].instr
         /\ active'[j].executing = active[j].executing
         /\ active'[j].remaining = active[j].remaining
         /\ active'[j].predictedTaken = active[j].predictedTaken
    /\ DOMAIN cdbQueue' \subseteq DOMAIN cdbQueue \cup {k}
    /\ InFlight' \subseteq InFlight
    /\ \A i \in InFlight' : i \in DOMAIN active \cup DOMAIN cdbQueue
                            => i = k \/ i \in DOMAIN active' \cup DOMAIN cdbQueue'
    /\ \A i \in Ids : i # k => (i \in Committed' <=> i \in Committed)

\* What is left to show of such a step is about k.
LEMMA OtherRows ==
    ASSUME TimesInv, [NextSim]_varsSim, LoopPasses, NEW k \in Ids, RecordsOnly(k),
           timeline' \in [Ids -> Times],
           HavePassed(timeline'[k], cycle', phase', Unvisited(k)'),
           k \in DOMAIN active' => ActiveTimes(k)',
           k \in DOMAIN cdbQueue' => OnBusTimes(k)',
           k \in InFlight' \ (DOMAIN active' \cup DOMAIN cdbQueue')
              => timeline'[k].writeback # NotYet,
           InSequence(timeline'[k], InstructionOf(k), k \in Committed')
    PROVE  RowsInv'
<1>1. /\ QueueInv /\ TimelineTypeOK /\ TimesHavePassed /\ RowsShowProgress /\ RowsInSequence
    BY DEF TimesInv, RowsInv
<1>2. /\ InFlight \subseteq Ids /\ DOMAIN cdbQueue \subseteq InFlight
      /\ DOMAIN active \subseteq InFlight /\ Ids' = Ids
      /\ \A j \in Ids : InstructionOf(j)' = InstructionOf(j)
    BY <1>1, LoopFacts, SimulatorSteps DEF RecordsOnly
<1>3. TimelineTypeOK'
  <2>1. cycle' \in Nat
      BY <1>1 DEF TimelineTypeOK, LoopPasses
  <2> QED
      BY <1>2, <2>1 DEF TimelineTypeOK
<1>4. TimesHavePassed'
    BY <1>2, RowStays DEF TimesHavePassed, RecordsOnly
<1>5. ASSUME NEW j \in DOMAIN active' PROVE ActiveTimes(j)'
  <2>1. CASE j # k
    <3>1. j \in DOMAIN active /\ j \in Ids /\ timeline'[j] = timeline[j]
        BY <1>2, <2>1 DEF RecordsOnly
    <3> QED
        BY <2>1, <3>1, ActiveStays DEF RecordsOnly
  <2> QED
      BY <2>1
<1>6. ASSUME NEW j \in DOMAIN cdbQueue' PROVE OnBusTimes(j)'
  <2>1. CASE j # k
    <3>1. j \in DOMAIN cdbQueue /\ j \in Ids /\ timeline'[j] = timeline[j]
        BY <1>2, <2>1 DEF RecordsOnly
    <3> QED
        BY <1>1, <1>2, <3>1 DEF RowsShowProgress, OnBusTimes
  <2> QED
      BY <2>1
<1>7. ASSUME NEW j \in InFlight' \ (DOMAIN active' \cup DOMAIN cdbQueue')
      PROVE  timeline'[j].writeback # NotYet
  <2>1. CASE j # k
    <3>1. /\ j \in InFlight \ (DOMAIN active \cup DOMAIN cdbQueue) /\ j \in Ids
          /\ timeline'[j] = timeline[j]
        BY <1>2, <2>1 DEF RecordsOnly
    <3> QED
        BY <1>1, <3>1 DEF RowsShowProgress
  <2> QED
      BY <2>1
<1>8. RowsShowProgress'
    BY <1>5, <1>6, <1>7 DEF RowsShowProgress
<1>9. RowsInSequence'
  <2>1. ASSUME NEW j \in Ids
        PROVE  InSequence(timeline'[j], InstructionOf(j), j \in Committed')
    <3>1. CASE j # k
      <4>1. timeline'[j] = timeline[j] /\ (j \in Committed' <=> j \in Committed)
          BY <3>1 DEF RecordsOnly
      <4>2. InSequence(timeline[j], InstructionOf(j), j \in Committed)
          BY <1>1 DEF RowsInSequence
      <4> QED
          BY <4>1, <4>2 DEF InSequence
    <3> QED
        BY <3>1
  <2> QED
      BY <1>2, <2>1 DEF RowsInSequence
<1> QED
    BY <1>3, <1>4, <1>8, <1>9 DEF RowsInv

\* What a visit of k leaves alone.
LEMMA VisitRecordsOnly ==
    ASSUME TimesInv, NEW k \in todo, VisitAnyTiming(k), cycle' = cycle,
           \A j \in Ids : j # k => timeline'[j] = timeline[j]
    PROVE  RecordsOnly(k) /\ LoopPasses
<1>1. /\ phase = "execute" /\ phase' = "execute" /\ todo' = todo \ {k}
      /\ Ids' = Ids /\ InFlight' = InFlight /\ DOMAIN active' = DOMAIN active
      /\ cdbQueue' = cdbQueue /\ Committed' = Committed
      /\ \A j \in DOMAIN active : j # k => active'[j] = active[j]
    BY VisitMoves DEF TimesInv
<1> QED
    BY <1>1 DEF RecordsOnly, LoopPasses

\* Where k stands when it is visited.
LEMMA VisitedRow ==
    ASSUME TimesInv, NEW k \in todo, VisitAnyTiming(k)
    PROVE  /\ k \in Ids /\ k \in DOMAIN active /\ DOMAIN active' = DOMAIN active
           /\ k \notin DOMAIN cdbQueue' /\ k \notin Committed'
           /\ phase = "execute" /\ phase' = "execute" /\ ~Unvisited(k)'
           /\ ActiveTimes(k) /\ timeline[k] \in Times /\ cycle \in Nat
           /\ HavePassed(timeline[k], cycle, "execute", TRUE)
           /\ InSequence(timeline[k], InstructionOf(k), FALSE)
           /\ active[k].instr = InstructionOf(k) /\ active[k] \in ActiveRecords
<1>1. /\ QueueInv /\ TimelineTypeOK /\ TimesHavePassed /\ RowsShowProgress /\ RowsInSequence
    BY DEF TimesInv, RowsInv
<1>2. /\ phase = "execute" /\ phase' = "execute" /\ todo' = todo \ {k}
      /\ DOMAIN active' = DOMAIN active /\ cdbQueue' = cdbQueue /\ Committed' = Committed
      /\ k \in DOMAIN active
    BY <1>1, VisitMoves
<1>3. /\ k \in Ids /\ k \notin DOMAIN cdbQueue /\ k \notin Committed
    BY <1>1, <1>2, LoopFacts
<1>4. active[k].instr = InstructionOf(k) /\ active[k] \in ActiveRecords
    BY <1>1, <1>2, ActiveInFlight
<1>5. HavePassed(timeline[k], cycle, phase, Unvisited(k)) /\ Unvisited(k)
    BY <1>1, <1>2, <1>3 DEF TimesHavePassed, Unvisited
<1>6. HavePassed(timeline[k], cycle, "execute", TRUE)
    BY <1>2, <1>5 DEF HavePassed
<1>7. InSequence(timeline[k], InstructionOf(k), FALSE)
  <2>1. InSequence(timeline[k], InstructionOf(k), k \in Committed)
      BY <1>1, <1>3 DEF RowsInSequence
  <2> QED
      BY <1>3, <2>1 DEF InSequence
<1> QED
    BY <1>1, <1>2, <1>3, <1>4, <1>6, <1>7 DEF Unvisited, TimelineTypeOK, RowsShowProgress

\* An executing instruction is counted down, a waiting one waits.
LEMMA ProceedRows == ASSUME TimesInv, NEW k \in todo, Proceed(k) \/ WaitStalled(k) PROVE RowsInv'
<1>1. /\ VisitAnyTiming(k) /\ timeline' = timeline /\ cycle' = cycle /\ [NextSim]_varsSim
    BY DEF Proceed, WaitStalled, WaitL1D, VisitAnyTiming, recordVars, NextSim
<1>2. RecordsOnly(k) /\ LoopPasses
    BY <1>1, VisitRecordsOnly
<1>3. /\ k \in Ids /\ k \in DOMAIN active /\ DOMAIN active' = DOMAIN active
      /\ k \notin DOMAIN cdbQueue' /\ k \notin Committed'
      /\ phase = "execute" /\ phase' = "execute" /\ ~Unvisited(k)'
      /\ ActiveTimes(k) /\ timeline[k] \in Times /\ cycle \in Nat
      /\ InSequence(timeline[k], InstructionOf(k), FALSE) /\ active[k] \in ActiveRecords
    BY <1>1, VisitedRow
<1>4. HavePassed(timeline'[k], cycle', phase', Unvisited(k)')
    BY <1>1, <1>2, <1>3, RowStays
<1>5. timeline' \in [Ids -> Times]
    BY <1>1 DEF TimesInv, RowsInv, TimelineTypeOK
<1>6. ActiveTimes(k)'
  <2>1. timeline[k].start \in Int /\ active[k].remaining \in Int
      BY <1>3, RowTypes DEF ActiveRecords
  <2>2. CASE Proceed(k)
    <3>1. active[k].executing /\ active' = [active EXCEPT ![k].remaining = @ - 1]
        BY <2>2 DEF Proceed, Progress
    <3>2. /\ active'[k].executing /\ active'[k].instr = active[k].instr
          /\ active'[k].predictedTaken = active[k].predictedTaken
          /\ active'[k].remaining = active[k].remaining - 1
        BY <1>3, <3>1 DEF ActiveRecords
    <3>3. Unvisited(k)
        BY <1>3 DEF Unvisited
    <3>4. Executed(k)' = Executed(k) + 1 /\ Executed(k) \in Int
        BY <1>1, <1>3, <2>1, <3>3 DEF Executed
    <3>5. Executed(k)' + active'[k].remaining = Executed(k) + active[k].remaining
        BY <2>1, <3>2, <3>4
    <3> QED
        BY <1>1, <1>3, <3>1, <3>2, <3>5 DEF ActiveTimes
  <2>3. CASE WaitStalled(k)
    <3>1. ~active[k].executing /\ active' = [active EXCEPT ![k] = Checked(k)]
        BY <2>3 DEF WaitStalled, WaitL1D, Hold
    <3>2. /\ ~active'[k].executing /\ active'[k].instr = active[k].instr
          /\ active'[k].predictedTaken = active[k].predictedTaken
          /\ active'[k].remaining = active[k].remaining
        BY <1>3, <3>1, CheckedFields, LoopFacts DEF TimesInv
    <3> QED
        BY <1>1, <1>3, <3>1, <3>2 DEF ActiveTimes
  <2> QED
      BY <2>2, <2>3
<1>7. InSequence(timeline'[k], InstructionOf(k), k \in Committed')
    BY <1>1, <1>3 DEF InSequence
<1> QED
    BY <1>1, <1>2, <1>3, <1>4, <1>5, <1>6, <1>7, OtherRows

\* An instruction starts in a later cycle than it is issued in, with the latency
\* of its class or one that the cache may answer.
LEMMA StartRows == ASSUME TimesInv, NEW k \in todo, StartRecorded(k) PROVE RowsInv'
<1>1. /\ timeline' = [timeline EXCEPT ![k].start = cycle] /\ cycle' = cycle
      /\ (StartAccess(k) \/ StartWithoutCache(k)) /\ [NextSim]_varsSim
    BY DEF StartRecorded, NextSim
<1>2. TypeInv /\ timeline \in [Ids -> Times]
    BY LoopFacts DEF TimesInv, RowsInv, TimelineTypeOK
<1>3. PICK latency \in Nat \ {0} :
           StartWith(k, latency) /\ (ActiveTimes(k) => latency \in Latencies(active[k].instr))
  <2>1. ASSUME StartAccess(k)
        PROVE  \E l \in Nat \ {0} : StartWith(k, l) /\ l \in Latencies(active[k].instr)
    <3>1. PICK l : l = L1D!access(Unsigned(Address(k)), IsStore(k)).latency
        OBVIOUS
    <3>2. l \in Nat \ {0} /\ l \in {HitLatency, HitLatency + MissPenalty}
        BY <3>1, AccessLatency DEF L1D!access
    <3> QED
        BY <2>1, <3>1, <3>2 DEF StartAccess, UsesCache, Latencies
  <2>2. ASSUME StartWithoutCache(k)
        PROVE  \E l \in Nat \ {0} :
                  StartWith(k, l) /\ (ActiveTimes(k) => l \in Latencies(active[k].instr))
    <3>1. Start(k) /\ startLatency(k) \in Nat \ {0} /\ ~UsesCache(k) /\ ~active[k].executing
        BY <1>2, <2>2, StartLatencyType DEF StartWithoutCache, Start, StartWith
    <3>2. ActiveTimes(k) => startLatency(k) \in Latencies(active[k].instr)
        BY <3>1 DEF ActiveTimes, startLatency, UsesCache, Latencies
    <3> QED
        BY <3>1, <3>2 DEF Start
  <2> QED
      BY <1>1, <2>1, <2>2
<1>4. VisitAnyTiming(k)
    BY <1>3 DEF VisitAnyTiming
<1>5. /\ k \in Ids /\ k \in DOMAIN active /\ DOMAIN active' = DOMAIN active
      /\ k \notin DOMAIN cdbQueue' /\ k \notin Committed'
      /\ phase = "execute" /\ phase' = "execute" /\ ~Unvisited(k)'
      /\ ActiveTimes(k) /\ timeline[k] \in Times /\ cycle \in Nat
      /\ HavePassed(timeline[k], cycle, "execute", TRUE)
      /\ InSequence(timeline[k], InstructionOf(k), FALSE)
    BY <1>4, VisitedRow
<1>6. PICK now \in Nat : now = cycle
    BY <1>5
<1>7. PICK t \in Times : t = timeline[k]
    BY <1>5
<1>8. timeline'[k] = [t EXCEPT !.start = now] /\ \A j \in Ids : j # k => timeline'[j] = timeline[j]
    BY <1>1, <1>2, <1>5, <1>6, <1>7
<1>9. PICK row : row = [t EXCEPT !.start = now]
    OBVIOUS
<1>10. /\ row \in Times /\ row.start = now /\ row.issue = t.issue /\ row.end = t.end
       /\ row.writeback = t.writeback /\ row.commit = t.commit /\ row.flush = t.flush
       /\ row.predictedTaken = t.predictedTaken
    BY <1>9 DEF Times, Moments
<1>11. RecordsOnly(k) /\ LoopPasses
    BY <1>1, <1>4, <1>8, VisitRecordsOnly
<1>12. timeline' \in [Ids -> Times]
    BY <1>1, <1>2, <1>5, <1>8, <1>9, <1>10
<1>13. /\ active'[k].executing /\ active'[k].instr = active[k].instr
       /\ active'[k].remaining = latency - 1
       /\ active'[k].predictedTaken = active[k].predictedTaken
       /\ ~active[k].executing
    BY <1>2, <1>3, <1>4, StartedFields, VisitedFields
<1>14. t.start = NotYet /\ t.end = NotYet /\ t.writeback = NotYet
       /\ t.predictedTaken = active[k].predictedTaken
    BY <1>5, <1>7, <1>13 DEF ActiveTimes
<1>15. HavePassed(t, now, "execute", TRUE)
    BY <1>5, <1>6, <1>7
<1>16. HavePassed(row, now, "execute", FALSE)
    BY <1>10, <1>15 DEF HavePassed
<1>17. ActiveTimes(k)'
  <2>1. Executed(k)' = 1
    <3>1. timeline'[k].start = now /\ cycle' = now
        BY <1>1, <1>6, <1>8, <1>9, <1>10
    <3>2. Executed(k)' = now - now + 1
        BY <1>5, <3>1 DEF Executed
    <3> QED
        BY <3>2
  <2>2. Executed(k)' + active'[k].remaining = latency
      BY <1>13, <2>1
  <2>3. latency \in Latencies(active'[k].instr)
      BY <1>3, <1>5, <1>13
  <2>4. timeline'[k] = row /\ row.start # NotYet
      BY <1>8, <1>9, <1>10 DEF NotYet
  <2> QED
      BY <1>10, <1>13, <1>14, <2>2, <2>3, <2>4 DEF ActiveTimes
<1>18. InSequence(row, InstructionOf(k), FALSE)
  <2>1. row.start > row.issue
      BY <1>10, <1>15 DEF HavePassed, Times
  <2>2. InSequence(t, InstructionOf(k), FALSE)
      BY <1>5, <1>7
  <2> QED
      BY <1>10, <1>14, <2>1, <2>2 DEF InSequence
<1>19. InSequence(timeline'[k], InstructionOf(k), k \in Committed')
    BY <1>5, <1>8, <1>9, <1>18 DEF InSequence
<1>20. HavePassed(timeline'[k], cycle', phase', Unvisited(k)')
    BY <1>1, <1>5, <1>6, <1>8, <1>9, <1>16 DEF HavePassed
<1> QED
    BY <1>1, <1>5, <1>11, <1>12, <1>17, <1>19, <1>20, OtherRows

\* A commit records its cycle, a later one than the instruction was written back in.
LEMMA CommitRows == ASSUME TimesInv, CommitRecorded PROVE RowsInv'
<1>1. PICK k : k = robEntries[robHead].id
    OBVIOUS
<1>2. /\ QueueInv /\ TimelineTypeOK /\ TimesHavePassed /\ RowsShowProgress /\ RowsInSequence
      /\ Commit /\ cycle' = cycle /\ timeline' = [timeline EXCEPT ![k].commit = cycle]
      /\ [NextSim]_varsSim
    BY <1>1 DEF TimesInv, RowsInv, CommitRecorded, NextSim
<1>3. /\ phase = "execute" /\ todo = {} /\ phase' = "broadcast" /\ todo' = todo
      /\ k \in InFlight /\ k \notin DOMAIN active \cup DOMAIN cdbQueue
      /\ Ids' = Ids /\ InFlight' = InFlight \ {k} /\ active' = active /\ cdbQueue' = cdbQueue
      /\ Committed' = Committed \cup {k}
    BY <1>1, <1>2, CommitMoves
<1>4. k \in Ids /\ k \notin Committed
    BY <1>2, <1>3, LoopFacts
<1>5. PICK now \in Nat : now = cycle
    BY <1>2 DEF TimelineTypeOK
<1>6. timeline \in [Ids -> Times]
    BY <1>2 DEF TimelineTypeOK
<1>7. PICK t \in Times : t = timeline[k]
    BY <1>4, <1>6
<1>8. PICK row : row = [t EXCEPT !.commit = now]
    OBVIOUS
<1>9. timeline'[k] = row /\ \A j \in Ids : j # k => timeline'[j] = timeline[j]
    BY <1>2, <1>4, <1>5, <1>6, <1>7, <1>8
<1>10. /\ row \in Times /\ row.start = t.start /\ row.issue = t.issue /\ row.end = t.end
       /\ row.writeback = t.writeback /\ row.commit = now /\ row.flush = t.flush
    BY <1>8 DEF Times, Moments
<1>11. timeline' \in [Ids -> Times]
    BY <1>2, <1>4, <1>6, <1>9, <1>10
<1>12. RecordsOnly(k) /\ LoopPasses
    BY <1>2, <1>3, <1>9 DEF RecordsOnly, LoopPasses
<1>13. HavePassed(t, now, "execute", FALSE)
  <2>1. HavePassed(t, now, phase, Unvisited(k)) /\ ~Unvisited(k)
      BY <1>2, <1>3, <1>4, <1>5, <1>7 DEF TimesHavePassed, Unvisited
  <2> QED
      BY <1>3, <2>1 DEF HavePassed
<1>14. HavePassed(timeline'[k], cycle', phase', Unvisited(k)')
  <2>1. HavePassed(row, now, "broadcast", FALSE)
      BY <1>10, <1>13 DEF HavePassed
  <2>2. ~Unvisited(k)'
      BY <1>3 DEF Unvisited
  <2> QED
      BY <1>2, <1>3, <1>5, <1>9, <2>1, <2>2 DEF HavePassed
<1>15. t.writeback # NotYet
    BY <1>2, <1>3, <1>7 DEF RowsShowProgress
<1>16. InSequence(row, InstructionOf(k), TRUE)
  <2>1. InSequence(t, InstructionOf(k), FALSE)
    <3>1. InSequence(t, InstructionOf(k), k \in Committed)
        BY <1>2, <1>4, <1>7 DEF RowsInSequence
    <3> QED
        BY <1>4, <3>1 DEF InSequence
  <2>2. row.commit > row.writeback /\ row.commit # NotYet
      BY <1>10, <1>13, RowTypes DEF HavePassed, NotYet
  <2> QED
      BY <1>10, <1>15, <2>1, <2>2 DEF InSequence
<1>17. InSequence(timeline'[k], InstructionOf(k), k \in Committed')
    BY <1>3, <1>9, <1>16 DEF InSequence
<1> QED
    BY <1>2, <1>3, <1>4, <1>11, <1>12, <1>14, <1>17, OtherRows

\* A broadcast records its cycle, a later one than the instruction ended in.
LEMMA BroadcastRows == ASSUME TimesInv, NEW k \in DOMAIN cdbQueue, BroadcastRecorded(k) PROVE RowsInv'
<1>1. /\ QueueInv /\ TimelineTypeOK /\ TimesHavePassed /\ RowsShowProgress /\ RowsInSequence
      /\ Broadcast(k) /\ cycle' = cycle /\ timeline' = [timeline EXCEPT ![k].writeback = cycle]
      /\ [NextSim]_varsSim
    BY DEF TimesInv, RowsInv, BroadcastRecorded, NextSim
<1>2. /\ phase = "broadcast" /\ phase' = "complete"
      /\ Ids' = Ids /\ InFlight' = InFlight /\ DOMAIN active' = DOMAIN active
      /\ DOMAIN cdbQueue' = DOMAIN cdbQueue \ {k} /\ Committed' = Committed
      /\ \A j \in DOMAIN active :
           /\ active'[j].instr = active[j].instr
           /\ active'[j].executing = active[j].executing
           /\ active'[j].remaining = active[j].remaining
           /\ active'[j].predictedTaken = active[j].predictedTaken
    BY <1>1, BroadcastMoves
<1>3. k \in Ids /\ k \notin Committed /\ k \notin DOMAIN active
    BY <1>1, LoopFacts
<1>4. PICK now \in Nat : now = cycle
    BY <1>1 DEF TimelineTypeOK
<1>5. timeline \in [Ids -> Times]
    BY <1>1 DEF TimelineTypeOK
<1>6. PICK t \in Times : t = timeline[k]
    BY <1>3, <1>5
<1>7. PICK row : row = [t EXCEPT !.writeback = now]
    OBVIOUS
<1>8. timeline'[k] = row /\ \A j \in Ids : j # k => timeline'[j] = timeline[j]
    BY <1>1, <1>3, <1>4, <1>5, <1>6, <1>7
<1>9. /\ row \in Times /\ row.start = t.start /\ row.issue = t.issue /\ row.end = t.end
      /\ row.writeback = now /\ row.commit = t.commit /\ row.flush = t.flush
    BY <1>7 DEF Times, Moments
<1>10. timeline' \in [Ids -> Times]
    BY <1>1, <1>3, <1>5, <1>8, <1>9
<1>11. RecordsOnly(k) /\ LoopPasses
    BY <1>1, <1>2, <1>8 DEF RecordsOnly, LoopPasses
<1>12. HavePassed(t, now, "broadcast", FALSE)
  <2>1. HavePassed(t, now, phase, Unvisited(k)) /\ ~Unvisited(k)
      BY <1>1, <1>2, <1>3, <1>4, <1>6 DEF TimesHavePassed, Unvisited
  <2> QED
      BY <1>2, <2>1 DEF HavePassed
<1>13. HavePassed(timeline'[k], cycle', phase', Unvisited(k)')
  <2>1. HavePassed(row, now, "complete", FALSE)
      BY <1>9, <1>12 DEF HavePassed
  <2>2. ~Unvisited(k)'
      BY <1>2 DEF Unvisited
  <2> QED
      BY <1>1, <1>2, <1>4, <1>8, <2>1, <2>2 DEF HavePassed
<1>14. t.end # NotYet /\ t.writeback = NotYet /\ writesRegister(InstructionOf(k))
    BY <1>1, <1>6 DEF RowsShowProgress, OnBusTimes
<1>15. InSequence(row, InstructionOf(k), FALSE)
  <2>1. InSequence(t, InstructionOf(k), FALSE)
    <3>1. InSequence(t, InstructionOf(k), k \in Committed)
        BY <1>1, <1>3, <1>6 DEF RowsInSequence
    <3> QED
        BY <1>3, <3>1 DEF InSequence
  <2>2. row.writeback > row.end
      BY <1>9, <1>12, RowTypes DEF HavePassed
  <2> QED
      BY <1>9, <1>14, <2>1, <2>2 DEF InSequence
<1>16. InSequence(timeline'[k], InstructionOf(k), k \in Committed')
    BY <1>2, <1>3, <1>8, <1>15 DEF InSequence
<1>17. timeline'[k].writeback # NotYet
    BY <1>4, <1>8, <1>9 DEF NotYet
<1> QED
    BY <1>1, <1>2, <1>3, <1>10, <1>11, <1>13, <1>16, <1>17, OtherRows

\* Whatever completes ends in this cycle, and has executed for its latency.
LEMMA CompletedRow ==
    ASSUME TimesInv, NEW k \in todo, Complete(k)
    PROVE  /\ k \in Ids /\ k \in DOMAIN active /\ k \notin Committed
           /\ timeline[k] \in Times /\ cycle \in Nat /\ active[k].instr = InstructionOf(k)
           /\ HavePassed(timeline[k], cycle, "complete", FALSE)
           /\ InSequence(timeline[k], InstructionOf(k), FALSE)
           /\ timeline[k].start # NotYet /\ timeline[k].start <= cycle
           /\ cycle - timeline[k].start + 1 \in Latencies(InstructionOf(k))
           /\ timeline[k].end = NotYet /\ timeline[k].writeback = NotYet
           /\ timeline[k].predictedTaken = active[k].predictedTaken
<1>1. /\ QueueInv /\ TimelineTypeOK /\ TimesHavePassed /\ RowsShowProgress /\ RowsInSequence
    BY DEF TimesInv, RowsInv
<1>2. phase = "complete" /\ k \in DOMAIN active /\ active[k].executing
    BY <1>1, LoopFacts, FinishedExecutes DEF Complete
<1>3. k \in Ids /\ k \notin Committed /\ TypeInv
    BY <1>1, <1>2, LoopFacts
<1>4. active[k].remaining = 0
    BY <1>1, <1>2, LoopFacts DEF FateInv, VisitsFinished
<1>5. active[k].instr = InstructionOf(k)
    BY <1>1, <1>2, ActiveInFlight
<1>6. timeline[k] \in Times /\ cycle \in Nat /\ timeline[k].start \in Int
    BY <1>1, <1>3, RowTypes DEF TimelineTypeOK
<1>7. ActiveTimes(k)
    BY <1>1, <1>2 DEF RowsShowProgress
<1>8. Executed(k) = cycle - timeline[k].start + 1
    BY <1>2 DEF Executed, Unvisited
<1>9. Executed(k) + active[k].remaining = cycle - timeline[k].start + 1
    BY <1>4, <1>6, <1>8
<1>10. HavePassed(timeline[k], cycle, "complete", FALSE) /\ timeline[k].start <= cycle
  <2>1. HavePassed(timeline[k], cycle, phase, Unvisited(k)) /\ ~Unvisited(k)
      BY <1>1, <1>2, <1>3 DEF TimesHavePassed, Unvisited
  <2> QED
      BY <1>2, <2>1 DEF HavePassed
<1>11. InSequence(timeline[k], InstructionOf(k), FALSE)
  <2>1. InSequence(timeline[k], InstructionOf(k), k \in Committed)
      BY <1>1, <1>3 DEF RowsInSequence
  <2> QED
      BY <1>3, <2>1 DEF InSequence
<1> QED
    BY <1>2, <1>3, <1>5, <1>6, <1>7, <1>9, <1>10, <1>11 DEF ActiveTimes

\* The row of an instruction that ends now: a result goes to the bus, a store or
\* a branch is written back as it ends.
EndsNow(t, row, i, now) ==
    /\ row \in Times /\ row.issue = t.issue /\ row.start = t.start /\ row.end = now
    /\ row.writeback = (IF writesRegister(i) THEN NotYet ELSE now)
    /\ row.commit = t.commit /\ row.flush = t.flush /\ row.predictedTaken = t.predictedTaken

LEMMA EndedRow ==
    ASSUME TimesInv, NEW k \in todo, Complete(k), NEW row,
           EndsNow(timeline[k], row, InstructionOf(k), cycle)
    PROVE  /\ HavePassed(row, cycle, "complete", FALSE)
           /\ InSequence(row, InstructionOf(k), FALSE)
           /\ row.end # NotYet /\ (~writesRegister(InstructionOf(k)) => row.writeback # NotYet)
<1>1. PICK now \in Nat : now = cycle
    BY DEF TimesInv, RowsInv, TimelineTypeOK
<1>2. PICK t \in Times : t = timeline[k]
    BY CompletedRow
<1>3. PICK i : i = InstructionOf(k)
    OBVIOUS
<1>4. EndsNow(t, row, i, now)
    BY <1>1, <1>2, <1>3
<1>5. /\ HavePassed(t, now, "complete", FALSE) /\ InSequence(t, i, FALSE) /\ t.start # NotYet
      /\ now - t.start + 1 \in Latencies(i)
    BY <1>1, <1>2, <1>3, CompletedRow
<1>6. HavePassed(row, now, "complete", FALSE)
  <2>1. row.writeback <= now
      BY <1>4 DEF EndsNow, NotYet
  <2> QED
      BY <1>4, <1>5, <2>1 DEF HavePassed, EndsNow
<1>7. InSequence(row, i, FALSE)
    BY <1>4, <1>5 DEF InSequence, EndsNow
<1>8. row.end # NotYet /\ (~writesRegister(i) => row.writeback # NotYet)
    BY <1>4 DEF EndsNow, NotYet
<1> QED
    BY <1>1, <1>3, <1>6, <1>7, <1>8

\* A completion that flushes nothing.
LEMMA CompletionRows ==
    ASSUME TimesInv, [NextSim]_varsSim, NEW k \in todo,
           CompleteRegister(k) \/ CompleteStore(k) \/ ResolveCorrect(k), cycle' = cycle,
           timeline' \in [Ids -> Times],
           EndsNow(timeline[k], timeline'[k], InstructionOf(k), cycle),
           \A j \in Ids : j # k => timeline'[j] = timeline[j]
    PROVE  RowsInv'
<1>1. QueueInv /\ Complete(k)
    BY DEF TimesInv, CompleteRegister, CompleteStore, ResolveCorrect
<1>2. /\ phase = "complete" /\ phase' = "complete" /\ todo' = todo \ {k} /\ k \in DOMAIN active
      /\ Ids' = Ids /\ InFlight' = InFlight /\ DOMAIN active' = DOMAIN active \ {k}
      /\ Committed' = Committed /\ \A j \in DOMAIN active' : active'[j] = active[j]
      /\ DOMAIN cdbQueue' = IF writesRegister(active[k].instr)
                            THEN DOMAIN cdbQueue \cup {k} ELSE DOMAIN cdbQueue
    BY <1>1, CompletionMoves
<1>3. k \in Ids /\ k \notin Committed /\ active[k].instr = InstructionOf(k)
    BY <1>1, CompletedRow
<1>4. k \notin DOMAIN cdbQueue
    BY <1>1, <1>2, LoopFacts
<1>5. RecordsOnly(k) /\ LoopPasses
    BY <1>2 DEF RecordsOnly, LoopPasses
<1>6. /\ HavePassed(timeline'[k], cycle, "complete", FALSE)
      /\ InSequence(timeline'[k], InstructionOf(k), FALSE)
      /\ timeline'[k].end # NotYet
      /\ ~writesRegister(InstructionOf(k)) => timeline'[k].writeback # NotYet
    BY <1>1, EndedRow
<1>7. HavePassed(timeline'[k], cycle', phase', Unvisited(k)')
  <2>1. ~Unvisited(k)'
      BY <1>2 DEF Unvisited
  <2> QED
      BY <1>2, <1>6, <2>1 DEF HavePassed
<1>8. InSequence(timeline'[k], InstructionOf(k), k \in Committed')
    BY <1>2, <1>3, <1>6 DEF InSequence
<1>9. ASSUME k \in DOMAIN cdbQueue' PROVE OnBusTimes(k)'
  <2>1. writesRegister(InstructionOf(k))
      BY <1>2, <1>3, <1>4, <1>9
  <2>2. timeline'[k].writeback = NotYet
      BY <2>1 DEF EndsNow
  <2>3. InstructionOf(k)' = InstructionOf(k)
      BY <1>1, <1>3, SimulatorSteps
  <2> QED
      BY <1>6, <2>1, <2>2, <2>3 DEF OnBusTimes
<1>10. k \in InFlight' \ (DOMAIN active' \cup DOMAIN cdbQueue') => timeline'[k].writeback # NotYet
    BY <1>2, <1>3, <1>6
<1> QED
    BY <1>2, <1>3, <1>5, <1>7, <1>8, <1>9, <1>10, OtherRows

LEMMA CompleteRows == ASSUME TimesInv, NEW k \in todo, CompleteRecorded(k) PROVE RowsInv'
<1>1. /\ CompleteL1D(k) /\ ~IsBranch(active[k].instr) /\ cycle' = cycle /\ [NextSim]_varsSim
      /\ timeline' = [timeline EXCEPT ![k].end = cycle,
                                      ![k].writeback = IF IsStore(k) THEN cycle ELSE @]
    BY DEF CompleteRecorded, Leaves, NextSim
<1>2. CompleteRegister(k) \/ CompleteStore(k)
    BY <1>1 DEF CompleteL1D, ResolveCorrect
<1>3. /\ k \in Ids /\ k \in DOMAIN active /\ timeline[k] \in Times /\ cycle \in Nat
      /\ active[k].instr = InstructionOf(k) /\ timeline[k].writeback = NotYet
    BY <1>2, CompletedRow DEF CompleteRegister, CompleteStore
<1>4. IsStore(k) <=> ~writesRegister(InstructionOf(k))
  <2>1. CASE CompleteRegister(k)
      BY <1>3, <2>1, StoresAndBranchesWriteNone, LoopFacts
      DEF CompleteRegister, IsStore, writesRegister, TimesInv
  <2>2. CASE CompleteStore(k)
      BY <1>3, <2>2, StoresAndBranchesWriteNone, LoopFacts
      DEF CompleteStore, IsStore, writesRegister, TimesInv
  <2> QED
      BY <1>2, <2>1, <2>2
<1>5. timeline \in [Ids -> Times]
    BY DEF TimesInv, RowsInv, TimelineTypeOK
<1>6. PICK row : row = [timeline[k] EXCEPT !.end = cycle,
                                           !.writeback = IF IsStore(k) THEN cycle ELSE @]
    OBVIOUS
<1>7. timeline' = [timeline EXCEPT ![k] = row]
    BY <1>1, <1>3, <1>5, <1>6
<1>8. EndsNow(timeline[k], row, InstructionOf(k), cycle)
    BY <1>3, <1>4, <1>6 DEF EndsNow, Times, Moments
<1>9. /\ timeline' \in [Ids -> Times] /\ timeline'[k] = row
      /\ \A j \in Ids : j # k => timeline'[j] = timeline[j]
    BY <1>3, <1>5, <1>7, <1>8 DEF EndsNow
<1> QED
    BY <1>1, <1>2, <1>8, <1>9, CompletionRows

\* What a branch records as it resolves.
LEMMA ResolvedRow ==
    ASSUME TimesInv, NEW k \in todo, Complete(k), IsBranch(active[k].instr)
    PROVE  /\ Resolved(k) \in [Ids -> Times]
           /\ EndsNow(timeline[k], Resolved(k)[k], InstructionOf(k), cycle)
           /\ Resolved(k)[k].actualTaken = ActualTaken(k)
           /\ \A j \in Ids : j # k => Resolved(k)[j] = timeline[j]
<1>1. /\ k \in Ids /\ k \in DOMAIN active /\ timeline[k] \in Times /\ cycle \in Nat
      /\ active[k].instr = InstructionOf(k)
    BY CompletedRow
<1>2. ~writesRegister(InstructionOf(k))
    BY <1>1, StoresAndBranchesWriteNone, LoopFacts DEF writesRegister, TimesInv
<1>3. timeline \in [Ids -> Times]
    BY DEF TimesInv, RowsInv, TimelineTypeOK
<1>4. PICK taken \in BOOLEAN : taken = ActualTaken(k)
    BY <1>1 DEF ActualTaken, branchTaken
<1>5. PICK row : row = [timeline[k] EXCEPT !.end = cycle, !.writeback = cycle,
                                           !.actualTaken = taken]
    OBVIOUS
<1>6. Resolved(k) = [timeline EXCEPT ![k] = row]
    BY <1>1, <1>3, <1>4, <1>5 DEF Resolved
<1>7. EndsNow(timeline[k], row, InstructionOf(k), cycle) /\ row.actualTaken = taken
    BY <1>1, <1>2, <1>5 DEF EndsNow, Times, Moments
<1> QED
    BY <1>1, <1>3, <1>4, <1>6, <1>7 DEF EndsNow

LEMMA ResolveCorrectRows ==
    ASSUME TimesInv, NEW k \in todo, ResolveRecorded(k), CompleteL1D(k), timeline' = Resolved(k)
    PROVE  RowsInv'
<1>1. /\ IsBranch(active[k].instr) /\ cycle' = cycle /\ [NextSim]_varsSim
    BY DEF ResolveRecorded, Leaves, NextSim
<1>2. CompleteRegister(k) \/ CompleteStore(k) \/ ResolveCorrect(k)
    BY DEF CompleteL1D
<1>3. Complete(k)
    BY <1>2 DEF CompleteRegister, CompleteStore, ResolveCorrect
<1> QED
    BY <1>1, <1>2, <1>3, ResolvedRow, CompletionRows

\* The rows of what a misprediction flushes.
LEMMA FlushedRows ==
    ASSUME TimesInv, NEW k \in todo, ResolveMispredicted(k),
           timeline' = TimesFlushed(k, Resolved(k))
    PROVE  /\ timeline' \in [Ids -> Times] /\ timeline'[k] = Resolved(k)[k]
           /\ \A j \in Ids : j < k => timeline'[j] = timeline[j]
           /\ \A j \in Ids : j > k => timeline'[j] = IF j \in Committed THEN timeline[j]
                                       ELSE [timeline[j] EXCEPT !.flush = cycle]
<1>1. /\ Complete(k) /\ IsBranch(active[k].instr) /\ QueueInv
    BY DEF ResolveMispredicted, TimesInv
<1>2. Ids \subseteq Nat /\ k \in Ids /\ DOMAIN statusTable = Ids /\ cycle \in Nat
    BY <1>1, LoopFacts, CompletedRow
<1>3. Resolved(k) \in [Ids -> Times] /\ \A j \in Ids : j # k => Resolved(k)[j] = timeline[j]
    BY <1>1, ResolvedRow
<1>4. \A j \in Ids : statusTable[j].committed <=> j \in Committed
    BY <1>2 DEF Committed
<1>5. PICK times \in [Ids -> Times] : times = Resolved(k)
    BY <1>3
<1>6. timeline' = [j \in Ids |-> IF j > k /\ j \notin Committed
                                 THEN [times[j] EXCEPT !.flush = cycle] ELSE times[j]]
    BY <1>4, <1>5 DEF TimesFlushed
<1>7. \A j \in Ids : [times[j] EXCEPT !.flush = cycle] \in Times
    BY <1>2 DEF Times, Moments
<1>8. timeline' \in [Ids -> Times]
    BY <1>6, <1>7
<1>9. timeline'[k] = times[k]
    BY <1>2, <1>6
<1>10. \A j \in Ids : j < k => timeline'[j] = times[j]
    BY <1>2, <1>6
<1>11. \A j \in Ids : j > k => timeline'[j] = IF j \in Committed THEN times[j]
                                      ELSE [times[j] EXCEPT !.flush = cycle]
    BY <1>2, <1>6
<1> QED
    BY <1>2, <1>3, <1>5, <1>8, <1>9, <1>10, <1>11

LEMMA ResolveMispredictedRows ==
    ASSUME TimesInv, NEW k \in todo, ResolveRecorded(k), ResolveMispredicted(k),
           timeline' = TimesFlushed(k, Resolved(k))
    PROVE  RowsInv'
<1>1. /\ QueueInv /\ TimelineTypeOK /\ TimesHavePassed /\ RowsShowProgress /\ RowsInSequence
      /\ IsBranch(active[k].instr) /\ cycle' = cycle /\ [NextSim]_varsSim /\ Complete(k)
    BY DEF TimesInv, RowsInv, ResolveRecorded, ResolveMispredicted, Leaves, NextSim
<1>2. /\ phase = "complete" /\ phase' = "complete" /\ todo' = {j \in todo : j < k}
      /\ k \in DOMAIN active /\ Ids' = Ids /\ InFlight' = {i \in InFlight : i <= k}
      /\ DOMAIN active' = {j \in DOMAIN active : j < k}
      /\ DOMAIN cdbQueue' = {j \in DOMAIN cdbQueue : j < k}
      /\ Committed' = Committed
      /\ \A j \in DOMAIN active' : active'[j] = active[j]
    BY <1>1, MispredictionMoves
<1>3. /\ k \in Ids /\ Ids \subseteq Nat /\ InFlight \subseteq Ids /\ DOMAIN active \subseteq InFlight
      /\ DOMAIN cdbQueue \subseteq InFlight /\ k \notin Committed /\ k \notin DOMAIN cdbQueue
      /\ \A j \in Ids : InstructionOf(j)' = InstructionOf(j)
    BY <1>1, <1>2, LoopFacts, SimulatorSteps
<1>4. /\ timeline' \in [Ids -> Times] /\ timeline'[k] = Resolved(k)[k]
      /\ \A j \in Ids : j < k => timeline'[j] = timeline[j]
      /\ \A j \in Ids : j > k => timeline'[j] = IF j \in Committed THEN timeline[j]
                                  ELSE [timeline[j] EXCEPT !.flush = cycle]
    BY FlushedRows
<1>5. EndsNow(timeline[k], timeline'[k], InstructionOf(k), cycle)
    BY <1>1, <1>4, ResolvedRow
<1>6. /\ HavePassed(timeline'[k], cycle, "complete", FALSE)
      /\ InSequence(timeline'[k], InstructionOf(k), FALSE)
      /\ ~writesRegister(InstructionOf(k)) => timeline'[k].writeback # NotYet
    BY <1>1, <1>5, EndedRow
<1>7. LoopPasses
    BY <1>1, <1>2 DEF LoopPasses
<1>8. TimelineTypeOK'
    BY <1>1, <1>2, <1>4 DEF TimelineTypeOK
<1>9. ASSUME NEW j \in Ids, j > k, j \notin Committed
      PROVE  /\ HavePassed(timeline'[j], cycle, "complete", FALSE)
             /\ InSequence(timeline'[j], InstructionOf(j), FALSE)
  <2>1. PICK t \in Times : t = timeline[j]
      BY <1>1 DEF TimelineTypeOK
  <2>2. PICK now \in Nat : now = cycle
      BY <1>1 DEF TimelineTypeOK
  <2>3. PICK row : row = [t EXCEPT !.flush = now]
      OBVIOUS
  <2>4. timeline'[j] = row
      BY <1>4, <1>9, <2>1, <2>2, <2>3
  <2>5. /\ row.issue = t.issue /\ row.start = t.start /\ row.end = t.end
        /\ row.writeback = t.writeback /\ row.commit = t.commit /\ row.flush = now
      BY <2>3 DEF Times
  <2>6. HavePassed(t, now, "complete", FALSE)
    <3>1. HavePassed(t, now, phase, Unvisited(j)) /\ ~Unvisited(j)
        BY <1>1, <1>2, <2>1, <2>2 DEF TimesHavePassed, Unvisited
    <3> QED
        BY <1>2, <3>1 DEF HavePassed
  <2>7. HavePassed(row, now, "complete", FALSE)
      BY <2>5, <2>6 DEF HavePassed
  <2>8. InSequence(t, InstructionOf(j), FALSE)
    <3>1. InSequence(t, InstructionOf(j), j \in Committed)
        BY <1>1, <2>1 DEF RowsInSequence
    <3> QED
        BY <1>9, <3>1 DEF InSequence
  <2>9. InSequence(row, InstructionOf(j), FALSE)
      BY <2>5, <2>8 DEF InSequence
  <2> QED
      BY <2>2, <2>4, <2>7, <2>9
<1>10. TimesHavePassed'
  <2>1. ASSUME NEW j \in Ids PROVE HavePassed(timeline'[j], cycle', phase', Unvisited(j)')
    <3>1. CASE j < k \/ j \in Committed
      <4>1. timeline'[j] = timeline[j]
          BY <1>3, <1>4, <3>1
      <4> QED
          BY <1>7, <4>1, RowStays
    <3>2. CASE ~(j < k) /\ j \notin Committed
      <4>1. HavePassed(timeline'[j], cycle, "complete", FALSE)
        <5>1. j = k \/ j > k
            BY <1>3, <3>2
        <5> QED
            BY <1>6, <1>9, <3>2, <5>1
      <4>2. ~Unvisited(j)'
          BY <1>2 DEF Unvisited
      <4> QED
          BY <1>1, <1>2, <4>1, <4>2 DEF HavePassed
    <3> QED
        BY <3>1, <3>2
  <2> QED
      BY <1>2, <2>1 DEF TimesHavePassed
<1>11. ASSUME NEW j \in DOMAIN active' PROVE ActiveTimes(j)'
  <2>1. j \in DOMAIN active /\ j \in Ids /\ j < k /\ active'[j] = active[j]
      BY <1>2, <1>3
  <2>2. timeline'[j] = timeline[j]
      BY <1>4, <2>1
  <2> QED
      BY <1>2, <1>7, <2>1, <2>2, ActiveStays
<1>12. ASSUME NEW j \in DOMAIN cdbQueue' PROVE OnBusTimes(j)'
  <2>1. j \in DOMAIN cdbQueue /\ j \in Ids /\ j < k
      BY <1>2, <1>3
  <2>2. timeline'[j] = timeline[j] /\ InstructionOf(j)' = InstructionOf(j)
      BY <1>3, <1>4, <2>1
  <2> QED
      BY <1>1, <2>1, <2>2 DEF RowsShowProgress, OnBusTimes
<1>13. ASSUME NEW j \in InFlight' \ (DOMAIN active' \cup DOMAIN cdbQueue')
       PROVE  timeline'[j].writeback # NotYet
  <2>1. CASE j = k
    <3>1. ~writesRegister(InstructionOf(k))
      <4>1. active[k].instr.rd = None /\ active[k].instr = InstructionOf(k)
          BY <1>1, <1>2, StoresAndBranchesWriteNone, LoopFacts, CompletedRow
      <4> QED
          BY <4>1 DEF writesRegister
    <3> QED
        BY <1>6, <2>1, <3>1
  <2>2. CASE j # k
    <3>1. j \in InFlight \ (DOMAIN active \cup DOMAIN cdbQueue) /\ j \in Ids /\ j < k
        BY <1>2, <1>3, <2>2
    <3>2. timeline'[j] = timeline[j]
        BY <1>4, <3>1
    <3> QED
        BY <1>1, <3>1, <3>2 DEF RowsShowProgress
  <2> QED
      BY <2>1, <2>2
<1>14. RowsShowProgress'
    BY <1>11, <1>12, <1>13 DEF RowsShowProgress
<1>15. RowsInSequence'
  <2>1. ASSUME NEW j \in Ids
        PROVE  InSequence(timeline'[j], InstructionOf(j), j \in Committed')
    <3>1. CASE j < k \/ j \in Committed
      <4>1. timeline'[j] = timeline[j]
          BY <1>3, <1>4, <3>1
      <4>2. InSequence(timeline[j], InstructionOf(j), j \in Committed)
          BY <1>1 DEF RowsInSequence
      <4> QED
          BY <1>2, <4>1, <4>2
    <3>2. CASE ~(j < k) /\ j \notin Committed
      <4>1. j = k \/ j > k
          BY <1>3, <3>2
      <4>2. InSequence(timeline'[j], InstructionOf(j), FALSE)
          BY <1>6, <1>9, <3>2, <4>1
      <4> QED
          BY <1>2, <3>2, <4>2 DEF InSequence
    <3> QED
        BY <3>1, <3>2
  <2> QED
      BY <1>2, <1>3, <2>1 DEF RowsInSequence
<1> QED
    BY <1>8, <1>10, <1>14, <1>15 DEF RowsInv

LEMMA NextRows == TimesInv /\ [NextSim]_varsSim => TimesInv'
<1> SUFFICES ASSUME TimesInv, [NextSim]_varsSim PROVE TimesInv'
    OBVIOUS
<1>1. QueueInv'
    BY SimulatorSteps DEF TimesInv
<1>2. ASSUME IssuePredicted PROVE RowsInv'
    BY <1>2, IssueRows
<1>3. ASSUME RecordsNoStage PROVE RowsInv'
    BY <1>3, QuietRows
<1>4. ASSUME NEW k \in todo, Proceed(k) \/ WaitStalled(k) \/ StartRecorded(k)
      PROVE  RowsInv'
    BY <1>4, ProceedRows, StartRows
<1>5. ASSUME CommitRecorded PROVE RowsInv'
    BY <1>5, CommitRows
<1>6. ASSUME NEW k \in DOMAIN cdbQueue, BroadcastRecorded(k) PROVE RowsInv'
    BY <1>6, BroadcastRows
<1>7. ASSUME NEW k \in todo, CompleteRecorded(k) \/ ResolveRecorded(k) PROVE RowsInv'
  <2>1. CASE CompleteRecorded(k)
      BY <2>1, CompleteRows
  <2>2. CASE ResolveRecorded(k)
    <3>1. \/ CompleteL1D(k) /\ timeline' = Resolved(k)
          \/ ResolveMispredictedL1D(k) /\ timeline' = TimesFlushed(k, Resolved(k))
        BY <2>2 DEF ResolveRecorded
    <3> QED
        BY <2>2, <3>1, ResolveCorrectRows, ResolveMispredictedRows DEF ResolveMispredictedL1D
  <2> QED
      BY <1>7, <2>1, <2>2
<1>8. RowsInv'
    BY <1>2, <1>3, <1>4, <1>5, <1>6, <1>7 DEF NextSim, RecordsNoStage
<1> QED
    BY <1>1, <1>8 DEF TimesInv

LEMMA RowsTellTimes == TimesInv => StagesTakeTheirTime
<1> SUFFICES ASSUME TimesInv PROVE StagesTakeTheirTime
    OBVIOUS
<1>1. TimelineTypeOK /\ RowsInSequence /\ QueueInv
    BY DEF TimesInv, RowsInv
<1>2. Issued = Ids
    BY <1>1 DEF Issued, TimelineTypeOK
<1>3. \A k \in Ids : InSequence(timeline[k], InstructionOf(k), k \in Committed)
    BY <1>1 DEF RowsInSequence
<1> QED
    BY <1>2, <1>3 DEF StagesTakeTheirTime, InSequence, Started, Ended, WrittenBack,
       RegisterWriters

LEMMA TimesInvariant == SpecSim => []TimesInv
BY InitRows, NextRows, PTL DEF SpecSim

(***************************************************************************)
(* For every program, configuration and predictor the cycles in the status   *)
(* table obey the README's timing model: a start after the issue, the exact   *)
(* latency (the cache's two for loads and stores), a later broadcast, and a   *)
(* later commit still, whatever is flushed in between.                        *)
(***************************************************************************)
THEOREM StagesTimed == SpecSim => []StagesTakeTheirTime
BY TimesInvariant, RowsTellTimes, PTL

-----------------------------------------------------------------------------
(* What each step records                                                    *)

\* A row whose issue and prediction stay.
RowIs(row, t, actualTaken, start, end, writeback, commit, flush) ==
    /\ row.issue = t.issue /\ row.predictedTaken = t.predictedTaken
    /\ row.actualTaken = actualTaken /\ row.start = start /\ row.end = end
    /\ row.writeback = writeback /\ row.commit = commit /\ row.flush = flush

NoRowChanges ==
    timeline' = timeline /\ Ids' = Ids /\ Committed' = Committed /\ Flushed' = Flushed

RowIsAdded ==
    /\ phase = "issue"
    /\ Ids' = Ids \cup {nextId} /\ Committed' = Committed /\ Flushed' = Flushed
    /\ timeline' \in [Ids' -> Times] /\ \A j \in Ids : timeline'[j] = timeline[j]
    /\ LET row == timeline'[nextId] IN
         /\ row.issue = cycle /\ row.start = NotYet /\ row.end = NotYet
         /\ row.writeback = NotYet /\ row.commit = NotYet /\ row.flush = NotYet

OneRowChanges(k) ==
    /\ k \in InFlight /\ Ids' = Ids /\ Flushed' = Flushed /\ timeline' \in [Ids -> Times]
    /\ \A j \in Ids : j # k => timeline'[j] = timeline[j]

RowStarts(k) ==
    /\ OneRowChanges(k) /\ Committed' = Committed /\ phase = "execute"
    /\ LET t == timeline[k] IN
         /\ t.start = NotYet /\ t.end = NotYet
         /\ RowIs(timeline'[k], t, t.actualTaken, cycle, t.end, t.writeback, t.commit, t.flush)

RowCommits(k) ==
    /\ OneRowChanges(k) /\ Committed' = Committed \cup {k} /\ phase = "execute"
    /\ LET t == timeline[k] IN
         RowIs(timeline'[k], t, t.actualTaken, t.start, t.end, t.writeback, cycle, t.flush)

RowIsBroadcast(k) ==
    /\ OneRowChanges(k) /\ Committed' = Committed /\ phase = "broadcast"
    /\ writesRegister(InstructionOf(k))
    /\ LET t == timeline[k] IN
         /\ t.writeback = NotYet
         /\ RowIs(timeline'[k], t, t.actualTaken, t.start, t.end, cycle, t.commit, t.flush)

RowEnds(k) ==
    /\ OneRowChanges(k) /\ Committed' = Committed /\ phase = "complete"
    /\ timeline[k].end = NotYet /\ timeline[k].writeback = NotYet
    /\ EndsNow(timeline[k], timeline'[k], InstructionOf(k), cycle)
    /\ IsBranch(InstructionOf(k)) => timeline'[k].actualTaken = timeline'[k].predictedTaken

RowIsMispredicted(k) ==
    /\ k \in InFlight /\ Ids' = Ids /\ timeline' \in [Ids -> Times] /\ Committed' = Committed
    /\ Flushed' = Flushed \cup {i \in InFlight : i > k} /\ phase = "complete"
    /\ timeline[k].end = NotYet /\ timeline[k].writeback = NotYet
    /\ EndsNow(timeline[k], timeline'[k], InstructionOf(k), cycle)
    /\ IsBranch(InstructionOf(k)) /\ timeline'[k].actualTaken # timeline'[k].predictedTaken
    /\ \A j \in Ids : j < k => timeline'[j] = timeline[j]
    /\ \A j \in Ids : j > k => LET t == timeline[j] IN
         RowIs(timeline'[j], t, t.actualTaken, t.start, t.end, t.writeback, t.commit, cycle)

LEMMA QuietChanges == ASSUME TimesInv, RecordsNoStage PROVE NoRowChanges
<1>1. /\ timeline' = timeline
      /\ \/ StallIssue \/ Finish \/ NoCommit \/ NoBroadcast \/ EndCycle \/ Done
         \/ UNCHANGED vars
    BY DEF RecordsNoStage, IssueStalls, NothingToIssue, NoCommitRecorded, NoBroadcastRecorded,
       EndCycleRecorded, Stop, recordVars, varsSim, varsL1D
<1> QED
    BY <1>1, NothingMoves DEF NoRowChanges, TimesInv

LEMMA IssueChanges == ASSUME TimesInv, IssuePredicted PROVE RowIsAdded
<1> DEFINE taken == IsBranch(NextInstruction) /\ predict(pc)
<1>1. /\ QueueInv /\ TimelineTypeOK /\ taken \in BOOLEAN /\ Issue(taken)
      /\ timeline' = Extend(timeline, nextId, NewTimes(taken))
    BY DEF TimesInv, RowsInv, IssuePredicted
<1>2. /\ phase = "issue" /\ Ids' = Ids \cup {nextId}
      /\ Committed' = Committed /\ Flushed' = Flushed
    BY <1>1, IssueMoves
<1>3. timeline' \in [Ids' -> Times]
  <2>1. RowsInv'
      BY IssueRows
  <2> QED
      BY <2>1 DEF RowsInv, TimelineTypeOK
<1>4. timeline \in [Ids -> Times] /\ nextId \notin Ids
    BY <1>1, LoopFacts DEF TimelineTypeOK
<1>5. /\ timeline'[nextId] = NewTimes(taken) /\ \A j \in Ids : timeline'[j] = timeline[j]
    BY <1>1, <1>4 DEF Extend
<1> QED
    BY <1>2, <1>3, <1>5 DEF RowIsAdded, NewTimes

LEMMA VisitChanges ==
    ASSUME TimesInv, NEW k \in todo, Proceed(k) \/ WaitStalled(k)
    PROVE  NoRowChanges
<1>1. QueueInv /\ VisitAnyTiming(k) /\ timeline' = timeline
    BY DEF TimesInv, Proceed, WaitStalled, WaitL1D, VisitAnyTiming, recordVars
<1> QED
    BY <1>1, VisitMoves DEF NoRowChanges

LEMMA StartChanges == ASSUME TimesInv, NEW k \in todo, StartRecorded(k) PROVE RowStarts(k)
<1>1. /\ QueueInv /\ timeline' = [timeline EXCEPT ![k].start = cycle]
      /\ (StartAccess(k) \/ StartWithoutCache(k)) /\ [NextSim]_varsSim
    BY DEF TimesInv, StartRecorded, NextSim
<1>2. ~active[k].executing
    BY <1>1 DEF StartAccess, StartWithoutCache, Start, StartWith
<1>3. VisitAnyTiming(k)
  <2>1. TypeInv
      BY <1>1, LoopFacts
  <2> QED
      BY <1>1, <2>1, AccessLatency, StartLatencyType
      DEF VisitAnyTiming, StartAccess, StartWithoutCache, Start
<1>4. /\ k \in DOMAIN active /\ Ids' = Ids /\ Committed' = Committed /\ Flushed' = Flushed
      /\ phase = "execute"
    BY <1>1, <1>3, VisitMoves
<1>5. k \in InFlight /\ k \in Ids
    BY <1>1, <1>4, LoopFacts
<1>6. timeline \in [Ids -> Times] /\ timeline' \in [Ids -> Times]
  <2>1. RowsInv'
      BY StartRows
  <2> QED
      BY <1>4, <2>1 DEF TimesInv, RowsInv, TimelineTypeOK
<1>7. PICK t \in Times : t = timeline[k]
    BY <1>5, <1>6
<1>8. /\ timeline'[k] = [t EXCEPT !.start = cycle]
      /\ \A j \in Ids : j # k => timeline'[j] = timeline[j]
    BY <1>1, <1>5, <1>6, <1>7
<1>9. t.start = NotYet /\ t.end = NotYet
    BY <1>2, <1>4, <1>7 DEF TimesInv, RowsInv, RowsShowProgress, ActiveTimes
<1>10. RowIs(timeline'[k], t, t.actualTaken, cycle, t.end, t.writeback, t.commit, t.flush)
    BY <1>8 DEF RowIs, Times
<1> QED
    BY <1>4, <1>5, <1>6, <1>7, <1>8, <1>9, <1>10 DEF RowStarts, OneRowChanges

LEMMA CommitChanges ==
    ASSUME TimesInv, CommitRecorded PROVE RowCommits(robEntries[robHead].id)
<1>1. PICK k : k = robEntries[robHead].id
    OBVIOUS
<1>2. /\ QueueInv /\ Commit /\ timeline' = [timeline EXCEPT ![k].commit = cycle]
    BY <1>1 DEF TimesInv, CommitRecorded
<1>3. /\ k \in InFlight /\ Ids' = Ids /\ Committed' = Committed \cup {k} /\ Flushed' = Flushed
      /\ phase = "execute"
    BY <1>1, <1>2, CommitMoves
<1>4. k \in Ids
    BY <1>2, <1>3, LoopFacts
<1>5. timeline \in [Ids -> Times] /\ timeline' \in [Ids -> Times]
  <2>1. RowsInv'
      BY CommitRows
  <2> QED
      BY <1>3, <2>1 DEF TimesInv, RowsInv, TimelineTypeOK
<1>6. PICK t \in Times : t = timeline[k]
    BY <1>4, <1>5
<1>7. /\ timeline'[k] = [t EXCEPT !.commit = cycle]
      /\ \A j \in Ids : j # k => timeline'[j] = timeline[j]
    BY <1>2, <1>4, <1>5, <1>6
<1>8. RowIs(timeline'[k], t, t.actualTaken, t.start, t.end, t.writeback, cycle, t.flush)
    BY <1>7 DEF RowIs, Times
<1> QED
    BY <1>1, <1>3, <1>5, <1>6, <1>7, <1>8 DEF RowCommits, OneRowChanges

LEMMA BroadcastChanges ==
    ASSUME TimesInv, NEW k \in DOMAIN cdbQueue, BroadcastRecorded(k) PROVE RowIsBroadcast(k)
<1>1. QueueInv /\ Broadcast(k) /\ timeline' = [timeline EXCEPT ![k].writeback = cycle]
    BY DEF TimesInv, BroadcastRecorded
<1>2. Ids' = Ids /\ Committed' = Committed /\ Flushed' = Flushed /\ phase = "broadcast"
    BY <1>1, BroadcastMoves
<1>3. k \in InFlight /\ k \in Ids
    BY <1>1, LoopFacts
<1>4. timeline \in [Ids -> Times] /\ timeline' \in [Ids -> Times]
  <2>1. RowsInv'
      BY BroadcastRows
  <2> QED
      BY <1>2, <2>1 DEF TimesInv, RowsInv, TimelineTypeOK
<1>5. PICK t \in Times : t = timeline[k]
    BY <1>3, <1>4
<1>6. /\ timeline'[k] = [t EXCEPT !.writeback = cycle]
      /\ \A j \in Ids : j # k => timeline'[j] = timeline[j]
    BY <1>1, <1>3, <1>4, <1>5
<1>7. t.writeback = NotYet /\ writesRegister(InstructionOf(k))
    BY <1>5 DEF TimesInv, RowsInv, RowsShowProgress, OnBusTimes
<1>8. RowIs(timeline'[k], t, t.actualTaken, t.start, t.end, cycle, t.commit, t.flush)
    BY <1>6 DEF RowIs, Times
<1> QED
    BY <1>2, <1>3, <1>4, <1>5, <1>6, <1>7, <1>8 DEF RowIsBroadcast, OneRowChanges

LEMMA CompleteChanges ==
    ASSUME TimesInv, NEW k \in todo, CompleteRecorded(k) PROVE RowEnds(k)
<1>1. /\ QueueInv /\ CompleteL1D(k) /\ ~IsBranch(active[k].instr)
      /\ timeline' = [timeline EXCEPT ![k].end = cycle,
                                      ![k].writeback = IF IsStore(k) THEN cycle ELSE @]
    BY DEF TimesInv, CompleteRecorded
<1>2. CompleteRegister(k) \/ CompleteStore(k)
    BY <1>1 DEF CompleteL1D, ResolveCorrect
<1>3. Complete(k)
    BY <1>2 DEF CompleteRegister, CompleteStore
<1>4. /\ Ids' = Ids /\ Committed' = Committed /\ Flushed' = Flushed
      /\ phase = "complete" /\ k \in DOMAIN active
    BY <1>1, <1>2, CompletionMoves
<1>5. k \in InFlight /\ k \in Ids
    BY <1>1, <1>4, LoopFacts
<1>6. timeline \in [Ids -> Times] /\ timeline' \in [Ids -> Times] /\ cycle \in Nat
  <2>1. RowsInv'
      BY CompleteRows
  <2> QED
      BY <1>4, <2>1 DEF TimesInv, RowsInv, TimelineTypeOK
<1>7. /\ active[k].instr = InstructionOf(k) /\ timeline[k].end = NotYet
      /\ timeline[k].writeback = NotYet
    BY <1>3, CompletedRow
<1>8. IsStore(k) <=> ~writesRegister(InstructionOf(k))
  <2>1. CASE CompleteRegister(k)
      BY <1>1, <1>4, <1>7, <2>1, StoresAndBranchesWriteNone, LoopFacts
      DEF CompleteRegister, IsStore, writesRegister
  <2>2. CASE CompleteStore(k)
      BY <1>1, <1>4, <1>7, <2>2, StoresAndBranchesWriteNone, LoopFacts
      DEF CompleteStore, IsStore, writesRegister
  <2> QED
      BY <1>2, <2>1, <2>2
<1>9. PICK row : row = [timeline[k] EXCEPT !.end = cycle,
                                           !.writeback = IF IsStore(k) THEN cycle ELSE @]
    OBVIOUS
<1>10. timeline' = [timeline EXCEPT ![k] = row]
    BY <1>1, <1>5, <1>6, <1>9
<1>11. timeline[k] \in Times
    BY <1>5, <1>6
<1>12. EndsNow(timeline[k], row, InstructionOf(k), cycle)
    BY <1>6, <1>7, <1>8, <1>9, <1>11 DEF EndsNow, Times, Moments
<1>13. timeline'[k] = row /\ \A j \in Ids : j # k => timeline'[j] = timeline[j]
    BY <1>5, <1>6, <1>10
<1> QED
    BY <1>1, <1>4, <1>5, <1>6, <1>7, <1>12, <1>13 DEF RowEnds, OneRowChanges

LEMMA ResolveCorrectChanges ==
    ASSUME TimesInv, NEW k \in todo, ResolveRecorded(k), CompleteL1D(k), timeline' = Resolved(k)
    PROVE  RowEnds(k)
<1>1. QueueInv /\ IsBranch(active[k].instr)
    BY DEF TimesInv, ResolveRecorded
<1>2. ResolveCorrect(k)
  <2>1. k \in DOMAIN active /\ TypeInv
      BY <1>1, LoopFacts
  <2>2. active[k].instr.rd = None /\ active[k].instr.op # "SD"
      BY <1>1, <2>1, StoresAndBranchesWriteNone DEF IsBranch, BranchOps
  <2> QED
      BY <2>2 DEF CompleteL1D, CompleteRegister, CompleteStore, writesRegister
<1>3. Complete(k) /\ ActualTaken(k) = active[k].predictedTaken
    BY <1>2 DEF ResolveCorrect
<1>4. /\ Ids' = Ids /\ Committed' = Committed /\ Flushed' = Flushed
      /\ phase = "complete" /\ k \in DOMAIN active
    BY <1>1, <1>2, CompletionMoves
<1>5. k \in InFlight /\ k \in Ids
    BY <1>1, <1>4, LoopFacts
<1>6. /\ timeline' \in [Ids -> Times]
      /\ EndsNow(timeline[k], timeline'[k], InstructionOf(k), cycle)
      /\ timeline'[k].actualTaken = ActualTaken(k)
      /\ \A j \in Ids : j # k => timeline'[j] = timeline[j]
    BY <1>1, <1>3, ResolvedRow
<1>7. /\ timeline[k].end = NotYet /\ timeline[k].writeback = NotYet
      /\ timeline[k].predictedTaken = active[k].predictedTaken
    BY <1>3, CompletedRow
<1>8. timeline'[k].actualTaken = timeline'[k].predictedTaken
    BY <1>3, <1>6, <1>7 DEF EndsNow
<1> QED
    BY <1>4, <1>5, <1>6, <1>7, <1>8 DEF RowEnds, OneRowChanges

LEMMA ResolveMispredictedChanges ==
    ASSUME TimesInv, NEW k \in todo, ResolveRecorded(k), ResolveMispredicted(k),
           timeline' = TimesFlushed(k, Resolved(k))
    PROVE  RowIsMispredicted(k)
<1>1. /\ QueueInv /\ IsBranch(active[k].instr) /\ Complete(k)
      /\ ActualTaken(k) # active[k].predictedTaken
    BY DEF TimesInv, ResolveRecorded, ResolveMispredicted
<1>2. /\ Ids' = Ids /\ Committed' = Committed /\ Flushed' = Flushed \cup {i \in InFlight : i > k}
      /\ phase = "complete" /\ k \in DOMAIN active
    BY <1>1, MispredictionMoves
<1>3. /\ k \in InFlight /\ k \in Ids /\ Ids \subseteq Nat
      /\ Committed \subseteq Ids /\ \A c \in Committed, i \in InFlight : c < i
    BY <1>1, <1>2, LoopFacts
<1>4. /\ timeline' \in [Ids -> Times] /\ timeline'[k] = Resolved(k)[k]
      /\ \A j \in Ids : j < k => timeline'[j] = timeline[j]
      /\ \A j \in Ids : j > k => timeline'[j] = IF j \in Committed THEN timeline[j]
                                  ELSE [timeline[j] EXCEPT !.flush = cycle]
    BY FlushedRows
<1>5. /\ EndsNow(timeline[k], timeline'[k], InstructionOf(k), cycle)
      /\ timeline'[k].actualTaken = ActualTaken(k)
    BY <1>1, <1>4, ResolvedRow
<1>6. /\ timeline[k].end = NotYet /\ timeline[k].writeback = NotYet
      /\ timeline[k].predictedTaken = active[k].predictedTaken
      /\ active[k].instr = InstructionOf(k)
    BY <1>1, CompletedRow
<1>7. timeline'[k].actualTaken # timeline'[k].predictedTaken
    BY <1>1, <1>5, <1>6 DEF EndsNow
<1>8. ASSUME NEW j \in Ids, j > k, NEW t \in Times, t = timeline[j]
      PROVE  RowIs(timeline'[j], t, t.actualTaken, t.start, t.end, t.writeback, t.commit, cycle)
  <2>1. j \notin Committed
      BY <1>3, <1>8
  <2>2. timeline'[j] = [t EXCEPT !.flush = cycle]
      BY <1>4, <1>8, <2>1
  <2> QED
      BY <2>2 DEF RowIs, Times
<1>9. \A j \in Ids : timeline[j] \in Times
    BY DEF TimesInv, RowsInv, TimelineTypeOK
<1> QED
    BY <1>1, <1>2, <1>3, <1>4, <1>5, <1>6, <1>7, <1>8, <1>9 DEF RowIsMispredicted

\* What any step does to the status table.
LEMMA StepsRecord ==
    ASSUME TimesInv, [NextSim]_varsSim
    PROVE  \/ NoRowChanges \/ RowIsAdded
           \/ \E k \in Ids : \/ RowStarts(k) \/ RowCommits(k) \/ RowIsBroadcast(k)
                             \/ RowEnds(k) \/ RowIsMispredicted(k)
<1>1. /\ todo \subseteq Ids /\ DOMAIN cdbQueue \subseteq Ids /\ InFlight \subseteq Ids
    BY LoopFacts DEF TimesInv
<1>2. CASE IssuePredicted
    BY <1>2, IssueChanges
<1>3. CASE RecordsNoStage
    BY <1>3, QuietChanges
<1>4. ASSUME NEW k \in todo, Proceed(k) \/ WaitStalled(k) \/ StartRecorded(k)
      PROVE  NoRowChanges \/ RowStarts(k)
    BY <1>4, VisitChanges, StartChanges
<1>5. ASSUME CommitRecorded PROVE \E k \in Ids : RowCommits(k)
  <2>1. PICK k : k = robEntries[robHead].id
      OBVIOUS
  <2>2. RowCommits(k)
      BY <1>5, <2>1, CommitChanges
  <2> QED
      BY <1>1, <2>2 DEF RowCommits, OneRowChanges
<1>6. ASSUME NEW k \in DOMAIN cdbQueue, BroadcastRecorded(k) PROVE RowIsBroadcast(k)
    BY <1>6, BroadcastChanges
<1>7. ASSUME NEW k \in todo, CompleteRecorded(k) \/ ResolveRecorded(k)
      PROVE  RowEnds(k) \/ RowIsMispredicted(k)
  <2>1. CASE CompleteRecorded(k)
      BY <2>1, CompleteChanges
  <2>2. CASE ResolveRecorded(k)
    <3>1. \/ CompleteL1D(k) /\ timeline' = Resolved(k)
          \/ ResolveMispredictedL1D(k) /\ timeline' = TimesFlushed(k, Resolved(k))
        BY <2>2 DEF ResolveRecorded
    <3> QED
        BY <2>2, <3>1, ResolveCorrectChanges, ResolveMispredictedChanges
        DEF ResolveMispredictedL1D
  <2> QED
      BY <1>7, <2>1, <2>2
<1> QED
    BY <1>1, <1>2, <1>3, <1>4, <1>5, <1>6, <1>7 DEF NextSim, RecordsNoStage

-----------------------------------------------------------------------------
(* One issue, one broadcast and one commit a cycle                           *)

\* OneOfEachACycle, of two rows.
RowsInOrder(t, u, bothWriteRegisters) ==
    /\ t.issue < u.issue
    /\ t.commit # NotYet /\ u.commit # NotYet => t.commit < u.commit
    /\ bothWriteRegisters /\ t.writeback # NotYet /\ u.writeback # NotYet
         => t.writeback # u.writeback

BothWriteRegisters(j, k) ==
    writesRegister(InstructionOf(j)) /\ writesRegister(InstructionOf(k))

OrderInv ==
    \A j, k \in Ids : j < k => RowsInOrder(timeline[j], timeline[k], BothWriteRegisters(j, k))

\* Two rows that keep these fields keep their order.
LEMMA OrderKept ==
    ASSUME TimesInv, OrderInv, [NextSim]_varsSim, NEW j \in Ids, NEW k \in Ids, j < k,
           timeline'[j].issue = timeline[j].issue, timeline'[k].issue = timeline[k].issue,
           timeline'[j].commit = timeline[j].commit, timeline'[k].commit = timeline[k].commit,
           writesRegister(InstructionOf(j)) => timeline'[j].writeback = timeline[j].writeback,
           writesRegister(InstructionOf(k)) => timeline'[k].writeback = timeline[k].writeback
    PROVE  RowsInOrder(timeline'[j], timeline'[k], BothWriteRegisters(j, k)')
<1>1. BothWriteRegisters(j, k)' = BothWriteRegisters(j, k)
    BY SimulatorSteps DEF TimesInv, BothWriteRegisters
<1>2. RowsInOrder(timeline[j], timeline[k], BothWriteRegisters(j, k))
    BY DEF OrderInv
<1> QED
    BY <1>1, <1>2 DEF RowsInOrder, BothWriteRegisters

\* No earlier instruction is still to be issued, commits are in order and nothing
\* else has been broadcast yet in this cycle.
LEMMA NextOrders == TimesInv /\ OrderInv /\ [NextSim]_varsSim => OrderInv'
<1> SUFFICES ASSUME TimesInv, OrderInv, [NextSim]_varsSim PROVE OrderInv'
    OBVIOUS
<1>1. /\ QueueInv /\ TimelineTypeOK /\ TimesHavePassed /\ RowsInSequence
      /\ cycle \in Nat /\ timeline \in [Ids -> Times]
    BY DEF TimesInv, RowsInv, TimelineTypeOK
<1>2. /\ InFlight \subseteq Ids /\ Ids \subseteq Nat /\ nextId \in Nat /\ Ids = 0 .. nextId - 1
      /\ Committed \subseteq Ids /\ InFlight \cap Committed = {}
      /\ \A c \in Committed, i \in InFlight : c < i
    BY <1>1, LoopFacts DEF Ids
<1>3. CASE NoRowChanges
  <2>1. timeline' = timeline /\ Ids' = Ids
      BY <1>3 DEF NoRowChanges
  <2> QED
      BY <2>1, OrderKept DEF OrderInv
<1>4. CASE RowIsAdded
  <2>1. /\ phase = "issue" /\ Ids' = Ids \cup {nextId}
        /\ \A j \in Ids : timeline'[j] = timeline[j]
        /\ LET row == timeline'[nextId] IN
             row.issue = cycle /\ row.writeback = NotYet /\ row.commit = NotYet
      BY <1>4 DEF RowIsAdded
  <2>2. ASSUME NEW j \in Ids, NEW new \in {nextId}
        PROVE  RowsInOrder(timeline'[j], timeline'[new], BothWriteRegisters(j, new)')
    <3>1. HavePassed(timeline[j], cycle, phase, Unvisited(j))
        BY <1>1 DEF TimesHavePassed
    <3>2. timeline[j].issue < cycle
        BY <2>1, <3>1 DEF HavePassed
    <3> QED
        BY <2>1, <3>2 DEF RowsInOrder
  <2>3. ASSUME NEW j \in Ids, NEW k \in Ids, j < k
        PROVE  RowsInOrder(timeline'[j], timeline'[k], BothWriteRegisters(j, k)')
      BY <2>1, <2>3, OrderKept
  <2>4. ASSUME NEW j \in Ids', NEW k \in Ids', j < k
        PROVE  j \in Ids /\ (k \in Ids \/ k \in {nextId})
      BY <1>2, <2>1, <2>4
  <2> QED
      BY <2>2, <2>3, <2>4 DEF OrderInv
<1>5. ASSUME NEW k \in Ids, RowStarts(k) \/ RowEnds(k) \/ RowIsMispredicted(k) PROVE OrderInv'
  <2>1. Ids' = Ids
      BY <1>5 DEF RowStarts, RowEnds, RowIsMispredicted, OneRowChanges
  <2>2. ASSUME NEW j \in Ids
        PROVE  /\ timeline'[j].issue = timeline[j].issue
               /\ timeline'[j].commit = timeline[j].commit
               /\ writesRegister(InstructionOf(j))
                    => timeline'[j].writeback = timeline[j].writeback
    <3>1. CASE RowStarts(k)
        BY <3>1 DEF RowStarts, OneRowChanges, RowIs
    <3>2. CASE RowEnds(k)
        BY <3>2 DEF RowEnds, OneRowChanges, EndsNow
    <3>3. CASE RowIsMispredicted(k)
      <4>1. CASE j = k
          BY <3>3, <4>1 DEF RowIsMispredicted, EndsNow
      <4>2. CASE j # k
        <5>1. j < k \/ j > k
            BY <1>2, <4>2
        <5> QED
            BY <3>3, <5>1 DEF RowIsMispredicted, RowIs
      <4> QED
          BY <4>1, <4>2
    <3> QED
        BY <1>5, <3>1, <3>2, <3>3
  <2> QED
      BY <2>1, <2>2, OrderKept DEF OrderInv
<1>6. ASSUME NEW k \in Ids, RowCommits(k) PROVE OrderInv'
  <2>1. /\ k \in InFlight /\ Ids' = Ids /\ \A j \in Ids : j # k => timeline'[j] = timeline[j]
        /\ phase = "execute" /\ timeline'[k].issue = timeline[k].issue
        /\ timeline'[k].commit = cycle /\ timeline'[k].writeback = timeline[k].writeback
        /\ timeline' \in [Ids -> Times]
      BY <1>6 DEF RowCommits, OneRowChanges, RowIs
  <2>2. ASSUME NEW j \in Ids, NEW i \in Ids, j < i
        PROVE  RowsInOrder(timeline'[j], timeline'[i], BothWriteRegisters(j, i)')
    <3>1. CASE j # k /\ i # k
        BY <2>1, <2>2, <3>1, OrderKept
    <3>2. RowsInOrder(timeline[j], timeline[i], BothWriteRegisters(j, i))
        BY <2>2 DEF OrderInv
    <3>3. BothWriteRegisters(j, i)' = BothWriteRegisters(j, i)
        BY <1>1, SimulatorSteps DEF BothWriteRegisters
    <3>4. CASE i = k
      <4>1. j # k
          BY <1>2, <2>2, <3>4
      <4>2. timeline[j].commit < cycle
        <5>1. HavePassed(timeline[j], cycle, phase, Unvisited(j))
            BY <1>1 DEF TimesHavePassed
        <5> QED
            BY <2>1, <5>1 DEF HavePassed
      <4> QED
          BY <2>1, <3>2, <3>3, <3>4, <4>1, <4>2 DEF RowsInOrder
    <3>5. CASE j = k
      <4>1. i # k /\ i \notin Committed
          BY <1>2, <2>1, <2>2, <3>5
      <4>2. timeline[i].commit = NotYet
        <5>1. InSequence(timeline[i], InstructionOf(i), i \in Committed)
            BY <1>1 DEF RowsInSequence
        <5> QED
            BY <4>1, <5>1 DEF InSequence
      <4> QED
          BY <2>1, <3>2, <3>3, <3>5, <4>1, <4>2 DEF RowsInOrder
    <3> QED
        BY <3>1, <3>4, <3>5
  <2> QED
      BY <2>1, <2>2 DEF OrderInv
<1>7. ASSUME NEW k \in Ids, RowIsBroadcast(k) PROVE OrderInv'
  <2>1. /\ Ids' = Ids /\ \A j \in Ids : j # k => timeline'[j] = timeline[j]
        /\ phase = "broadcast" /\ timeline'[k].issue = timeline[k].issue
        /\ timeline'[k].commit = timeline[k].commit /\ timeline'[k].writeback = cycle
      BY <1>7 DEF RowIsBroadcast, OneRowChanges, RowIs
  <2>2. ASSUME NEW j \in Ids PROVE timeline[j].writeback # cycle
    <3>1. HavePassed(timeline[j], cycle, phase, Unvisited(j))
        BY <1>1 DEF TimesHavePassed
    <3>2. timeline[j].writeback < cycle
        BY <2>1, <3>1 DEF HavePassed
    <3> QED
        BY <1>1, <3>2
  <2>3. ASSUME NEW j \in Ids, NEW i \in Ids, j < i
        PROVE  RowsInOrder(timeline'[j], timeline'[i], BothWriteRegisters(j, i)')
    <3>1. RowsInOrder(timeline[j], timeline[i], BothWriteRegisters(j, i))
        BY <2>3 DEF OrderInv
    <3>2. BothWriteRegisters(j, i)' = BothWriteRegisters(j, i)
        BY <1>1, SimulatorSteps DEF BothWriteRegisters
    <3>3. CASE j # k /\ i # k
        BY <2>1, <2>3, <3>3, OrderKept
    <3>4. CASE i = k /\ j # k
        BY <2>1, <2>2, <3>1, <3>2, <3>4 DEF RowsInOrder
    <3>5. CASE j = k /\ i # k
        BY <2>1, <2>2, <3>1, <3>2, <3>5 DEF RowsInOrder
    <3>6. j # i
        BY <1>2, <2>3
    <3> QED
        BY <3>3, <3>4, <3>5, <3>6
  <2> QED
      BY <2>1, <2>3 DEF OrderInv
<1> QED
    BY <1>3, <1>4, <1>5, <1>6, <1>7, StepsRecord

LEMMA OrdersTellOneACycle == TimesInv /\ OrderInv => OneOfEachACycle
<1> SUFFICES ASSUME TimesInv, OrderInv PROVE OneOfEachACycle
    OBVIOUS
<1>1. TimelineTypeOK /\ RowsInSequence /\ QueueInv
    BY DEF TimesInv, RowsInv
<1>2. Issued = Ids
    BY <1>1 DEF Issued, TimelineTypeOK
<1>3. /\ Ids \subseteq Nat /\ Ids = InFlight \cup Committed \cup Flushed
      /\ \A c \in Committed, i \in InFlight : c < i
    BY <1>1, LoopFacts
<1>4. \A k \in Ids : k \in Committed => timeline[k].commit # NotYet
    BY <1>1 DEF RowsInSequence, InSequence
<1>5. ASSUME NEW j \in Ids, NEW k \in Ids, j < k
      PROVE  /\ timeline[j].issue < timeline[k].issue
             /\ k \in Committed => j \in Committed \cup Flushed
             /\ j \in Committed /\ k \in Committed => timeline[j].commit < timeline[k].commit
             /\ {j, k} \subseteq RegisterWriters \cap WrittenBack
                  => timeline[j].writeback # timeline[k].writeback
  <2>1. RowsInOrder(timeline[j], timeline[k], BothWriteRegisters(j, k))
      BY <1>5 DEF OrderInv
  <2>2. k \in Committed => j \in Committed \cup Flushed
      BY <1>3, <1>5
  <2>3. j \in Committed /\ k \in Committed => timeline[j].commit < timeline[k].commit
      BY <1>4, <2>1 DEF RowsInOrder
  <2>4. {j, k} \subseteq RegisterWriters \cap WrittenBack
          => timeline[j].writeback # timeline[k].writeback
      BY <2>1 DEF RowsInOrder, BothWriteRegisters, RegisterWriters, WrittenBack
  <2> QED
      BY <2>1, <2>2, <2>3, <2>4 DEF RowsInOrder
<1> QED
    BY <1>2, <1>5 DEF OneOfEachACycle

LEMMA OrderInvariant == SpecSim => [](TimesInv /\ OrderInv)
<1>1. InitSim => OrderInv
  <2> SUFFICES ASSUME InitSim PROVE OrderInv
      OBVIOUS
  <2>1. Ids = {}
      BY DEF InitSim, InitL1D, Init, Ids
  <2> QED
      BY <2>1 DEF OrderInv
<1> QED
    BY <1>1, InitRows, NextRows, NextOrders, PTL DEF SpecSim

(***************************************************************************)
(* Whatever the program, at most one instruction is issued, one result is    *)
(* broadcast and one instruction is committed in a cycle, and issues and      *)
(* commits are in program order.                                             *)
(***************************************************************************)
THEOREM OneOfEach == SpecSim => []OneOfEachACycle
BY OrderInvariant, OrdersTellOneACycle, PTL

-----------------------------------------------------------------------------
(* Flushes and mispredictions                                                *)

\* FlushesFollowMispredictions, of one row.
FlushedByOlder(k) ==
    LET t == timeline[k] IN
      /\ k \in Flushed <=> \E b \in OlderMispredictions(k) : timeline[b].end >= t.issue
      /\ k \in Flushed =>
           /\ \A b \in OlderMispredictions(k) : timeline[b].end <= t.flush
           /\ \E b \in OlderMispredictions(k) : timeline[b].end = t.flush
           /\ t.commit = NotYet
           /\ t.start <= t.flush /\ t.end <= t.flush /\ t.writeback <= t.flush
      /\ k \notin Flushed => t.flush = NotYet

FlushInv == \A k \in Ids : FlushedByOlder(k)

\* The rows of mispredicted branches, without the words of the properties.
LEMMA MispredictedRows ==
    ASSUME TimesInv
    PROVE  /\ Issued = Ids
           /\ Mispredicted = {b \in Ids : /\ timeline[b].end # NotYet
                                          /\ IsBranch(InstructionOf(b))
                                          /\ timeline[b].actualTaken # timeline[b].predictedTaken}
<1>1. Issued = Ids
    BY DEF Issued, TimesInv, RowsInv, TimelineTypeOK
<1> QED
    BY <1>1 DEF Mispredicted, ResolvedBranches, Ended

\* A step that neither flushes nor adds a misprediction.
LEMMA FlushesKept ==
    ASSUME TimesInv, FlushInv, NEW k \in Ids, Mispredicted' = Mispredicted,
           \A b \in Mispredicted : timeline'[b].end = timeline[b].end,
           k \in Flushed' <=> k \in Flushed, timeline'[k].issue = timeline[k].issue,
           timeline'[k].flush = timeline[k].flush,
           timeline'[k] = timeline[k] \/ k \notin Flushed
    PROVE  FlushedByOlder(k)'
<1>1. FlushedByOlder(k)
    BY DEF FlushInv
<1>2. OlderMispredictions(k)' = OlderMispredictions(k)
    BY DEF OlderMispredictions
<1>3. OlderMispredictions(k) \subseteq Mispredicted
    BY DEF OlderMispredictions
<1>4. k \in Flushed' <=> \E b \in OlderMispredictions(k)' : timeline'[b].end >= timeline'[k].issue
    BY <1>1, <1>2, <1>3 DEF FlushedByOlder
<1>5. CASE k \in Flushed
    BY <1>1, <1>2, <1>3, <1>4, <1>5 DEF FlushedByOlder
<1>6. CASE k \notin Flushed
    BY <1>1, <1>4, <1>6 DEF FlushedByOlder
<1> QED
    BY <1>5, <1>6

LEMMA OneRowFlushes ==
    ASSUME TimesInv, FlushInv, [NextSim]_varsSim, NEW k \in Ids,
           RowStarts(k) \/ RowCommits(k) \/ RowIsBroadcast(k) \/ RowEnds(k)
    PROVE  /\ Mispredicted' = Mispredicted
           /\ \A b \in Mispredicted : timeline'[b].end = timeline[b].end
           /\ FlushInv'
<1>1. /\ k \in InFlight /\ Ids' = Ids /\ Flushed' = Flushed
      /\ \A j \in Ids : j # k => timeline'[j] = timeline[j]
      /\ timeline'[k].issue = timeline[k].issue /\ timeline'[k].flush = timeline[k].flush
      /\ timeline'[k].predictedTaken = timeline[k].predictedTaken
    BY DEF RowStarts, RowCommits, RowIsBroadcast, RowEnds, OneRowChanges, RowIs, EndsNow
<1>2. k \notin Flushed
    BY <1>1, LoopFacts DEF TimesInv
<1>3. /\ TimesInv' /\ \A b \in Ids : InstructionOf(b)' = InstructionOf(b)
    BY NextRows, SimulatorSteps DEF TimesInv
<1>4. \/ /\ timeline'[k].end = timeline[k].end
         /\ timeline'[k].actualTaken = timeline[k].actualTaken
      \/ /\ timeline[k].end = NotYet
         /\ IsBranch(InstructionOf(k)) => timeline'[k].actualTaken = timeline'[k].predictedTaken
    BY DEF RowStarts, RowCommits, RowIsBroadcast, RowEnds, RowIs
<1>5. Mispredicted' = Mispredicted /\ \A b \in Mispredicted : timeline'[b].end = timeline[b].end
  <2>1. Mispredicted = {b \in Ids : /\ timeline[b].end # NotYet
                                    /\ IsBranch(InstructionOf(b))
                                    /\ timeline[b].actualTaken # timeline[b].predictedTaken}
      BY MispredictedRows
  <2>2. Mispredicted' = {b \in Ids' : /\ timeline'[b].end # NotYet
                                      /\ IsBranch(InstructionOf(b)')
                                      /\ timeline'[b].actualTaken # timeline'[b].predictedTaken}
    <3>1. Issued' = Ids'
        BY <1>3 DEF Issued, TimesInv, RowsInv, TimelineTypeOK
    <3> QED
        BY <3>1 DEF Mispredicted, ResolvedBranches, Ended
  <2>3. ASSUME NEW b \in Ids
        PROVE  /\ b \in Mispredicted' <=> b \in Mispredicted
               /\ b \in Mispredicted => timeline'[b].end = timeline[b].end
    <3>1. CASE b # k
        BY <1>1, <1>3, <2>1, <2>2, <3>1
    <3>2. CASE b = k
        BY <1>1, <1>3, <1>4, <2>1, <2>2, <3>2
    <3> QED
        BY <3>1, <3>2
  <2> QED
      BY <1>1, <2>1, <2>2, <2>3
<1>6. ASSUME NEW j \in Ids PROVE FlushedByOlder(j)'
  <2>1. CASE j # k
      BY <1>1, <1>5, <2>1, FlushesKept
  <2>2. CASE j = k
      BY <1>1, <1>2, <1>5, <2>2, FlushesKept
  <2> QED
      BY <2>1, <2>2
<1> QED
    BY <1>1, <1>5, <1>6 DEF FlushInv

\* An instruction issued now is issued after every resolution so far.
LEMMA IssueFlushes == ASSUME TimesInv, FlushInv, [NextSim]_varsSim, RowIsAdded PROVE FlushInv'
<1>1. /\ phase = "issue" /\ Ids' = Ids \cup {nextId} /\ Flushed' = Flushed
      /\ \A j \in Ids : timeline'[j] = timeline[j]
      /\ LET row == timeline'[nextId] IN
           row.issue = cycle /\ row.end = NotYet /\ row.flush = NotYet
    BY DEF RowIsAdded
<1>2. /\ TimesInv' /\ \A b \in Ids : InstructionOf(b)' = InstructionOf(b)
    BY NextRows, SimulatorSteps DEF TimesInv
<1>3. /\ nextId \notin Ids /\ Flushed \subseteq Ids /\ nextId \in Nat
      /\ timeline \in [Ids -> Times] /\ cycle \in Nat
    BY LoopFacts DEF TimesInv, RowsInv, TimelineTypeOK
<1>4. PICK new : new = nextId
    OBVIOUS
<1>5. Mispredicted' = Mispredicted /\ Mispredicted \subseteq Ids
  <2>1. Mispredicted = {b \in Ids : /\ timeline[b].end # NotYet
                                    /\ IsBranch(InstructionOf(b))
                                    /\ timeline[b].actualTaken # timeline[b].predictedTaken}
      BY MispredictedRows
  <2>2. Mispredicted' = {b \in Ids' : /\ timeline'[b].end # NotYet
                                      /\ IsBranch(InstructionOf(b)')
                                      /\ timeline'[b].actualTaken # timeline'[b].predictedTaken}
    <3>1. Issued' = Ids'
        BY <1>2 DEF Issued, TimesInv, RowsInv, TimelineTypeOK
    <3> QED
        BY <3>1 DEF Mispredicted, ResolvedBranches, Ended
  <2>3. \A b \in Ids : b \in Mispredicted' <=> b \in Mispredicted
      BY <1>1, <1>2, <2>1, <2>2
  <2>4. nextId \notin Mispredicted' /\ nextId \notin Mispredicted
      BY <1>1, <1>3, <2>1, <2>2
  <2> QED
      BY <1>1, <2>1, <2>2, <2>3, <2>4
<1>6. ASSUME NEW j \in Ids PROVE FlushedByOlder(j)'
  <2>1. timeline'[j] = timeline[j] /\ \A b \in Mispredicted : timeline'[b].end = timeline[b].end
      BY <1>1, <1>5
  <2> QED
      BY <1>1, <1>5, <2>1, FlushesKept
<1>7. FlushedByOlder(new)'
  <2>1. new \notin Flushed'
      BY <1>1, <1>3, <1>4
  <2>2. ASSUME NEW b \in Mispredicted PROVE timeline'[b].end < timeline'[new].issue
    <3>1. b \in Ids /\ HavePassed(timeline[b], cycle, phase, Unvisited(b))
        BY <1>5 DEF TimesInv, RowsInv, TimesHavePassed
    <3> QED
        BY <1>1, <1>4, <3>1 DEF HavePassed
  <2>3. OlderMispredictions(new)' \subseteq Mispredicted
      BY <1>5 DEF OlderMispredictions
  <2>4. \A b \in OlderMispredictions(new)' : ~(timeline'[b].end >= timeline'[new].issue)
    <3>1. ASSUME NEW b \in Mispredicted PROVE timeline'[b].end \in Int
      <4>1. b \in Ids /\ timeline[b] \in Times
          BY <1>3, <1>5
      <4> QED
          BY <1>1, <4>1, RowTypes
    <3>2. timeline'[new].issue \in Int
        BY <1>1, <1>3, <1>4
    <3> QED
        BY <2>2, <2>3, <3>1, <3>2
  <2>5. timeline'[new].flush = NotYet
      BY <1>1, <1>4
  <2> QED
      BY <2>1, <2>4, <2>5 DEF FlushedByOlder
<1> QED
    BY <1>1, <1>4, <1>6, <1>7 DEF FlushInv

\* Everything issued since, and nothing else, is flushed by a misprediction.
LEMMA MispredictionFlushes ==
    ASSUME TimesInv, FlushInv, [NextSim]_varsSim, NEW k \in Ids, RowIsMispredicted(k)
    PROVE  Mispredicted' = Mispredicted \cup {k} /\ k \notin Mispredicted /\ FlushInv'
<1>1. /\ k \in InFlight /\ Ids' = Ids /\ Flushed' = Flushed \cup {i \in InFlight : i > k}
      /\ phase = "complete" /\ timeline' \in [Ids -> Times]
      /\ timeline[k].end = NotYet /\ IsBranch(InstructionOf(k))
      /\ timeline'[k].actualTaken # timeline'[k].predictedTaken
      /\ timeline'[k].issue = timeline[k].issue /\ timeline'[k].end = cycle
      /\ timeline'[k].flush = timeline[k].flush
      /\ \A j \in Ids : j < k => timeline'[j] = timeline[j]
      /\ \A j \in Ids : j > k => LET t == timeline[j] IN
           RowIs(timeline'[j], t, t.actualTaken, t.start, t.end, t.writeback, t.commit, cycle)
    BY DEF RowIsMispredicted, EndsNow
<1>2. /\ TimesInv' /\ \A b \in Ids : InstructionOf(b)' = InstructionOf(b)
    BY NextRows, SimulatorSteps DEF TimesInv
<1>3. /\ Ids \subseteq Nat /\ Ids = InFlight \cup Committed \cup Flushed
      /\ InFlight \cap Flushed = {} /\ Committed \cap Flushed = {}
      /\ \A c \in Committed, i \in InFlight : c < i
      /\ timeline \in [Ids -> Times] /\ cycle \in Nat /\ TimesHavePassed /\ RowsInSequence
    BY LoopFacts DEF TimesInv, RowsInv, TimelineTypeOK
<1>4. \A j \in Ids : j # k => /\ timeline'[j].end = timeline[j].end
                              /\ timeline'[j].issue = timeline[j].issue
                              /\ timeline'[j].actualTaken = timeline[j].actualTaken
                              /\ timeline'[j].predictedTaken = timeline[j].predictedTaken
  <2>1. ASSUME NEW j \in Ids, j # k PROVE j < k \/ j > k
      BY <1>3, <2>1
  <2> QED
      BY <1>1, <2>1 DEF RowIs
<1>5. /\ Mispredicted' = Mispredicted \cup {k} /\ k \notin Mispredicted
      /\ Mispredicted \subseteq Ids
  <2>1. Mispredicted = {b \in Ids : /\ timeline[b].end # NotYet
                                    /\ IsBranch(InstructionOf(b))
                                    /\ timeline[b].actualTaken # timeline[b].predictedTaken}
      BY MispredictedRows
  <2>2. Mispredicted' = {b \in Ids' : /\ timeline'[b].end # NotYet
                                      /\ IsBranch(InstructionOf(b)')
                                      /\ timeline'[b].actualTaken # timeline'[b].predictedTaken}
    <3>1. Issued' = Ids'
        BY <1>2 DEF Issued, TimesInv, RowsInv, TimelineTypeOK
    <3> QED
        BY <3>1 DEF Mispredicted, ResolvedBranches, Ended
  <2>3. \A b \in Ids : b # k => (b \in Mispredicted' <=> b \in Mispredicted)
      BY <1>1, <1>2, <1>4, <2>1, <2>2
  <2>4. k \in Mispredicted' /\ k \notin Mispredicted
    <3>1. timeline'[k].end # NotYet
        BY <1>1, <1>3 DEF NotYet
    <3> QED
        BY <1>1, <1>2, <2>1, <2>2, <3>1
  <2> QED
      BY <1>1, <2>1, <2>2, <2>3, <2>4
<1>6. \A b \in Mispredicted : timeline'[b].end = timeline[b].end /\ timeline[b].end <= cycle
  <2>1. ASSUME NEW b \in Mispredicted PROVE timeline[b].end <= cycle
    <3>1. b \in Ids /\ HavePassed(timeline[b], cycle, phase, Unvisited(b))
        BY <1>3, <1>5 DEF TimesHavePassed
    <3> QED
        BY <3>1 DEF HavePassed
  <2> QED
      BY <1>4, <1>5, <2>1
<1>7. ASSUME NEW j \in Ids, j > k PROVE FlushedByOlder(j)'
  <2>1. j \in Flushed' /\ j \notin Committed
      BY <1>1, <1>3, <1>7
  <2>2. k \in OlderMispredictions(j)'
      BY <1>5, <1>7 DEF OlderMispredictions
  <2>3. ASSUME NEW b \in OlderMispredictions(j)' PROVE timeline'[b].end <= cycle
    <3>1. b = k \/ b \in Mispredicted
        BY <1>5 DEF OlderMispredictions
    <3> QED
        BY <1>1, <1>3, <1>6, <3>1
  <2>4. PICK t \in Times : t = timeline[j]
      BY <1>3
  <2>5. RowIs(timeline'[j], t, t.actualTaken, t.start, t.end, t.writeback, t.commit, cycle)
      BY <1>1, <1>7, <2>4
  <2>6. t.issue <= cycle /\ t.start <= cycle /\ t.end <= cycle /\ t.writeback <= cycle
    <3>1. HavePassed(t, cycle, phase, Unvisited(j))
        BY <1>3, <2>4 DEF TimesHavePassed
    <3> QED
        BY <3>1 DEF HavePassed
  <2>7. t.commit = NotYet
      BY <1>3, <2>1, <2>4 DEF RowsInSequence, InSequence
  <2>8. timeline'[k].end >= timeline'[j].issue
      BY <1>1, <1>3, <2>4, <2>5, <2>6, RowTypes DEF RowIs
  <2> QED
      BY <1>1, <2>1, <2>2, <2>3, <2>5, <2>6, <2>7, <2>8 DEF FlushedByOlder, RowIs
<1>8. ASSUME NEW j \in Ids, ~(j > k) PROVE FlushedByOlder(j)'
  <2>1. OlderMispredictions(j)' = OlderMispredictions(j)
      BY <1>3, <1>5, <1>8 DEF OlderMispredictions
  <2>2. j \in Flushed' <=> j \in Flushed
      BY <1>1, <1>8
  <2>3. OlderMispredictions(j) \subseteq Mispredicted
      BY DEF OlderMispredictions
  <2>4. /\ timeline'[j].issue = timeline[j].issue /\ timeline'[j].flush = timeline[j].flush
        /\ timeline'[j] = timeline[j] \/ j \notin Flushed
    <3>1. j < k \/ j = k
        BY <1>3, <1>8
    <3>2. k \notin Flushed
        BY <1>1, <1>3
    <3> QED
        BY <1>1, <3>1, <3>2
  <2>5. FlushedByOlder(j)
      BY DEF FlushInv
  <2>6. \A b \in OlderMispredictions(j) : timeline'[b].end = timeline[b].end
      BY <1>6, <2>3
  <2>7. CASE j \in Flushed
      BY <2>1, <2>2, <2>4, <2>5, <2>6, <2>7 DEF FlushedByOlder
  <2>8. CASE j \notin Flushed
      BY <2>1, <2>2, <2>4, <2>5, <2>6, <2>8 DEF FlushedByOlder
  <2> QED
      BY <2>7, <2>8
<1> QED
    BY <1>1, <1>5, <1>7, <1>8 DEF FlushInv

LEMMA NextFlushes == TimesInv /\ FlushInv /\ [NextSim]_varsSim => FlushInv'
<1> SUFFICES ASSUME TimesInv, FlushInv, [NextSim]_varsSim PROVE FlushInv'
    OBVIOUS
<1>1. ASSUME NoRowChanges PROVE FlushInv'
  <2>1. timeline' = timeline /\ Ids' = Ids /\ Flushed' = Flushed
      BY <1>1 DEF NoRowChanges
  <2>2. \A b \in Ids : InstructionOf(b)' = InstructionOf(b)
      BY SimulatorSteps DEF TimesInv
  <2>3. Issued' = Issued /\ Issued = Ids
      BY <2>1, MispredictedRows DEF Issued
  <2>4. Mispredicted' = Mispredicted
      BY <2>1, <2>2, <2>3 DEF Mispredicted, ResolvedBranches, Ended
  <2> QED
      BY <2>1, <2>4, FlushesKept DEF FlushInv
<1> QED
    BY <1>1, StepsRecord, IssueFlushes, OneRowFlushes, MispredictionFlushes

LEMMA FlushesTell == TimesInv /\ FlushInv => FlushesFollowMispredictions
<1> SUFFICES ASSUME TimesInv, FlushInv PROVE FlushesFollowMispredictions
    OBVIOUS
<1>1. Issued = Ids
    BY MispredictedRows
<1>2. \A k \in Ids : FlushedByOlder(k)
    BY DEF FlushInv
<1> QED
    BY <1>1, <1>2 DEF FlushesFollowMispredictions, FlushedByOlder

LEMMA FlushInvariant == SpecSim => [](TimesInv /\ FlushInv)
<1>1. InitSim => FlushInv
  <2> SUFFICES ASSUME InitSim PROVE FlushInv
      OBVIOUS
  <2>1. Ids = {}
      BY DEF InitSim, InitL1D, Init, Ids
  <2> QED
      BY <2>1 DEF FlushInv
<1> QED
    BY <1>1, InitRows, NextRows, NextFlushes, PTL DEF SpecSim

(***************************************************************************)
(* The status table tells which misprediction an instruction was a victim    *)
(* of: it is flushed exactly when an older mispredicted branch resolves after *)
(* its issue, and nothing is recorded of it after that.                      *)
(***************************************************************************)
THEOREM FlushesMispredictions == SpecSim => []FlushesFollowMispredictions
BY FlushInvariant, FlushesTell, PTL

-----------------------------------------------------------------------------
(* What is counted                                                           *)

Broadcasts == WrittenBack \cap RegisterWriters
Accessed == {k \in Started : IsMemoryOp(InstructionOf(k))}

HasBroadcast(t, i) == writesRegister(i) /\ t.writeback # NotYet
HasAccessed(t, i) == IsMemoryOp(i) /\ t.start # NotYet
HasResolved(t, i) == IsBranch(i) /\ t.end # NotYet
HasMispredicted(t, i) == HasResolved(t, i) /\ t.actualTaken # t.predictedTaken

\* These sets are told by their rows, before a step and after it.
LEMMA CountedByRow ==
    ASSUME TimesInv, [NextSim]_varsSim
    PROVE  /\ Issued = Ids /\ Issued' = Ids'
           /\ \A k \in Ids :
                /\ k \in Broadcasts <=> HasBroadcast(timeline[k], InstructionOf(k))
                /\ k \in Accessed <=> HasAccessed(timeline[k], InstructionOf(k))
                /\ k \in ResolvedBranches <=> HasResolved(timeline[k], InstructionOf(k))
                /\ k \in Mispredicted <=> HasMispredicted(timeline[k], InstructionOf(k))
                /\ k \in Ids' =>
                   /\ k \in Broadcasts' <=> HasBroadcast(timeline'[k], InstructionOf(k))
                   /\ k \in Accessed' <=> HasAccessed(timeline'[k], InstructionOf(k))
                   /\ k \in ResolvedBranches' <=> HasResolved(timeline'[k], InstructionOf(k))
                   /\ k \in Mispredicted' <=> HasMispredicted(timeline'[k], InstructionOf(k))
           /\ \A S \in {Broadcasts, Accessed, ResolvedBranches, Mispredicted} : S \subseteq Ids
           /\ \A S \in {Broadcasts', Accessed', ResolvedBranches', Mispredicted'} : S \subseteq Ids'
<1>1. TimesInv' /\ \A k \in Ids : InstructionOf(k)' = InstructionOf(k)
    BY NextRows, SimulatorSteps DEF TimesInv
<1>2. Issued = Ids /\ Issued' = Ids'
    BY <1>1 DEF Issued, TimesInv, RowsInv, TimelineTypeOK
<1>3. ASSUME NEW k \in Ids
      PROVE  /\ k \in Broadcasts <=> HasBroadcast(timeline[k], InstructionOf(k))
             /\ k \in Accessed <=> HasAccessed(timeline[k], InstructionOf(k))
             /\ k \in ResolvedBranches <=> HasResolved(timeline[k], InstructionOf(k))
             /\ k \in Mispredicted <=> HasMispredicted(timeline[k], InstructionOf(k))
    BY <1>2 DEF Broadcasts, WrittenBack, RegisterWriters, Accessed, Started, ResolvedBranches,
       Ended, Mispredicted, HasBroadcast, HasAccessed, HasResolved, HasMispredicted
<1>4. ASSUME NEW k \in Ids, k \in Ids'
      PROVE  /\ k \in Broadcasts' <=> HasBroadcast(timeline'[k], InstructionOf(k))
             /\ k \in Accessed' <=> HasAccessed(timeline'[k], InstructionOf(k))
             /\ k \in ResolvedBranches' <=> HasResolved(timeline'[k], InstructionOf(k))
             /\ k \in Mispredicted' <=> HasMispredicted(timeline'[k], InstructionOf(k))
    BY <1>1, <1>2, <1>4 DEF Broadcasts, WrittenBack, RegisterWriters, Accessed, Started,
       ResolvedBranches, Ended, Mispredicted, HasBroadcast, HasAccessed, HasResolved,
       HasMispredicted
<1>5. /\ Broadcasts \subseteq Ids /\ Accessed \subseteq Ids /\ ResolvedBranches \subseteq Ids
      /\ Mispredicted \subseteq Ids
    BY <1>2 DEF Broadcasts, WrittenBack, Accessed, Started, ResolvedBranches, Ended, Mispredicted
<1>6. /\ Broadcasts' \subseteq Ids' /\ Accessed' \subseteq Ids' /\ ResolvedBranches' \subseteq Ids'
      /\ Mispredicted' \subseteq Ids'
    BY <1>2 DEF Broadcasts, WrittenBack, Accessed, Started, ResolvedBranches, Ended, Mispredicted
<1> QED
    BY <1>2, <1>3, <1>4, <1>5, <1>6

\* A step that records no stage, or an issue, counts nothing.
LEMMA NothingCounted ==
    ASSUME TimesInv, [NextSim]_varsSim, NoRowChanges \/ RowIsAdded
    PROVE  /\ Committed' = Committed /\ Broadcasts' = Broadcasts /\ Accessed' = Accessed
           /\ ResolvedBranches' = ResolvedBranches /\ Mispredicted' = Mispredicted
<1>1. CASE NoRowChanges
    BY <1>1, CountedByRow DEF NoRowChanges
<1>2. CASE RowIsAdded
  <2>1. /\ Ids' = Ids \cup {nextId} /\ \A j \in Ids : timeline'[j] = timeline[j]
        /\ Committed' = Committed
        /\ LET row == timeline'[nextId] IN
             row.start = NotYet /\ row.end = NotYet /\ row.writeback = NotYet
      BY <1>2 DEF RowIsAdded
  <2>2. nextId \notin Ids
      BY LoopFacts DEF TimesInv
  <2>3. /\ nextId \notin Broadcasts' /\ nextId \notin Accessed'
        /\ nextId \notin ResolvedBranches' /\ nextId \notin Mispredicted'
      BY <2>1 DEF Broadcasts, WrittenBack, Accessed, Started, ResolvedBranches, Ended, Mispredicted
  <2> QED
      BY <2>1, <2>2, <2>3, CountedByRow
<1> QED
    BY <1>1, <1>2

\* What a stage of one instruction adds.
LEMMA OneCounted ==
    ASSUME TimesInv, [NextSim]_varsSim, NEW k \in Ids
    PROVE  /\ RowStarts(k) =>
                /\ Committed' = Committed /\ Broadcasts' = Broadcasts
                /\ ResolvedBranches' = ResolvedBranches /\ Mispredicted' = Mispredicted
                /\ k \notin Accessed
                /\ Accessed' = IF IsMemoryOp(InstructionOf(k)) THEN Accessed \cup {k} ELSE Accessed
           /\ RowCommits(k) =>
                /\ k \notin Committed /\ Committed' = Committed \cup {k}
                /\ Broadcasts' = Broadcasts /\ Accessed' = Accessed
                /\ ResolvedBranches' = ResolvedBranches /\ Mispredicted' = Mispredicted
           /\ RowIsBroadcast(k) =>
                /\ k \notin Broadcasts /\ Broadcasts' = Broadcasts \cup {k}
                /\ Committed' = Committed /\ Accessed' = Accessed
                /\ ResolvedBranches' = ResolvedBranches /\ Mispredicted' = Mispredicted
           /\ RowEnds(k) =>
                /\ Committed' = Committed /\ Broadcasts' = Broadcasts /\ Accessed' = Accessed
                /\ k \notin ResolvedBranches
                /\ ResolvedBranches' = IF IsBranch(InstructionOf(k))
                                       THEN ResolvedBranches \cup {k} ELSE ResolvedBranches
                /\ Mispredicted' = Mispredicted
           /\ RowIsMispredicted(k) =>
                /\ Committed' = Committed /\ Broadcasts' = Broadcasts /\ Accessed' = Accessed
                /\ k \notin ResolvedBranches /\ ResolvedBranches' = ResolvedBranches \cup {k}
                /\ k \notin Mispredicted /\ Mispredicted' = Mispredicted \cup {k}
<1>1. cycle \in Nat /\ cycle # NotYet /\ k \in Ids /\ Ids \subseteq Nat
    BY LoopFacts DEF TimesInv, RowsInv, TimelineTypeOK, NotYet
<1>2. ASSUME OneRowChanges(k)
      PROVE  /\ Ids' = Ids
             /\ Broadcasts \ {k} = Broadcasts' \ {k} /\ Accessed \ {k} = Accessed' \ {k}
             /\ ResolvedBranches \ {k} = ResolvedBranches' \ {k}
             /\ Mispredicted \ {k} = Mispredicted' \ {k}
    BY <1>2, CountedByRow DEF OneRowChanges
<1>3. ASSUME RowStarts(k)
      PROVE  /\ Committed' = Committed /\ Broadcasts' = Broadcasts
             /\ ResolvedBranches' = ResolvedBranches /\ Mispredicted' = Mispredicted
             /\ k \notin Accessed
             /\ Accessed' = IF IsMemoryOp(InstructionOf(k)) THEN Accessed \cup {k} ELSE Accessed
  <2>1. OneRowChanges(k) /\ Committed' = Committed
      BY <1>3 DEF RowStarts
  <2>2. /\ k \in Broadcasts' <=> k \in Broadcasts
        /\ k \in ResolvedBranches' <=> k \in ResolvedBranches
        /\ k \in Mispredicted' <=> k \in Mispredicted
        /\ k \notin Accessed /\ (k \in Accessed' <=> IsMemoryOp(InstructionOf(k)))
      BY <1>1, <1>2, <1>3, <2>1, CountedByRow
      DEF RowStarts, RowIs, HasBroadcast, HasAccessed, HasResolved, HasMispredicted
  <2> QED
      BY <1>2, <2>1, <2>2
<1>4. ASSUME RowCommits(k)
      PROVE  /\ k \notin Committed /\ Committed' = Committed \cup {k}
             /\ Broadcasts' = Broadcasts /\ Accessed' = Accessed
             /\ ResolvedBranches' = ResolvedBranches /\ Mispredicted' = Mispredicted
  <2>1. OneRowChanges(k) /\ Committed' = Committed \cup {k} /\ k \in InFlight
      BY <1>4 DEF RowCommits, OneRowChanges
  <2>2. /\ k \in Broadcasts' <=> k \in Broadcasts
        /\ k \in Accessed' <=> k \in Accessed
        /\ k \in ResolvedBranches' <=> k \in ResolvedBranches
        /\ k \in Mispredicted' <=> k \in Mispredicted
      BY <1>1, <1>2, <1>4, <2>1, CountedByRow
      DEF RowCommits, RowIs, HasBroadcast, HasAccessed, HasResolved, HasMispredicted
  <2>3. k \notin Committed
      BY <2>1, LoopFacts DEF TimesInv
  <2> QED
      BY <1>2, <2>1, <2>2, <2>3
<1>5. ASSUME RowIsBroadcast(k)
      PROVE  /\ k \notin Broadcasts /\ Broadcasts' = Broadcasts \cup {k}
             /\ Committed' = Committed /\ Accessed' = Accessed
             /\ ResolvedBranches' = ResolvedBranches /\ Mispredicted' = Mispredicted
  <2>1. OneRowChanges(k) /\ Committed' = Committed
      BY <1>5 DEF RowIsBroadcast
  <2>2. /\ k \notin Broadcasts /\ k \in Broadcasts' /\ (k \in Accessed' <=> k \in Accessed)
        /\ k \in ResolvedBranches' <=> k \in ResolvedBranches
        /\ k \in Mispredicted' <=> k \in Mispredicted
      BY <1>1, <1>2, <1>5, <2>1, CountedByRow
      DEF RowIsBroadcast, RowIs, HasBroadcast, HasAccessed, HasResolved, HasMispredicted
  <2> QED
      BY <1>2, <2>1, <2>2
<1>6. ASSUME RowEnds(k)
      PROVE  /\ Committed' = Committed /\ Broadcasts' = Broadcasts /\ Accessed' = Accessed
             /\ k \notin ResolvedBranches
             /\ ResolvedBranches' = IF IsBranch(InstructionOf(k))
                                    THEN ResolvedBranches \cup {k} ELSE ResolvedBranches
             /\ Mispredicted' = Mispredicted
  <2>1. OneRowChanges(k) /\ Committed' = Committed
      BY <1>6 DEF RowEnds
  <2>2. /\ k \notin Broadcasts /\ k \notin Broadcasts' /\ (k \in Accessed' <=> k \in Accessed)
        /\ k \notin ResolvedBranches /\ (k \in ResolvedBranches' <=> IsBranch(InstructionOf(k)))
        /\ k \notin Mispredicted /\ k \notin Mispredicted'
      BY <1>1, <1>2, <1>6, <2>1, CountedByRow
      DEF RowEnds, EndsNow, HasBroadcast, HasAccessed, HasResolved, HasMispredicted
  <2> QED
      BY <1>2, <2>1, <2>2
<1>7. ASSUME RowIsMispredicted(k)
      PROVE  /\ Committed' = Committed /\ Broadcasts' = Broadcasts /\ Accessed' = Accessed
             /\ k \notin ResolvedBranches /\ ResolvedBranches' = ResolvedBranches \cup {k}
             /\ k \notin Mispredicted /\ Mispredicted' = Mispredicted \cup {k}
  <2>1. Committed' = Committed /\ Ids' = Ids
      BY <1>7 DEF RowIsMispredicted
  <2>2. /\ k \notin Broadcasts /\ k \notin Broadcasts' /\ (k \in Accessed' <=> k \in Accessed)
        /\ k \notin ResolvedBranches /\ k \in ResolvedBranches'
        /\ k \notin Mispredicted /\ k \in Mispredicted'
      BY <1>1, <1>7, <2>1, CountedByRow
      DEF RowIsMispredicted, EndsNow, HasBroadcast, HasAccessed, HasResolved, HasMispredicted
  <2>3. ASSUME NEW j \in Ids, j # k
        PROVE  /\ j \in Broadcasts' <=> j \in Broadcasts
               /\ j \in Accessed' <=> j \in Accessed
               /\ j \in ResolvedBranches' <=> j \in ResolvedBranches
               /\ j \in Mispredicted' <=> j \in Mispredicted
    <3>1. j < k \/ j > k
        BY <1>1, <2>3
    <3>2. /\ timeline'[j].start = timeline[j].start /\ timeline'[j].end = timeline[j].end
          /\ timeline'[j].writeback = timeline[j].writeback
          /\ timeline'[j].actualTaken = timeline[j].actualTaken
          /\ timeline'[j].predictedTaken = timeline[j].predictedTaken
        BY <1>7, <3>1 DEF RowIsMispredicted, RowIs
    <3> QED
        BY <2>1, <3>2, CountedByRow DEF HasBroadcast, HasAccessed, HasResolved, HasMispredicted
  <2> QED
      BY <2>1, <2>2, <2>3, CountedByRow
<1> QED
    BY <1>3, <1>4, <1>5, <1>6, <1>7

-----------------------------------------------------------------------------
(* The performance counters                                                  *)

CountersTypeOK ==
    /\ counters \in [CounterNames -> Nat]
    /\ stalledThisCycle \in BOOLEAN /\ backendStalledThisCycle \in BOOLEAN
    /\ cacheStats \in [accesses : Nat, hits : Nat, misses : Nat, writebacks : Nat,
                       totalAccessLatency : Nat]

TallyNames ==
    MixClasses \cup {"committedInstructions", "cdbBroadcasts", "branchCount", "branchCorrect",
                     "branchMispredictions"}
StallNames ==
    {"issueStallCycles", "robFullStallCycles", "rsFullStallCycles", "totalStallEvents",
     "rawDependencyStallEvents", "fuBusyStallEvents", "memoryOrderingStallEvents"}

Tallies ==
    /\ counters["committedInstructions"] = Cardinality(Committed)
    /\ counters["committedInstructions"] = CommitMix
    /\ counters["cdbBroadcasts"] = Cardinality(Broadcasts)
    /\ counters["branchCount"] = Cardinality(ResolvedBranches)
    /\ counters["branchMispredictions"] = Cardinality(Mispredicted)
    /\ counters["branchCount"] = counters["branchCorrect"] + counters["branchMispredictions"]

StallsAddUp ==
    /\ counters["issueStallCycles"] =
         counters["robFullStallCycles"] + counters["rsFullStallCycles"]
    /\ counters["totalStallEvents"] =
         counters["issueStallCycles"] + counters["rawDependencyStallEvents"]
         + counters["fuBusyStallEvents"] + counters["memoryOrderingStallEvents"]

MissesAreCounted ==
    /\ cacheStats.misses * MissPenalty = counters["memoryStallCycles"]
    /\ l1dEnabled => cacheStats.accesses = Cardinality(Accessed)

\* The stalls of a cycle are flags until it ends.
One(b) == IF b THEN 1 ELSE 0
BetweenCycles == phase \in {"issue", "done"}
StalledSoFar == counters["cyclesWithAnyStall"] + One(~BetweenCycles /\ stalledThisCycle)
BackendStalledSoFar ==
    counters["backendStallCycles"] + One(~BetweenCycles /\ backendStalledThisCycle)

StalledCyclesAreCounted ==
    /\ StalledSoFar <= cycle - One(BetweenCycles)
    /\ counters["issueStallCycles"] <= StalledSoFar /\ BackendStalledSoFar <= StalledSoFar
    /\ StalledSoFar <= counters["issueStallCycles"] + BackendStalledSoFar
    /\ counters["cyclesWithAnyStall"] <= cycle - 1
    /\ counters["backendStallCycles"] <= counters["cyclesWithAnyStall"]
    /\ counters["cyclesWithAnyStall"]
         <= counters["issueStallCycles"] + counters["backendStallCycles"]

CountInv ==
    CountersTypeOK /\ Tallies /\ StallsAddUp /\ MissesAreCounted /\ StalledCyclesAreCounted

\* What counting does to every counter.
LEMMA CountFacts ==
    ASSUME CountersTypeOK, NEW names, Count(names)
    PROVE  /\ counters' \in [CounterNames -> Nat]
           /\ \A c \in CounterNames :
                counters'[c] = IF c \in names THEN counters[c] + 1 ELSE counters[c]
BY DEF CountersTypeOK, Count, Counted

LEMMA CounterNameFacts ==
    /\ TallyNames \subseteq CounterNames /\ StallNames \subseteq CounterNames
    /\ "memoryStallCycles" \in CounterNames /\ "cyclesWithAnyStall" \in CounterNames
    /\ "backendStallCycles" \in CounterNames
BY DEF TallyNames, StallNames, CounterNames, MixClasses

\* Every instruction is of one class of the mix.
LEMMA MixClassType ==
    ASSUME NEW i \in WellFormedInstructions PROVE mixClass(i.op) \in MixClasses
<1>1. i.op \in OpCodes
    BY DEF WellFormedInstructions, Instructions
<1> QED
    BY <1>1 DEF mixClass, MixClasses, OpCodes, ArithmeticOps, BranchOps

\* Three stages and two stalls are counted as they happen, the rest when the cycle ends.
LEMMA OthersCount ==
    ASSUME CountersTypeOK, [NextSim]_varsSim
    PROVE  \/ counters' = counters
           \/ IssueStalls \/ CommitRecorded \/ EndCycleRecorded
           \/ \E k \in todo : WaitStalled(k) \/ StartRecorded(k) \/ ResolveRecorded(k)
           \/ \E k \in DOMAIN cdbQueue : BroadcastRecorded(k)
BY DEF NextSim, varsSim, recordVars, IssuePredicted, NothingToIssue, Proceed, NoCommitRecorded,
   NoBroadcastRecorded, CompleteRecorded, Stop

\* Of a start the only counter is that of the miss penalties.
LEMMA StartCounts ==
    ASSUME CountersTypeOK, NEW k \in todo, StartRecorded(k)
    PROVE  /\ ExtraMissLatency(k) \in Nat /\ counters' \in [CounterNames -> Nat]
           /\ counters'["memoryStallCycles"] = counters["memoryStallCycles"] + ExtraMissLatency(k)
           /\ \A c \in CounterNames : c # "memoryStallCycles" => counters'[c] = counters[c]
           /\ UNCHANGED <<cycle, stalledThisCycle, backendStalledThisCycle>>
<1>1. ExtraMissLatency(k) \in Nat
    BY L1DAssumption DEF ExtraMissLatency, L1D!access
<1>2. /\ counters' = [counters EXCEPT !["memoryStallCycles"] = @ + ExtraMissLatency(k)]
      /\ UNCHANGED <<cycle, stalledThisCycle, backendStalledThisCycle>>
    BY DEF StartRecorded
<1>3. counters \in [CounterNames -> Nat] /\ "memoryStallCycles" \in CounterNames
    BY CounterNameFacts DEF CountersTypeOK
<1> QED
    BY <1>1, <1>2, <1>3

LEMMA CacheStatsStay ==
    ASSUME [NextSim]_varsSim, ~ \E k \in todo : StartRecorded(k)
    PROVE  cacheStats' = cacheStats
BY DEF NextSim, varsSim, varsL1D, cacheVars, IssuePredicted, IssueStalls, NothingToIssue,
   CycleStarts, Proceed, WaitStalled, WaitL1D, CommitRecorded, NoCommitRecorded,
   BroadcastRecorded, NoBroadcastRecorded, CompleteRecorded, ResolveRecorded, CompleteL1D,
   L1D!CompleteAccess, ResolveMispredictedL1D, L1D!CancelAccesses, EndCycleRecorded, Stop

\* What the cache counts of a start.
LEMMA StartIsCounted ==
    ASSUME CountersTypeOK, NEW k \in todo, StartRecorded(k)
    PROVE  /\ cacheStats' \in [accesses : Nat, hits : Nat, misses : Nat, writebacks : Nat,
                               totalAccessLatency : Nat]
           /\ \/ /\ UsesCache(k) /\ cacheStats'.accesses = cacheStats.accesses + 1
                 /\ \/ cacheStats'.misses = cacheStats.misses /\ ExtraMissLatency(k) = 0
                    \/ /\ cacheStats'.misses = cacheStats.misses + 1
                       /\ ExtraMissLatency(k) = MissPenalty
              \/ ~UsesCache(k) /\ cacheStats' = cacheStats /\ ExtraMissLatency(k) = 0
<1>1. StartAccess(k) \/ StartWithoutCache(k)
    BY DEF StartRecorded
<1>2. CASE StartAccess(k)
  <2>1. PICK result : result = L1D!access(Unsigned(Address(k)), IsStore(k))
      OBVIOUS
  <2>2. /\ result.latency \in Nat
        /\ \/ result.latency = HitLatency /\ L1D!count(~result.hit) = 0
           \/ result.latency = HitLatency + MissPenalty /\ L1D!count(~result.hit) = 1
    <3>1. CASE L1D!isHit(Unsigned(Address(k)))
        BY <2>1, <3>1, L1DAssumption DEF L1D!access, L1D!count
    <3>2. CASE ~L1D!isHit(Unsigned(Address(k)))
        BY <2>1, <3>2, L1DAssumption DEF L1D!access, L1D!count
    <3> QED
        BY <3>1, <3>2
  <2>3. PICK hits, misses, writebacks :
          /\ hits \in Nat /\ misses = L1D!count(~result.hit) /\ writebacks \in Nat
          /\ cacheStats' = [cacheStats EXCEPT
                !.accesses = @ + 1,
                !.hits = @ + hits,
                !.misses = @ + misses,
                !.writebacks = @ + writebacks,
                !.totalAccessLatency = @ + result.latency]
    <3>1. \A b : L1D!count(b) \in Nat
        BY DEF L1D!count
    <3> QED
        BY <1>2, <2>1, <3>1 DEF StartAccess, L1D!StartAccess
  <2>4. PICK stats \in [accesses : Nat, hits : Nat, misses : Nat, writebacks : Nat,
                        totalAccessLatency : Nat] : stats = cacheStats
      BY DEF CountersTypeOK
  <2>5. PICK latency \in Nat : latency = result.latency
      BY <2>2
  <2>6. misses \in Nat
      BY <2>2, <2>3
  <2>7. /\ cacheStats' \in [accesses : Nat, hits : Nat, misses : Nat, writebacks : Nat,
                            totalAccessLatency : Nat]
        /\ cacheStats'.accesses = stats.accesses + 1
        /\ cacheStats'.misses = stats.misses + misses
    <3>1. cacheStats' = [stats EXCEPT
                !.accesses = @ + 1,
                !.hits = @ + hits,
                !.misses = @ + misses,
                !.writebacks = @ + writebacks,
                !.totalAccessLatency = @ + latency]
        BY <2>3, <2>4, <2>5
    <3>2. /\ stats.accesses \in Nat /\ stats.hits \in Nat /\ stats.misses \in Nat
          /\ stats.writebacks \in Nat /\ stats.totalAccessLatency \in Nat
        OBVIOUS
    <3>3. cacheStats' = [accesses |-> stats.accesses + 1, hits |-> stats.hits + hits,
                         misses |-> stats.misses + misses,
                         writebacks |-> stats.writebacks + writebacks,
                         totalAccessLatency |-> stats.totalAccessLatency + latency]
        BY <3>1
    <3>4. /\ stats.accesses + 1 \in Nat /\ stats.hits + hits \in Nat
          /\ stats.misses + misses \in Nat /\ stats.writebacks + writebacks \in Nat
          /\ stats.totalAccessLatency + latency \in Nat
        BY <2>3, <2>6, <3>2
    <3> QED
        BY <3>3, <3>4
  <2>8. UsesCache(k) /\ ExtraMissLatency(k) = result.latency - HitLatency
      BY <1>2, <2>1 DEF StartAccess, ExtraMissLatency
  <2>9. \/ misses = 0 /\ ExtraMissLatency(k) = 0
        \/ misses = 1 /\ ExtraMissLatency(k) = MissPenalty
      BY <2>2, <2>3, <2>8, L1DAssumption
  <2> QED
      BY <2>4, <2>7, <2>8, <2>9
<1>3. CASE StartWithoutCache(k)
    BY <1>3 DEF StartWithoutCache, cacheVars, ExtraMissLatency, CountersTypeOK
<1> QED
    BY <1>1, <1>2, <1>3

LEMMA NextCounterTypes == CountersTypeOK /\ [NextSim]_varsSim => CountersTypeOK'
<1> SUFFICES ASSUME CountersTypeOK, [NextSim]_varsSim PROVE CountersTypeOK'
    OBVIOUS
<1>1. counters' \in [CounterNames -> Nat]
  <2>1. counters \in [CounterNames -> Nat]
      BY DEF CountersTypeOK
  <2>2. ASSUME \/ IssueStalls \/ CommitRecorded \/ EndCycleRecorded
               \/ \E k \in todo : WaitStalled(k) \/ ResolveRecorded(k)
               \/ \E k \in DOMAIN cdbQueue : BroadcastRecorded(k)
        PROVE  \E names : Count(names)
      BY <2>2 DEF IssueStalls, CommitRecorded, EndCycleRecorded, WaitStalled, ResolveRecorded,
         BroadcastRecorded
  <2>3. ASSUME NEW names, Count(names) PROVE counters' \in [CounterNames -> Nat]
      BY <2>3, CountFacts
  <2> QED
      BY <2>1, <2>2, <2>3, OthersCount, StartCounts
<1>2. stalledThisCycle' \in BOOLEAN /\ backendStalledThisCycle' \in BOOLEAN
    BY DEF CountersTypeOK, NextSim, varsSim, recordVars, IssuePredicted, IssueStalls,
       NothingToIssue, CycleStarts, Proceed, WaitStalled, StartRecorded, CommitRecorded,
       NoCommitRecorded, BroadcastRecorded, NoBroadcastRecorded, CompleteRecorded,
       ResolveRecorded, Leaves, EndCycleRecorded, Stop
<1>3. cacheStats' \in [accesses : Nat, hits : Nat, misses : Nat, writebacks : Nat,
                       totalAccessLatency : Nat]
    BY CacheStatsStay, StartIsCounted DEF CountersTypeOK
<1> QED
    BY <1>1, <1>2, <1>3 DEF CountersTypeOK

\* What is counted is finite.
LEMMA CountedAreFinite ==
    ASSUME TimesInv, [NextSim]_varsSim
    PROVE  /\ IsFiniteSet(Ids) /\ IsFiniteSet(Ids')
           /\ \A S \in SUBSET Ids : IsFiniteSet(S) /\ Cardinality(S) \in Nat
<1>1. nextId \in Nat /\ nextId' \in Nat
  <2>1. TimesInv'
      BY NextRows
  <2>2. TypeOK'
      BY <2>1 DEF TimesInv, QueueInv, ResultInv, FateInv, RobInv, TypeInv
  <2> QED
      BY <2>2, LoopFacts DEF TimesInv, TypeOK
<1>2. \A n \in Nat : IsFiniteSet(0 .. n - 1)
  <2>1. \A n \in Nat : 0 \in Int /\ n - 1 \in Int
      OBVIOUS
  <2> QED
      BY <2>1, FS_Interval
<1>3. IsFiniteSet(Ids) /\ IsFiniteSet(Ids')
    BY <1>1, <1>2 DEF Ids
<1> QED
    BY <1>3, FS_Subset, FS_CardinalityType

\* Adding one that was not there counts one more.
LEMMA OneMore ==
    ASSUME TimesInv, [NextSim]_varsSim, NEW S \in SUBSET Ids, NEW k \in Ids, k \notin S
    PROVE  Cardinality(S \cup {k}) = Cardinality(S) + 1 /\ Cardinality(S) \in Nat
<1>1. IsFiniteSet(S) /\ Cardinality(S) \in Nat
    BY CountedAreFinite
<1> QED
    BY <1>1, FS_AddElement

\* A step that records no commit, broadcast or resolution.
LEMMA TalliesStay ==
    ASSUME Tallies, \A c \in TallyNames : counters'[c] = counters[c],
           Committed' = Committed, Broadcasts' = Broadcasts,
           ResolvedBranches' = ResolvedBranches, Mispredicted' = Mispredicted
    PROVE  Tallies'
<1>1. CommitMix' = CommitMix
    BY DEF CommitMix, TallyNames, MixClasses
<1>2. /\ counters'["committedInstructions"] = counters["committedInstructions"]
      /\ counters'["cdbBroadcasts"] = counters["cdbBroadcasts"]
      /\ counters'["branchCount"] = counters["branchCount"]
      /\ counters'["branchCorrect"] = counters["branchCorrect"]
      /\ counters'["branchMispredictions"] = counters["branchMispredictions"]
    BY DEF TallyNames
<1> QED
    BY <1>1, <1>2 DEF Tallies

LEMMA QuietTallies ==
    ASSUME CountersTypeOK, RecordsNoStage
    PROVE  \A c \in TallyNames : counters'[c] = counters[c]
<1>1. ASSUME NEW names, Count(names), names \cap TallyNames = {}
      PROVE  \A c \in TallyNames : counters'[c] = counters[c]
    BY <1>1, CountFacts, CounterNameFacts
<1>2. CASE IssueStalls
  <2>1. \E c \in {"robFullStallCycles", "rsFullStallCycles"} :
            Count({"issueStallCycles", "totalStallEvents", c})
      BY <1>2 DEF IssueStalls
  <2> QED
      BY <1>1, <2>1 DEF TallyNames, MixClasses
<1>3. CASE EndCycleRecorded
  <2>1. \E names \in SUBSET {"cyclesWithAnyStall", "backendStallCycles"} : Count(names)
      BY <1>3 DEF EndCycleRecorded
  <2> QED
      BY <1>1, <2>1 DEF TallyNames, MixClasses
<1>4. CASE NothingToIssue \/ NoCommitRecorded \/ NoBroadcastRecorded \/ Stop \/ UNCHANGED varsSim
    BY <1>4 DEF NothingToIssue, NoCommitRecorded, NoBroadcastRecorded, Stop, recordVars, varsSim
<1> QED
    BY <1>2, <1>3, <1>4 DEF RecordsNoStage

LEMMA VisitTallies ==
    ASSUME CountersTypeOK, NEW k \in todo, Proceed(k) \/ WaitStalled(k) \/ StartRecorded(k)
    PROVE  \A c \in TallyNames : counters'[c] = counters[c]
<1>1. CASE Proceed(k)
    BY <1>1 DEF Proceed, recordVars
<1>2. CASE WaitStalled(k)
  <2>1. StallReason(k) \notin TallyNames
      BY DEF StallReason, TallyNames, MixClasses
  <2>2. Count({"totalStallEvents", StallReason(k)}) /\ "totalStallEvents" \notin TallyNames
      BY <1>2 DEF WaitStalled, StallEvents, TallyNames, MixClasses
  <2> QED
      BY <2>1, <2>2, CountFacts, CounterNameFacts
<1>3. CASE StartRecorded(k)
  <2>1. "memoryStallCycles" \notin TallyNames
      BY DEF TallyNames, MixClasses
  <2> QED
      BY <1>3, <2>1, StartCounts, CounterNameFacts
<1> QED
    BY <1>1, <1>2, <1>3

LEMMA CommitIsCounted ==
    ASSUME TimesInv, CommitRecorded
    PROVE  \E m \in MixClasses : Count({"committedInstructions", m})
<1>1. PICK k : k = robEntries[robHead].id
    OBVIOUS
<1>2. k \in Ids
    BY <1>1, CommitChanges, LoopFacts DEF RowCommits, OneRowChanges, TimesInv
<1>3. InstructionOf(k) \in WellFormedInstructions
    BY <1>2, IssuedAreWellFormed DEF TimesInv
<1> QED
    BY <1>1, <1>3, MixClassType DEF CommitRecorded

\* A commit is counted once in its class.
LEMMA CommitTallies ==
    ASSUME TimesInv, CountersTypeOK, Tallies, CommitRecorded PROVE Tallies'
<1>1. PICK k : k = robEntries[robHead].id
    OBVIOUS
<1>2. RowCommits(k) /\ k \in Ids
    BY <1>1, CommitChanges, LoopFacts DEF RowCommits, OneRowChanges, TimesInv
<1>3. /\ k \notin Committed /\ Committed' = Committed \cup {k} /\ Broadcasts' = Broadcasts
      /\ ResolvedBranches' = ResolvedBranches /\ Mispredicted' = Mispredicted
    BY <1>2, OneCounted DEF NextSim
<1>4. Cardinality(Committed') = Cardinality(Committed) + 1
  <2>1. Committed \in SUBSET Ids
      BY LoopFacts DEF TimesInv
  <2>2. [NextSim]_varsSim
      BY DEF NextSim
  <2> QED
      BY <1>2, <1>3, <2>1, <2>2, OneMore
<1>5. PICK m \in MixClasses : Count({"committedInstructions", m})
    BY CommitIsCounted
<1>6. \A c \in TallyNames :
          counters'[c] = IF c \in {"committedInstructions", m} THEN counters[c] + 1 ELSE counters[c]
    BY <1>5, CountFacts, CounterNameFacts
<1>7. \A c \in TallyNames : counters[c] \in Nat
    BY CounterNameFacts DEF CountersTypeOK
<1>8. CommitMix' = CommitMix + 1
  <2>1. \A c \in MixClasses :
          /\ counters[c] \in Nat
          /\ counters'[c] = IF c = m THEN counters[c] + 1 ELSE counters[c]
      BY <1>6, <1>7 DEF TallyNames, MixClasses
  <2>2. PICK int, mul, fpAdd, fpMul, load, store, branch \in Nat :
          /\ int = counters["int"] /\ mul = counters["mul"] /\ fpAdd = counters["fpAdd"]
          /\ fpMul = counters["fpMul"] /\ load = counters["load"]
          /\ store = counters["store"] /\ branch = counters["branch"]
      BY <2>1 DEF MixClasses
  <2>3. /\ counters'["int"] = IF m = "int" THEN int + 1 ELSE int
        /\ counters'["mul"] = IF m = "mul" THEN mul + 1 ELSE mul
        /\ counters'["fpAdd"] = IF m = "fpAdd" THEN fpAdd + 1 ELSE fpAdd
        /\ counters'["fpMul"] = IF m = "fpMul" THEN fpMul + 1 ELSE fpMul
        /\ counters'["load"] = IF m = "load" THEN load + 1 ELSE load
        /\ counters'["store"] = IF m = "store" THEN store + 1 ELSE store
        /\ counters'["branch"] = IF m = "branch" THEN branch + 1 ELSE branch
      BY <2>1, <2>2 DEF MixClasses
  <2>4. CommitMix = int + mul + fpAdd + fpMul + load + store + branch
      BY <2>2 DEF CommitMix
  <2>5. m \in {"int", "mul", "fpAdd", "fpMul", "load", "store", "branch"}
      BY DEF MixClasses
  <2> QED
      BY <2>3, <2>4, <2>5 DEF CommitMix
<1>9. /\ counters'["committedInstructions"] = counters["committedInstructions"] + 1
      /\ counters'["cdbBroadcasts"] = counters["cdbBroadcasts"]
      /\ counters'["branchCount"] = counters["branchCount"]
      /\ counters'["branchCorrect"] = counters["branchCorrect"]
      /\ counters'["branchMispredictions"] = counters["branchMispredictions"]
    BY <1>6 DEF TallyNames, MixClasses
<1> QED
    BY <1>3, <1>4, <1>8, <1>9 DEF Tallies

LEMMA BroadcastTallies ==
    ASSUME TimesInv, CountersTypeOK, Tallies, NEW k \in DOMAIN cdbQueue, BroadcastRecorded(k)
    PROVE  Tallies'
<1>1. RowIsBroadcast(k) /\ k \in Ids /\ [NextSim]_varsSim
    BY BroadcastChanges, LoopFacts DEF TimesInv, NextSim
<1>2. /\ k \notin Broadcasts /\ Broadcasts' = Broadcasts \cup {k} /\ Committed' = Committed
      /\ ResolvedBranches' = ResolvedBranches /\ Mispredicted' = Mispredicted
    BY <1>1, OneCounted
<1>3. Cardinality(Broadcasts') = Cardinality(Broadcasts) + 1
  <2>1. Broadcasts \in SUBSET Ids
      BY <1>1, CountedByRow
  <2> QED
      BY <1>1, <1>2, <2>1, OneMore
<1>4. /\ \A c \in TallyNames \ {"cdbBroadcasts"} : counters'[c] = counters[c]
      /\ counters'["cdbBroadcasts"] = counters["cdbBroadcasts"] + 1
  <2>1. Count({"cdbBroadcasts"}) /\ "cdbBroadcasts" \in TallyNames
      BY DEF BroadcastRecorded, TallyNames
  <2> QED
      BY <2>1, CountFacts, CounterNameFacts
<1>5. CommitMix' = CommitMix
    BY <1>4 DEF CommitMix, TallyNames, MixClasses
<1>6. /\ counters'["committedInstructions"] = counters["committedInstructions"]
      /\ counters'["branchCount"] = counters["branchCount"]
      /\ counters'["branchCorrect"] = counters["branchCorrect"]
      /\ counters'["branchMispredictions"] = counters["branchMispredictions"]
    BY <1>4 DEF TallyNames
<1> QED
    BY <1>2, <1>3, <1>4, <1>5, <1>6 DEF Tallies

\* A resolution is counted as a branch, and as predicted correctly or not.
LEMMA ResolveTallies ==
    ASSUME TimesInv, CountersTypeOK, Tallies, NEW k \in todo, ResolveRecorded(k)
    PROVE  Tallies'
<1>1. k \in Ids /\ [NextSim]_varsSim /\ IsBranch(InstructionOf(k))
  <2>1. k \in Ids /\ active[k].instr = InstructionOf(k)
      BY LoopFacts, ActiveInFlight DEF TimesInv
  <2> QED
      BY <2>1 DEF ResolveRecorded, NextSim
<1>2. PICK c \in {"branchCorrect", "branchMispredictions"} :
          /\ Count({"branchCount", c})
          /\ c = "branchCorrect" => RowEnds(k)
          /\ c = "branchMispredictions" => RowIsMispredicted(k)
  <2>1. \/ /\ CompleteL1D(k) /\ timeline' = Resolved(k) /\ Count({"branchCount", "branchCorrect"})
        \/ /\ ResolveMispredictedL1D(k) /\ timeline' = TimesFlushed(k, Resolved(k))
           /\ Count({"branchCount", "branchMispredictions"})
      BY DEF ResolveRecorded
  <2> QED
      BY <2>1, ResolveCorrectChanges, ResolveMispredictedChanges DEF ResolveMispredictedL1D
<1>3. /\ Committed' = Committed /\ Broadcasts' = Broadcasts
      /\ k \notin ResolvedBranches /\ ResolvedBranches' = ResolvedBranches \cup {k}
      /\ c = "branchCorrect" => Mispredicted' = Mispredicted
      /\ c = "branchMispredictions" => k \notin Mispredicted /\ Mispredicted' = Mispredicted \cup {k}
    BY <1>1, <1>2, OneCounted
<1>4. /\ Cardinality(ResolvedBranches') = Cardinality(ResolvedBranches) + 1
      /\ c = "branchMispredictions" => Cardinality(Mispredicted') = Cardinality(Mispredicted) + 1
  <2>1. ResolvedBranches \in SUBSET Ids /\ Mispredicted \in SUBSET Ids
      BY <1>1, CountedByRow
  <2> QED
      BY <1>1, <1>3, <2>1, OneMore
<1>5. \A n \in TallyNames :
          counters'[n] = IF n \in {"branchCount", c} THEN counters[n] + 1 ELSE counters[n]
    BY <1>2, CountFacts, CounterNameFacts
<1>6. /\ counters["branchCount"] \in Nat /\ counters["branchCorrect"] \in Nat
      /\ counters["branchMispredictions"] \in Nat
    BY CounterNameFacts DEF CountersTypeOK, TallyNames
<1>7. CommitMix' = CommitMix
    BY <1>5 DEF CommitMix, TallyNames, MixClasses
<1>8. /\ counters'["committedInstructions"] = counters["committedInstructions"]
      /\ counters'["cdbBroadcasts"] = counters["cdbBroadcasts"]
      /\ counters'["branchCount"] = counters["branchCount"] + 1
      /\ counters'["branchCorrect"] =
           IF c = "branchCorrect" THEN counters["branchCorrect"] + 1 ELSE counters["branchCorrect"]
      /\ counters'["branchMispredictions"] =
           IF c = "branchMispredictions" THEN counters["branchMispredictions"] + 1
           ELSE counters["branchMispredictions"]
    BY <1>5 DEF TallyNames
<1>9. counters'["branchCount"] = Cardinality(ResolvedBranches')
    BY <1>4, <1>8 DEF Tallies
<1>10. /\ counters'["branchMispredictions"] = Cardinality(Mispredicted')
       /\ counters'["branchCount"] = counters'["branchCorrect"] + counters'["branchMispredictions"]
  <2>1. PICK count, correct, wrong \in Nat :
          /\ count = counters["branchCount"] /\ correct = counters["branchCorrect"]
          /\ wrong = counters["branchMispredictions"]
      BY <1>6
  <2>2. count = correct + wrong /\ wrong = Cardinality(Mispredicted)
      BY <2>1 DEF Tallies
  <2>3. CASE c = "branchCorrect"
      BY <1>3, <1>8, <2>1, <2>2, <2>3
  <2>4. CASE c = "branchMispredictions"
      BY <1>4, <1>8, <2>1, <2>2, <2>4
  <2> QED
      BY <2>3, <2>4
<1>11. counters'["committedInstructions"] = CommitMix'
    BY <1>7, <1>8 DEF Tallies
<1>12. /\ counters'["committedInstructions"] = Cardinality(Committed')
       /\ counters'["cdbBroadcasts"] = Cardinality(Broadcasts')
    BY <1>3, <1>8 DEF Tallies
<1> QED
    BY <1>9, <1>10, <1>11, <1>12 DEF Tallies

LEMMA NextTallies ==
    ASSUME TimesInv, CountersTypeOK, Tallies, [NextSim]_varsSim PROVE Tallies'
<1>1. todo \subseteq Ids
    BY LoopFacts DEF TimesInv
<1>2. CASE RecordsNoStage
    BY <1>2, QuietChanges, QuietTallies, NothingCounted, TalliesStay
<1>3. CASE IssuePredicted
  <2>1. counters' = counters /\ RowIsAdded
      BY <1>3, IssueChanges DEF IssuePredicted
  <2> QED
      BY <2>1, NothingCounted, TalliesStay
<1>4. ASSUME NEW k \in todo, Proceed(k) \/ WaitStalled(k) \/ StartRecorded(k) PROVE Tallies'
  <2>1. NoRowChanges \/ RowStarts(k)
      BY <1>4, VisitChanges, StartChanges
  <2>2. \A c \in TallyNames : counters'[c] = counters[c]
      BY <1>4, VisitTallies
  <2>3. /\ Committed' = Committed /\ Broadcasts' = Broadcasts
        /\ ResolvedBranches' = ResolvedBranches /\ Mispredicted' = Mispredicted
      BY <1>1, <2>1, NothingCounted, OneCounted
  <2> QED
      BY <2>2, <2>3, TalliesStay
<1>5. ASSUME NEW k \in todo, CompleteRecorded(k) PROVE Tallies'
  <2>1. RowEnds(k) /\ counters' = counters /\ ~IsBranch(active[k].instr)
      BY <1>5, CompleteChanges DEF CompleteRecorded
  <2>2. k \in Ids /\ active[k].instr = InstructionOf(k)
      BY <1>1, LoopFacts, ActiveInFlight DEF TimesInv
  <2>3. /\ Committed' = Committed /\ Broadcasts' = Broadcasts
        /\ ResolvedBranches' = ResolvedBranches /\ Mispredicted' = Mispredicted
      BY <2>1, <2>2, OneCounted
  <2> QED
      BY <2>1, <2>3, TalliesStay
<1> QED
    BY <1>2, <1>3, <1>4, <1>5, CommitTallies, BroadcastTallies, ResolveTallies
    DEF NextSim, RecordsNoStage

\* Every stall is counted with its reason.
LEMMA NextStalls ==
    ASSUME TimesInv, CountersTypeOK, StallsAddUp, [NextSim]_varsSim PROVE StallsAddUp'
<1>1. ASSUME \A c \in StallNames : counters'[c] = counters[c] PROVE StallsAddUp'
    BY <1>1 DEF StallsAddUp, StallNames
<1>2. \A c \in StallNames : counters[c] \in Nat
    BY CounterNameFacts DEF CountersTypeOK
<1>3. ASSUME NEW names, Count(names)
      PROVE  \A c \in StallNames :
                counters'[c] = IF c \in names THEN counters[c] + 1 ELSE counters[c]
    BY <1>3, CountFacts, CounterNameFacts
<1>4. PICK issue, robFull, rsFull, total, raw, fuBusy, ordering \in Nat :
          /\ issue = counters["issueStallCycles"] /\ robFull = counters["robFullStallCycles"]
          /\ rsFull = counters["rsFullStallCycles"] /\ total = counters["totalStallEvents"]
          /\ raw = counters["rawDependencyStallEvents"]
          /\ fuBusy = counters["fuBusyStallEvents"]
          /\ ordering = counters["memoryOrderingStallEvents"]
    BY <1>2 DEF StallNames
<1>5. issue = robFull + rsFull /\ total = issue + raw + fuBusy + ordering
    BY <1>4 DEF StallsAddUp
<1>6. CASE IssueStalls
  <2>1. PICK c \in {"robFullStallCycles", "rsFullStallCycles"} :
            Count({"issueStallCycles", "totalStallEvents", c})
      BY <1>6 DEF IssueStalls
  <2>2. /\ counters'["issueStallCycles"] = issue + 1 /\ counters'["totalStallEvents"] = total + 1
        /\ counters'["robFullStallCycles"] =
             IF c = "robFullStallCycles" THEN robFull + 1 ELSE robFull
        /\ counters'["rsFullStallCycles"] = IF c = "rsFullStallCycles" THEN rsFull + 1 ELSE rsFull
        /\ counters'["rawDependencyStallEvents"] = raw /\ counters'["fuBusyStallEvents"] = fuBusy
        /\ counters'["memoryOrderingStallEvents"] = ordering
      BY <1>3, <1>4, <2>1 DEF StallNames
  <2> QED
      BY <1>5, <2>2 DEF StallsAddUp
<1>7. ASSUME NEW k \in todo, WaitStalled(k) PROVE StallsAddUp'
  <2>1. PICK c \in {"rawDependencyStallEvents", "fuBusyStallEvents", "memoryOrderingStallEvents"} :
            Count({"totalStallEvents", c})
      BY <1>7 DEF WaitStalled, StallEvents, StallReason
  <2>2. /\ counters'["issueStallCycles"] = issue /\ counters'["totalStallEvents"] = total + 1
        /\ counters'["robFullStallCycles"] = robFull /\ counters'["rsFullStallCycles"] = rsFull
        /\ counters'["rawDependencyStallEvents"] =
             IF c = "rawDependencyStallEvents" THEN raw + 1 ELSE raw
        /\ counters'["fuBusyStallEvents"] = IF c = "fuBusyStallEvents" THEN fuBusy + 1 ELSE fuBusy
        /\ counters'["memoryOrderingStallEvents"] =
             IF c = "memoryOrderingStallEvents" THEN ordering + 1 ELSE ordering
      BY <1>3, <1>4, <2>1 DEF StallNames
  <2> QED
      BY <1>5, <2>2 DEF StallsAddUp
<1>8. ASSUME NEW names, Count(names), names \cap StallNames = {} PROVE StallsAddUp'
  <2>1. \A c \in StallNames : counters'[c] = counters[c]
      BY <1>3, <1>8
  <2> QED
      BY <1>1, <2>1
<1>9. CASE CommitRecorded
  <2>1. PICK m \in MixClasses : Count({"committedInstructions", m})
      BY <1>9, CommitIsCounted
  <2> QED
      BY <1>8, <2>1 DEF StallNames, MixClasses
<1>10. CASE EndCycleRecorded
  <2>1. \E names \in SUBSET {"cyclesWithAnyStall", "backendStallCycles"} : Count(names)
      BY <1>10 DEF EndCycleRecorded
  <2> QED
      BY <1>8, <2>1 DEF StallNames
<1>11. ASSUME \/ \E k \in todo : ResolveRecorded(k)
              \/ \E k \in DOMAIN cdbQueue : BroadcastRecorded(k)
       PROVE  StallsAddUp'
  <2>1. \/ Count({"branchCount", "branchCorrect"}) \/ Count({"branchCount", "branchMispredictions"})
        \/ Count({"cdbBroadcasts"})
      BY <1>11 DEF ResolveRecorded, BroadcastRecorded
  <2> QED
      BY <1>8, <2>1 DEF StallNames
<1>12. ASSUME NEW k \in todo, StartRecorded(k) PROVE StallsAddUp'
  <2>1. \A c \in StallNames : counters'[c] = counters[c]
      BY <1>12, StartCounts, CounterNameFacts DEF StallNames
  <2> QED
      BY <1>1, <2>1
<1> QED
    BY <1>1, <1>6, <1>7, <1>9, <1>10, <1>11, <1>12, OthersCount

LEMMA MemoryCounterStays ==
    ASSUME TimesInv, CountersTypeOK, [NextSim]_varsSim, ~ \E k \in todo : StartRecorded(k)
    PROVE  counters'["memoryStallCycles"] = counters["memoryStallCycles"]
<1>1. ASSUME NEW names, Count(names), "memoryStallCycles" \notin names
      PROVE  counters'["memoryStallCycles"] = counters["memoryStallCycles"]
    BY <1>1, CountFacts, CounterNameFacts
<1>2. CASE CommitRecorded
  <2>1. PICK m \in MixClasses : Count({"committedInstructions", m})
      BY <1>2, CommitIsCounted
  <2> QED
      BY <1>1, <2>1 DEF MixClasses
<1>3. CASE EndCycleRecorded
  <2>1. \E names \in SUBSET {"cyclesWithAnyStall", "backendStallCycles"} : Count(names)
      BY <1>3 DEF EndCycleRecorded
  <2> QED
      BY <1>1, <2>1
<1>4. ASSUME \/ \E k \in todo : ResolveRecorded(k)
             \/ \E k \in DOMAIN cdbQueue : BroadcastRecorded(k)
      PROVE  counters'["memoryStallCycles"] = counters["memoryStallCycles"]
  <2>1. \/ Count({"branchCount", "branchCorrect"}) \/ Count({"branchCount", "branchMispredictions"})
        \/ Count({"cdbBroadcasts"})
      BY <1>4 DEF ResolveRecorded, BroadcastRecorded
  <2> QED
      BY <1>1, <2>1
<1>5. CASE IssueStalls
  <2>1. \E c \in {"robFullStallCycles", "rsFullStallCycles"} :
            Count({"issueStallCycles", "totalStallEvents", c})
      BY <1>5 DEF IssueStalls
  <2> QED
      BY <1>1, <2>1
<1>6. ASSUME NEW k \in todo, WaitStalled(k)
      PROVE  counters'["memoryStallCycles"] = counters["memoryStallCycles"]
  <2>1. \E c \in {"rawDependencyStallEvents", "fuBusyStallEvents", "memoryOrderingStallEvents"} :
            Count({"totalStallEvents", c})
      BY <1>6 DEF WaitStalled, StallEvents, StallReason
  <2> QED
      BY <1>1, <2>1
<1> QED
    BY <1>2, <1>3, <1>4, <1>5, <1>6, OthersCount

\* Every access is counted as it starts, and a miss with its penalty.
LEMMA NextMisses ==
    ASSUME TimesInv, CountersTypeOK, MissesAreCounted, [NextSim]_varsSim PROVE MissesAreCounted'
<1>1. cacheStats.misses \in Nat /\ cacheStats.accesses \in Nat /\ MissPenalty \in Nat
    BY L1DAssumption DEF CountersTypeOK
<1>2. todo \subseteq Ids /\ todo \subseteq DOMAIN active
    BY LoopFacts DEF TimesInv
<1>3. CASE ~ \E k \in todo : StartRecorded(k)
  <2>1. Accessed' = Accessed
    <3>1. CASE \E k \in todo : Proceed(k) \/ WaitStalled(k)
        BY <3>1, VisitChanges, NothingCounted
    <3>2. CASE \E k \in todo : CompleteRecorded(k)
        BY <1>2, <3>2, CompleteChanges, OneCounted
    <3>3. ASSUME NEW k \in todo, ResolveRecorded(k) PROVE Accessed' = Accessed
      <4>1. \/ CompleteL1D(k) /\ timeline' = Resolved(k)
            \/ ResolveMispredicted(k) /\ timeline' = TimesFlushed(k, Resolved(k))
          BY <3>3 DEF ResolveRecorded, ResolveMispredictedL1D
      <4>2. RowEnds(k) \/ RowIsMispredicted(k)
          BY <3>3, <4>1, ResolveCorrectChanges, ResolveMispredictedChanges
      <4> QED
          BY <1>2, <4>2, OneCounted
    <3>4. CASE CommitRecorded
      <4>1. PICK k : k = robEntries[robHead].id
          OBVIOUS
      <4>2. RowCommits(k) /\ k \in Ids
          BY <3>4, <4>1, CommitChanges, LoopFacts DEF RowCommits, OneRowChanges, TimesInv
      <4> QED
          BY <4>2, OneCounted
    <3>5. ASSUME NEW k \in DOMAIN cdbQueue, BroadcastRecorded(k) PROVE Accessed' = Accessed
      <4>1. k \in Ids /\ RowIsBroadcast(k)
          BY <3>5, BroadcastChanges, LoopFacts DEF TimesInv
      <4> QED
          BY <4>1, OneCounted
    <3>6. CASE RecordsNoStage \/ IssuePredicted
        BY <3>6, QuietChanges, IssueChanges, NothingCounted
    <3> QED
        BY <1>3, <3>1, <3>2, <3>3, <3>4, <3>5, <3>6 DEF NextSim, RecordsNoStage
  <2>2. cacheStats' = cacheStats /\ counters'["memoryStallCycles"] = counters["memoryStallCycles"]
      BY <1>3, CacheStatsStay, MemoryCounterStays
  <2> QED
      BY <2>1, <2>2 DEF MissesAreCounted
<1>4. ASSUME NEW k \in todo, StartRecorded(k) PROVE MissesAreCounted'
  <2>1. RowStarts(k) /\ k \in Ids /\ active[k].instr = InstructionOf(k)
      BY <1>2, <1>4, StartChanges, ActiveInFlight DEF TimesInv
  <2>2. /\ k \notin Accessed
        /\ Accessed' = IF IsMemoryOp(InstructionOf(k)) THEN Accessed \cup {k} ELSE Accessed
      BY <2>1, OneCounted
  <2>3. Accessed \in SUBSET Ids
      BY CountedByRow
  <2>4. UsesCache(k) <=> l1dEnabled /\ IsMemoryOp(InstructionOf(k))
      BY <2>1 DEF UsesCache
  <2>5. counters'["memoryStallCycles"] = counters["memoryStallCycles"] + ExtraMissLatency(k)
      BY <1>4, StartCounts
  <2>6. cacheStats.misses * MissPenalty = counters["memoryStallCycles"]
      BY DEF MissesAreCounted
  <2>7. l1dEnabled => cacheStats.accesses = Cardinality(Accessed)
      BY DEF MissesAreCounted
  <2>8. CASE UsesCache(k)
    <3>1. /\ cacheStats'.accesses = cacheStats.accesses + 1
          /\ \/ cacheStats'.misses = cacheStats.misses /\ ExtraMissLatency(k) = 0
             \/ /\ cacheStats'.misses = cacheStats.misses + 1
                /\ ExtraMissLatency(k) = MissPenalty
        BY <1>4, <2>8, StartIsCounted
    <3>2. Cardinality(Accessed') = Cardinality(Accessed) + 1
        BY <2>1, <2>2, <2>3, <2>4, <2>8, OneMore
    <3>3. cacheStats'.misses * MissPenalty = counters'["memoryStallCycles"]
      <4>1. PICK m, p \in Nat : m = cacheStats.misses /\ p = MissPenalty
          BY <1>1
      <4>2. (m + 1) * p = m * p + p /\ m * p \in Nat
          OBVIOUS
      <4>3. CASE cacheStats'.misses = cacheStats.misses /\ ExtraMissLatency(k) = 0
          BY <2>5, <2>6, <4>1, <4>2, <4>3
      <4>4. CASE cacheStats'.misses = cacheStats.misses + 1 /\ ExtraMissLatency(k) = MissPenalty
          BY <2>5, <2>6, <4>1, <4>2, <4>4
      <4> QED
          BY <3>1, <4>3, <4>4
    <3> QED
        BY <2>4, <2>7, <2>8, <3>1, <3>2, <3>3 DEF MissesAreCounted
  <2>9. CASE ~UsesCache(k)
    <3>1. cacheStats' = cacheStats /\ ExtraMissLatency(k) = 0
        BY <1>4, <2>9, StartIsCounted
    <3>2. l1dEnabled => Accessed' = Accessed
        BY <2>2, <2>4, <2>9
    <3>3. counters["memoryStallCycles"] \in Nat
        BY CounterNameFacts DEF CountersTypeOK
    <3>4. l1dEnabled' = l1dEnabled
        OBVIOUS
    <3> QED
        BY <2>5, <2>6, <2>7, <3>1, <3>2, <3>3, <3>4 DEF MissesAreCounted
  <2> QED
      BY <2>8, <2>9
<1> QED
    BY <1>3, <1>4

\* The counters that a stalled cycle moves, and the flags that wait for its end.
StalledNames == {"cyclesWithAnyStall", "issueStallCycles", "backendStallCycles"}

\* A step within a cycle, or none, that stalls nothing.
NoStall ==
    /\ \A c \in StalledNames : counters'[c] = counters[c]
    /\ UNCHANGED <<cycle, stalledThisCycle, backendStalledThisCycle>>
    /\ phase' = phase \/ (BetweenCycles' <=> BetweenCycles)

LEMMA NoStallStays == ASSUME StalledCyclesAreCounted, NoStall PROVE StalledCyclesAreCounted'
<1>1. BetweenCycles' <=> BetweenCycles
    BY DEF NoStall, BetweenCycles
<1>2. /\ counters'["cyclesWithAnyStall"] = counters["cyclesWithAnyStall"]
      /\ counters'["issueStallCycles"] = counters["issueStallCycles"]
      /\ counters'["backendStallCycles"] = counters["backendStallCycles"]
      /\ cycle' = cycle
    BY DEF NoStall, StalledNames
<1>3. One(BetweenCycles)' = One(BetweenCycles)
    BY <1>1 DEF One
<1>4. StalledSoFar' = StalledSoFar /\ BackendStalledSoFar' = BackendStalledSoFar
    BY <1>1, <1>2 DEF StalledSoFar, BackendStalledSoFar, One, NoStall
<1> QED
    BY <1>2, <1>3, <1>4 DEF StalledCyclesAreCounted

\* Where in the cycle the steps are.
LEMMA StagesOfTheCycle ==
    ASSUME [NextSim]_varsSim
    PROVE  /\ IssuePredicted \/ IssueStalls \/ NothingToIssue
                => phase = "issue" /\ phase' = "execute"
           /\ \A k \in todo : Proceed(k) \/ WaitStalled(k) \/ StartRecorded(k)
                => phase = "execute" /\ phase' = "execute"
           /\ CommitRecorded \/ NoCommitRecorded => phase = "execute" /\ phase' = "broadcast"
           /\ NoBroadcastRecorded => phase = "broadcast" /\ phase' = "complete"
           /\ \A k \in DOMAIN cdbQueue : BroadcastRecorded(k)
                => phase = "broadcast" /\ phase' = "complete"
           /\ \A k \in todo : CompleteRecorded(k) \/ ResolveRecorded(k)
                => phase = "complete" /\ phase' = "complete"
           /\ EndCycleRecorded => phase = "complete" /\ phase' = "issue"
           /\ Stop => phase \in {"issue", "done"} /\ phase' = "done"
<1>1. IssuePredicted \/ IssueStalls \/ NothingToIssue => phase = "issue" /\ phase' = "execute"
    BY DEF IssuePredicted, IssueStalls, NothingToIssue, Issue, StallIssue, StartCycle
<1>2. \A k \in todo : Proceed(k) \/ WaitStalled(k) \/ StartRecorded(k)
          => phase = "execute" /\ phase' = "execute"
    BY DEF Proceed, Progress, WaitStalled, WaitL1D, Hold, StartRecorded, StartAccess,
       StartWithoutCache, Start, StartWith, Visit
<1>3. CommitRecorded \/ NoCommitRecorded => phase = "execute" /\ phase' = "broadcast"
    BY DEF CommitRecorded, NoCommitRecorded, Commit, NoCommit, CommitStage
<1>4. /\ NoBroadcastRecorded => phase = "broadcast" /\ phase' = "complete"
      /\ \A k \in DOMAIN cdbQueue : BroadcastRecorded(k)
           => phase = "broadcast" /\ phase' = "complete"
    BY DEF NoBroadcastRecorded, BroadcastRecorded, NoBroadcast, Broadcast, BroadcastStage
<1>5. \A k \in todo : CompleteRecorded(k) \/ ResolveRecorded(k)
          => phase = "complete" /\ phase' = "complete"
    BY DEF CompleteRecorded, ResolveRecorded, CompleteL1D, ResolveMispredictedL1D,
       CompleteRegister, CompleteStore, ResolveCorrect, ResolveMispredicted, Complete
<1>6. /\ EndCycleRecorded => phase = "complete" /\ phase' = "issue"
      /\ Stop => phase \in {"issue", "done"} /\ phase' = "done"
    BY DEF EndCycleRecorded, EndCycle, Stop, Finish, Done, vars
<1> QED
    BY <1>1, <1>2, <1>3, <1>4, <1>5, <1>6

LEMMA NextStalledCycles ==
    ASSUME TimesInv, CountersTypeOK, StalledCyclesAreCounted, [NextSim]_varsSim
    PROVE  StalledCyclesAreCounted'
<1>1. ASSUME NEW names, Count(names)
      PROVE  \A c \in StalledNames :
                counters'[c] = IF c \in names THEN counters[c] + 1 ELSE counters[c]
    BY <1>1, CountFacts, CounterNameFacts DEF StalledNames, StallNames
<1>2. PICK any, issue, backend, now \in Nat :
          /\ any = counters["cyclesWithAnyStall"] /\ issue = counters["issueStallCycles"]
          /\ backend = counters["backendStallCycles"] /\ now = cycle
    BY CounterNameFacts DEF CountersTypeOK, StallNames, TimesInv, RowsInv, TimelineTypeOK
<1>3. any <= now - 1 /\ backend <= any /\ any <= issue + backend
    BY <1>2 DEF StalledCyclesAreCounted
<1>4. CASE IssuePredicted \/ IssueStalls \/ NothingToIssue
  <2>1. /\ phase = "issue" /\ phase' = "execute" /\ BetweenCycles /\ ~BetweenCycles'
        /\ cycle' = now /\ backendStalledThisCycle' = FALSE
      BY <1>2, <1>4, StagesOfTheCycle
      DEF BetweenCycles, IssuePredicted, IssueStalls, NothingToIssue, CycleStarts
  <2>2. issue <= any
      BY <1>2, <2>1 DEF StalledCyclesAreCounted, StalledSoFar, One
  <2>3. CASE IssuePredicted \/ NothingToIssue
    <3>1. counters' = counters /\ stalledThisCycle' = FALSE
        BY <2>3 DEF IssuePredicted, NothingToIssue
    <3>2. StalledSoFar' = any /\ BackendStalledSoFar' = backend /\ One(BetweenCycles)' = 0
        BY <1>2, <2>1, <3>1 DEF StalledSoFar, BackendStalledSoFar, One
    <3> QED
        BY <1>2, <1>3, <2>1, <2>2, <3>1, <3>2 DEF StalledCyclesAreCounted
  <2>4. CASE IssueStalls
    <3>1. \E c \in {"robFullStallCycles", "rsFullStallCycles"} :
              Count({"issueStallCycles", "totalStallEvents", c})
        BY <2>4 DEF IssueStalls
    <3>2. /\ counters'["cyclesWithAnyStall"] = any /\ counters'["issueStallCycles"] = issue + 1
          /\ counters'["backendStallCycles"] = backend /\ stalledThisCycle' = TRUE
        BY <1>1, <1>2, <2>4, <3>1 DEF StalledNames, IssueStalls
    <3>3. StalledSoFar' = any + 1 /\ BackendStalledSoFar' = backend /\ One(BetweenCycles)' = 0
        BY <1>2, <2>1, <3>2 DEF StalledSoFar, BackendStalledSoFar, One
    <3> QED
        BY <1>2, <1>3, <2>1, <2>2, <3>2, <3>3 DEF StalledCyclesAreCounted
  <2> QED
      BY <1>4, <2>3, <2>4
<1>5. ASSUME NEW k \in todo, WaitStalled(k) PROVE StalledCyclesAreCounted'
  <2>1. /\ phase = "execute" /\ phase' = "execute" /\ ~BetweenCycles /\ ~BetweenCycles'
        /\ cycle' = now /\ stalledThisCycle' = TRUE /\ backendStalledThisCycle' = TRUE
      BY <1>2, <1>5, StagesOfTheCycle DEF BetweenCycles, WaitStalled
  <2>2. /\ counters'["cyclesWithAnyStall"] = any /\ counters'["issueStallCycles"] = issue
        /\ counters'["backendStallCycles"] = backend
    <3>1. \E c \in {"rawDependencyStallEvents", "fuBusyStallEvents", "memoryOrderingStallEvents"} :
              Count({"totalStallEvents", c})
        BY <1>5 DEF WaitStalled, StallEvents, StallReason
    <3> QED
        BY <1>1, <1>2, <3>1 DEF StalledNames
  <2>3. issue <= any + 1
      BY <1>2, <2>1 DEF StalledCyclesAreCounted, StalledSoFar, One
  <2>4. StalledSoFar' = any + 1 /\ BackendStalledSoFar' = backend + 1 /\ One(BetweenCycles)' = 0
      BY <1>2, <2>1, <2>2 DEF StalledSoFar, BackendStalledSoFar, One
  <2> QED
      BY <1>2, <1>3, <2>1, <2>2, <2>3, <2>4 DEF StalledCyclesAreCounted
<1>6. CASE EndCycleRecorded
  <2>1. ~BetweenCycles /\ BetweenCycles' /\ cycle' = now + 1
      BY <1>2, <1>6, StagesOfTheCycle DEF BetweenCycles, EndCycleRecorded
  <2>2. Count({c \in {"cyclesWithAnyStall"} : stalledThisCycle} \cup
              {c \in {"backendStallCycles"} : backendStalledThisCycle})
      BY <1>6 DEF EndCycleRecorded
  <2>3. /\ counters'["cyclesWithAnyStall"] = any + One(stalledThisCycle)
        /\ counters'["issueStallCycles"] = issue
        /\ counters'["backendStallCycles"] = backend + One(backendStalledThisCycle)
    <3>1. PICK names : names = {c \in {"cyclesWithAnyStall"} : stalledThisCycle} \cup
                               {c \in {"backendStallCycles"} : backendStalledThisCycle}
        OBVIOUS
    <3>2. /\ "cyclesWithAnyStall" \in names <=> stalledThisCycle
          /\ "issueStallCycles" \notin names
          /\ "backendStallCycles" \in names <=> backendStalledThisCycle
        BY <3>1
    <3>3. \A c \in StalledNames :
              counters'[c] = IF c \in names THEN counters[c] + 1 ELSE counters[c]
        BY <1>1, <2>2, <3>1
    <3> QED
        BY <1>2, <3>2, <3>3 DEF StalledNames, One
  <2>4. PICK s, b \in 0 .. 1 : s = One(stalledThisCycle) /\ b = One(backendStalledThisCycle)
      BY DEF One
  <2>5. StalledSoFar = any + s /\ BackendStalledSoFar = backend + b /\ One(BetweenCycles) = 0
      BY <1>2, <2>1, <2>4 DEF StalledSoFar, BackendStalledSoFar, One
  <2>6. /\ any + s <= now /\ issue <= any + s /\ backend + b <= any + s
        /\ any + s <= issue + (backend + b)
      BY <1>2, <2>5 DEF StalledCyclesAreCounted
  <2>7. /\ counters'["cyclesWithAnyStall"] = any + s /\ counters'["issueStallCycles"] = issue
        /\ counters'["backendStallCycles"] = backend + b
      BY <2>3, <2>4
  <2>8. StalledSoFar' = any + s /\ BackendStalledSoFar' = backend + b /\ One(BetweenCycles)' = 1
      BY <2>1, <2>7 DEF StalledSoFar, BackendStalledSoFar, One
  <2>9. /\ any + s <= (now + 1) - 1 /\ issue <= any + s /\ backend + b <= any + s
        /\ any + s <= issue + (backend + b)
      BY <1>2, <2>4, <2>6
  <2> QED
      BY <2>1, <2>7, <2>8, <2>9 DEF StalledCyclesAreCounted
<1>7. ASSUME NEW names, Count(names), names \cap StalledNames = {}
      PROVE  \A c \in StalledNames : counters'[c] = counters[c]
    BY <1>1, <1>7
<1>8. ASSUME NoStall PROVE StalledCyclesAreCounted'
    BY <1>8, NoStallStays
<1>9. CASE CommitRecorded \/ NoCommitRecorded
  <2>1. \A c \in StalledNames : counters'[c] = counters[c]
    <3>1. CASE CommitRecorded
        BY <1>7, <3>1, CommitIsCounted DEF StalledNames, MixClasses
    <3>2. CASE NoCommitRecorded
        BY <3>2 DEF NoCommitRecorded
    <3> QED
        BY <1>9, <3>1, <3>2
  <2>2. UNCHANGED <<cycle, stalledThisCycle, backendStalledThisCycle>>
      BY <1>9 DEF CommitRecorded, NoCommitRecorded
  <2>3. ~BetweenCycles /\ ~BetweenCycles'
      BY <1>9, StagesOfTheCycle DEF BetweenCycles
  <2> QED
      BY <1>8, <2>1, <2>2, <2>3 DEF NoStall
<1>10. ASSUME \/ NoBroadcastRecorded \/ \E k \in DOMAIN cdbQueue : BroadcastRecorded(k)
       PROVE  StalledCyclesAreCounted'
  <2>1. \A c \in StalledNames : counters'[c] = counters[c]
      BY <1>7, <1>10 DEF StalledNames, NoBroadcastRecorded, BroadcastRecorded, recordVars
  <2>2. UNCHANGED <<cycle, stalledThisCycle, backendStalledThisCycle>>
      BY <1>10 DEF NoBroadcastRecorded, BroadcastRecorded, recordVars
  <2>3. ~BetweenCycles /\ ~BetweenCycles'
      BY <1>10, StagesOfTheCycle DEF BetweenCycles
  <2> QED
      BY <1>8, <2>1, <2>2, <2>3 DEF NoStall
<1>11. ASSUME NEW k \in todo, CompleteRecorded(k) \/ ResolveRecorded(k)
       PROVE  StalledCyclesAreCounted'
  <2>1. \/ counters' = counters
        \/ Count({"branchCount", "branchCorrect"}) \/ Count({"branchCount", "branchMispredictions"})
      BY <1>11 DEF CompleteRecorded, ResolveRecorded
  <2>2. \A c \in StalledNames : counters'[c] = counters[c]
      BY <1>7, <2>1 DEF StalledNames
  <2>3. UNCHANGED <<cycle, stalledThisCycle, backendStalledThisCycle>>
      BY <1>11 DEF CompleteRecorded, ResolveRecorded, Leaves
  <2>4. ~BetweenCycles /\ ~BetweenCycles'
      BY <1>11, StagesOfTheCycle DEF BetweenCycles
  <2> QED
      BY <1>8, <2>2, <2>3, <2>4 DEF NoStall
<1>12. ASSUME NEW k \in todo, Proceed(k) \/ StartRecorded(k) PROVE StalledCyclesAreCounted'
  <2>1. \A c \in StalledNames : counters'[c] = counters[c]
    <3>1. CASE Proceed(k)
        BY <3>1 DEF Proceed, recordVars
    <3>2. CASE StartRecorded(k)
        BY <3>2, StartCounts, CounterNameFacts DEF StalledNames, StallNames
    <3> QED
        BY <1>12, <3>1, <3>2
  <2>2. UNCHANGED <<cycle, stalledThisCycle, backendStalledThisCycle>>
      BY <1>12 DEF Proceed, StartRecorded, recordVars
  <2>3. ~BetweenCycles /\ ~BetweenCycles'
      BY <1>12, StagesOfTheCycle DEF BetweenCycles
  <2> QED
      BY <1>8, <2>1, <2>2, <2>3 DEF NoStall
<1>13. CASE Stop
  <2>1. counters' = counters /\ UNCHANGED <<cycle, stalledThisCycle, backendStalledThisCycle>>
      BY <1>13 DEF Stop, recordVars
  <2>2. BetweenCycles /\ BetweenCycles'
      BY <1>13, StagesOfTheCycle DEF BetweenCycles
  <2> QED
      BY <1>8, <2>1, <2>2 DEF NoStall
<1>14. CASE UNCHANGED varsSim
  <2>1. /\ counters' = counters /\ UNCHANGED <<cycle, stalledThisCycle, backendStalledThisCycle>>
        /\ phase' = phase
      BY <1>14 DEF varsSim, recordVars, varsL1D, vars
  <2> QED
      BY <1>8, <2>1 DEF NoStall
<1> QED
    BY <1>4, <1>5, <1>6, <1>9, <1>10, <1>11, <1>12, <1>13, <1>14 DEF NextSim

-----------------------------------------------------------------------------
(* Which instruction waited in which cycle                                   *)

\* The execute stage is through with k in cycle c.
PassedBy(k, c) == c < cycle \/ (c = cycle /\ ~BetweenCycles /\ ~Unvisited(k))
HasWaited(k, c) == k \in Issued /\ c \in 1 .. cycle /\ PassedBy(k, c) /\ WaitsIn(k, c)
Waited == {w \in Issued \X (1 .. cycle) : HasWaited(w[1], w[2])}
CyclesWaited == {c \in 1 .. cycle : \E k \in Issued : HasWaited(k, c)}

ReasonsCounted ==
    counters["rawDependencyStallEvents"] + counters["fuBusyStallEvents"]
    + counters["memoryOrderingStallEvents"]

WaitInv ==
    /\ ReasonsCounted = Cardinality(Waited)
    /\ BackendStalledSoFar = Cardinality(CyclesWaited)
    /\ ~BetweenCycles => (backendStalledThisCycle <=> cycle \in CyclesWaited)
    /\ nextId + counters["issueStallCycles"] <= cycle - One(BetweenCycles)

\* Rows and mispredictions of one step, as far as waiting goes.
LEMMA WaitsStay ==
    ASSUME NEW k \in Ids, NEW c, Mispredicted' = Mispredicted,
           \A b \in Mispredicted : timeline'[b].end = timeline[b].end,
           timeline'[k].issue = timeline[k].issue, timeline'[k].start = timeline[k].start
    PROVE  WaitsIn(k, c)' <=> WaitsIn(k, c)
<1>1. OlderMispredictions(k)' = OlderMispredictions(k)
    BY DEF OlderMispredictions
<1>2. OlderMispredictions(k) \subseteq Mispredicted
    BY DEF OlderMispredictions
<1> QED
    BY <1>1, <1>2 DEF WaitsIn

\* What the mispredictions and the rows are after a step, whatever it is.
LEMMA WaitsKept ==
    ASSUME TimesInv, FlushInv, [NextSim]_varsSim, ~RowIsAdded, NEW k \in Ids, NEW c \in 1 .. cycle,
           c = cycle => ~ RowStarts(k)
    PROVE  WaitsIn(k, c)' <=> WaitsIn(k, c)
<1>1. CASE NoRowChanges
  <2>1. timeline' = timeline /\ Mispredicted' = Mispredicted
      BY <1>1, NothingCounted DEF NoRowChanges
  <2> QED
      BY <2>1, WaitsStay
<1>2. ASSUME NEW j \in Ids, RowCommits(j) \/ RowIsBroadcast(j) \/ RowEnds(j)
      PROVE  WaitsIn(k, c)' <=> WaitsIn(k, c)
  <2>1. /\ Mispredicted' = Mispredicted
        /\ \A b \in Mispredicted : timeline'[b].end = timeline[b].end
      BY <1>2, OneRowFlushes
  <2>2. timeline'[k].issue = timeline[k].issue /\ timeline'[k].start = timeline[k].start
      BY <1>2 DEF RowCommits, RowIsBroadcast, RowEnds, OneRowChanges, RowIs, EndsNow
  <2> QED
      BY <2>1, <2>2, WaitsStay
<1>3. ASSUME NEW j \in Ids, RowStarts(j) PROVE WaitsIn(k, c)' <=> WaitsIn(k, c)
  <2>1. /\ Mispredicted' = Mispredicted
        /\ \A b \in Mispredicted : timeline'[b].end = timeline[b].end
      BY <1>3, OneRowFlushes
  <2>2. CASE j # k
    <3>1. timeline'[k] = timeline[k]
        BY <1>3, <2>2 DEF RowStarts, OneRowChanges
    <3> QED
        BY <2>1, <3>1, WaitsStay
  <2>3. CASE j = k
    <3>1. /\ timeline'[k].issue = timeline[k].issue /\ timeline[k].start = NotYet
          /\ timeline'[k].start = cycle
        BY <1>3, <2>3 DEF RowStarts, RowIs
    <3>2. c < cycle
      <4>1. cycle \in Nat /\ c # cycle
          BY <1>3, <2>3 DEF TimesInv, RowsInv, TimelineTypeOK
      <4> QED
          BY <4>1
    <3>3. OlderMispredictions(k)' = OlderMispredictions(k)
        BY <2>1 DEF OlderMispredictions
    <3>4. OlderMispredictions(k) \subseteq Mispredicted
        BY DEF OlderMispredictions
    <3> QED
        BY <2>1, <3>1, <3>2, <3>3, <3>4 DEF WaitsIn
  <2> QED
      BY <2>2, <2>3
<1>4. ASSUME NEW j \in Ids, RowIsMispredicted(j) PROVE WaitsIn(k, c)' <=> WaitsIn(k, c)
  <2>1. Mispredicted' = Mispredicted \cup {j} /\ j \notin Mispredicted
      BY <1>4, MispredictionFlushes
  <2>2. timeline'[j].end = cycle /\ timeline'[j].issue = timeline[j].issue
        /\ timeline'[j].start = timeline[j].start
      BY <1>4 DEF RowIsMispredicted, EndsNow
  <2>3. \A i \in Ids : i # j => /\ timeline'[i].end = timeline[i].end
                                /\ timeline'[i].issue = timeline[i].issue
                                /\ timeline'[i].start = timeline[i].start
    <3>1. ASSUME NEW i \in Ids, i # j PROVE i < j \/ i > j
      <4>1. i \in Nat /\ j \in Nat
          BY LoopFacts DEF TimesInv
      <4> QED
          BY <3>1, <4>1
    <3> QED
        BY <1>4, <3>1 DEF RowIsMispredicted, RowIs
  <2>4. Mispredicted \subseteq Ids
      BY MispredictedRows
  <2>5. \A b \in Mispredicted : timeline'[b].end = timeline[b].end
      BY <2>1, <2>3, <2>4
  <2>6. timeline'[k].issue = timeline[k].issue /\ timeline'[k].start = timeline[k].start
      BY <2>2, <2>3
  <2>7. OlderMispredictions(k) \subseteq Mispredicted
      BY DEF OlderMispredictions
  <2>8. c <= cycle
      OBVIOUS
  <2>9. /\ OlderMispredictions(k) \subseteq OlderMispredictions(k)'
        /\ OlderMispredictions(k)' \subseteq OlderMispredictions(k) \cup {j}
      BY <2>1 DEF OlderMispredictions
  <2> QED
      BY <2>2, <2>5, <2>6, <2>7, <2>8, <2>9 DEF WaitsIn
<1> QED
    BY <1>1, <1>2, <1>3, <1>4, StepsRecord

\* What is finished or flushed does not wait in the cycle that begins.
LEMMA OthersDoNotWait ==
    ASSUME TimesInv, FlushInv, phase = "issue", NEW k \in Ids, k \notin DOMAIN active
    PROVE  ~WaitsIn(k, cycle)
<1>1. /\ timeline \in [Ids -> Times] /\ cycle \in Nat
      /\ \A j \in Ids : HavePassed(timeline[j], cycle, phase, Unvisited(j))
      /\ InSequence(timeline[k], InstructionOf(k), k \in Committed)
    BY DEF TimesInv, RowsInv, TimelineTypeOK, TimesHavePassed, RowsInSequence
<1>2. PICK t \in Times : t = timeline[k]
    BY <1>1
<1>3. CASE k \notin Flushed
  <2>1. t.end # NotYet
    <3>1. CASE k \in DOMAIN cdbQueue
        BY <1>2, <3>1 DEF TimesInv, RowsInv, RowsShowProgress, OnBusTimes
    <3>2. CASE k \in Committed
        BY <1>1, <1>2, <3>2 DEF InSequence
    <3>3. CASE k \in InFlight \ (DOMAIN active \cup DOMAIN cdbQueue)
      <4>1. t.writeback # NotYet
          BY <1>2, <3>3 DEF TimesInv, RowsInv, RowsShowProgress
      <4> QED
          BY <1>1, <1>2, <4>1 DEF InSequence
    <3> QED
        BY <1>3, <3>1, <3>2, <3>3, LoopFacts DEF TimesInv
  <2>2. t.start # NotYet
      BY <1>1, <1>2, <2>1 DEF InSequence
  <2>3. t.start < cycle
      BY <1>1, <1>2 DEF HavePassed
  <2>4. ~(cycle < t.start)
      BY <1>1, <2>3, RowTypes
  <2> QED
      BY <1>2, <2>2, <2>4 DEF WaitsIn
<1>4. CASE k \in Flushed
  <2>1. PICK b \in OlderMispredictions(k) : timeline[b].end >= timeline[k].issue
      BY <1>4 DEF FlushInv, FlushedByOlder
  <2>2. b \in Ids
      BY MispredictedRows DEF OlderMispredictions
  <2>3. timeline[b].end < cycle
      BY <1>1, <2>2 DEF HavePassed
  <2>4. timeline[b].end \in Int /\ timeline[k].issue \in Int
      BY <1>1, <2>2, RowTypes
  <2>5. ~(timeline[b].end < timeline[k].issue) /\ ~(cycle <= timeline[b].end)
      BY <1>1, <2>1, <2>3, <2>4
  <2> QED
      BY <2>1, <2>5 DEF WaitsIn
<1> QED
    BY <1>3, <1>4

CycleBegins == IssuePredicted \/ IssueStalls \/ NothingToIssue
VisitOf(k) == Proceed(k) \/ WaitStalled(k) \/ StartRecorded(k)

\* The steps behind the execute stage, and those between cycles.
LaterStage ==
    \/ cycle' = cycle /\ phase = "execute" /\ todo = {} /\ phase' = "broadcast"
    \/ cycle' = cycle /\ phase \in {"broadcast", "complete"} /\ phase' = "complete"
    \/ cycle' = cycle + 1 /\ phase = "complete" /\ phase' = "issue"
    \/ cycle' = cycle /\ phase \in {"issue", "done"} /\ phase' = "done"
    \/ cycle' = cycle /\ phase' = phase /\ todo' = todo

LEMMA StepsOfTheCycle ==
    ASSUME TimesInv, [NextSim]_varsSim
    PROVE  \/ CycleBegins \/ \E k \in todo : VisitOf(k)
           \/ LaterStage /\ Ids' = Ids /\ \A j \in Ids : ~RowStarts(j)
<1>0. \A j \in Ids : RowStarts(j) => /\ phase = "execute"
                                     /\ timeline'[j].start # timeline[j].start
  <2>1. cycle # NotYet
      BY DEF TimesInv, RowsInv, TimelineTypeOK, NotYet
  <2> QED
      BY <2>1 DEF RowStarts, RowIs
<1>1. CASE CommitRecorded \/ NoCommitRecorded
  <2>1. phase = "execute" /\ phase' = "broadcast"
      BY <1>1, StagesOfTheCycle
  <2>2. cycle' = cycle /\ todo = {}
      BY <1>1 DEF CommitRecorded, NoCommitRecorded, Commit, NoCommit, CommitStage
  <2>3. Ids' = Ids /\ \A j \in Ids : timeline'[j].start = timeline[j].start
    <3>1. PICK k : k = robEntries[robHead].id
        OBVIOUS
    <3>2. CASE CommitRecorded
      <4>1. RowCommits(k)
          BY <3>1, <3>2, CommitChanges
      <4> QED
          BY <4>1 DEF RowCommits, OneRowChanges, RowIs
    <3>3. CASE NoCommitRecorded
        BY <3>3, QuietChanges DEF RecordsNoStage, NoRowChanges
    <3> QED
        BY <1>1, <3>2, <3>3
  <2> QED
      BY <1>0, <2>1, <2>2, <2>3 DEF LaterStage
<1>2. CASE NoBroadcastRecorded
    BY <1>0, <1>2, StagesOfTheCycle, QuietChanges
    DEF LaterStage, NoBroadcastRecorded, recordVars, RecordsNoStage, NoRowChanges
<1>3. ASSUME NEW k \in DOMAIN cdbQueue, BroadcastRecorded(k)
      PROVE  LaterStage /\ Ids' = Ids /\ \A j \in Ids : ~RowStarts(j)
  <2>1. phase = "broadcast" /\ phase' = "complete"
      BY <1>3, StagesOfTheCycle
  <2>2. cycle' = cycle
      BY <1>3 DEF BroadcastRecorded
  <2>3. Ids' = Ids
      BY <1>3, BroadcastChanges DEF RowIsBroadcast, OneRowChanges
  <2> QED
      BY <1>0, <2>1, <2>2, <2>3 DEF LaterStage
<1>4. ASSUME NEW k \in todo, CompleteRecorded(k) \/ ResolveRecorded(k)
      PROVE  LaterStage /\ Ids' = Ids /\ \A j \in Ids : ~RowStarts(j)
  <2>1. phase = "complete" /\ phase' = "complete"
      BY <1>4, StagesOfTheCycle
  <2>2. cycle' = cycle
      BY <1>4 DEF CompleteRecorded, ResolveRecorded, Leaves
  <2>3. Ids' = Ids
    <3>1. CASE CompleteRecorded(k)
        BY <3>1, CompleteChanges DEF RowEnds, OneRowChanges
    <3>2. CASE ResolveRecorded(k)
      <4>1. \/ CompleteL1D(k) /\ timeline' = Resolved(k)
            \/ ResolveMispredictedL1D(k) /\ timeline' = TimesFlushed(k, Resolved(k))
          BY <3>2 DEF ResolveRecorded
      <4>2. RowEnds(k) \/ RowIsMispredicted(k)
          BY <3>2, <4>1, ResolveCorrectChanges, ResolveMispredictedChanges
          DEF ResolveMispredictedL1D
      <4> QED
          BY <4>2 DEF RowEnds, OneRowChanges, RowIsMispredicted
    <3> QED
        BY <1>4, <3>1, <3>2
  <2> QED
      BY <1>0, <2>1, <2>2, <2>3 DEF LaterStage
<1>5. CASE EndCycleRecorded \/ Stop \/ UNCHANGED varsSim
  <2>1. Ids' = Ids /\ \A j \in Ids : ~RowStarts(j)
      BY <1>0, <1>5, QuietChanges DEF RecordsNoStage, NoRowChanges
  <2>2. CASE EndCycleRecorded
      BY <2>1, <2>2, StagesOfTheCycle DEF LaterStage, EndCycleRecorded
  <2>3. CASE Stop
      BY <2>1, <2>3, StagesOfTheCycle DEF LaterStage, Stop, recordVars
  <2>4. CASE UNCHANGED varsSim
      BY <2>1, <2>4 DEF LaterStage, varsSim, varsL1D, vars, recordVars
  <2> QED
      BY <1>5, <2>2, <2>3, <2>4
<1> QED
    BY <1>1, <1>2, <1>3, <1>4, <1>5 DEF NextSim, CycleBegins, VisitOf

\* A step that keeps the set of instructions keeps what is waited, but for whom the
\* execute stage gets through with.
LEMMA WaitedUnless ==
    ASSUME TimesInv, FlushInv, [NextSim]_varsSim, Ids' = Ids, NEW k, NEW c,
           k \in Ids /\ c \in 1 .. cycle =>
              \/ (c = cycle => ~RowStarts(k)) /\ (PassedBy(k, c)' <=> PassedBy(k, c))
              \/ ~(PassedBy(k, c) /\ WaitsIn(k, c)) /\ ~(PassedBy(k, c) /\ WaitsIn(k, c))',
           c \in 1 .. cycle' => c \in 1 .. cycle \/ ~PassedBy(k, c)',
           cycle' = cycle \/ cycle' = cycle + 1
    PROVE  HasWaited(k, c)' <=> HasWaited(k, c)
<1>1. ~RowIsAdded /\ Issued = Ids /\ Issued' = Ids'
    BY LoopFacts, CountedByRow DEF RowIsAdded, TimesInv
<1>2. cycle \in Nat
    BY DEF TimesInv, RowsInv, TimelineTypeOK
<1>3. CASE k \in Ids /\ c \in 1 .. cycle
  <2>1. c \in 1 .. cycle'
      BY <1>2, <1>3
  <2>2. (c = cycle => ~RowStarts(k)) => (WaitsIn(k, c)' <=> WaitsIn(k, c))
      BY <1>1, <1>3, WaitsKept
  <2> QED
      BY <1>1, <1>3, <2>1, <2>2 DEF HasWaited
<1>4. CASE ~(k \in Ids /\ c \in 1 .. cycle)
    BY <1>1, <1>4 DEF HasWaited
<1> QED
    BY <1>3, <1>4

\* Behind the execute stage nothing begins to have waited.
LEMMA LaterStageWaits ==
    ASSUME TimesInv, FlushInv, [NextSim]_varsSim, LaterStage, Ids' = Ids,
           \A j \in Ids : ~RowStarts(j), NEW k, NEW c
    PROVE  HasWaited(k, c)' <=> HasWaited(k, c)
<1>1. cycle \in Nat /\ (cycle' = cycle \/ cycle' = cycle + 1)
    BY DEF TimesInv, RowsInv, TimelineTypeOK, LaterStage
<1>2. ASSUME c \in 1 .. cycle PROVE PassedBy(k, c)' <=> PassedBy(k, c)
  <2>1. c \in Nat /\ c <= cycle
      BY <1>1, <1>2
  <2>2. CASE phase' = phase /\ todo' = todo /\ cycle' = cycle
      BY <2>2 DEF PassedBy, BetweenCycles, Unvisited
  <2>3. CASE phase \in {"issue", "done"} /\ phase' = "done" /\ cycle' = cycle
      BY <2>3 DEF PassedBy, BetweenCycles
  <2>4. CASE phase = "complete" /\ phase' = "issue" /\ cycle' = cycle + 1
    <3>1. PassedBy(k, c)
        BY <1>1, <2>1, <2>4 DEF PassedBy, BetweenCycles, Unvisited
    <3>2. PassedBy(k, c)'
        BY <1>1, <2>1, <2>4 DEF PassedBy
    <3> QED
        BY <3>1, <3>2
  <2>5. CASE /\ cycle' = cycle
             /\ \/ phase = "execute" /\ todo = {} /\ phase' = "broadcast"
                \/ phase \in {"broadcast", "complete"} /\ phase' = "complete"
    <3>1. ~BetweenCycles /\ ~Unvisited(k) /\ ~BetweenCycles' /\ ~Unvisited(k)'
        BY <2>5 DEF BetweenCycles, Unvisited
    <3> QED
        BY <2>5, <3>1 DEF PassedBy
  <2> QED
      BY <2>2, <2>3, <2>4, <2>5 DEF LaterStage
<1>3. ASSUME c \in 1 .. cycle' PROVE c \in 1 .. cycle \/ ~PassedBy(k, c)'
  <2>1. CASE cycle' = cycle
      BY <1>3, <2>1
  <2>2. CASE cycle' = cycle + 1 /\ phase' = "issue"
    <3>1. c \in Nat /\ c >= 1 /\ c <= cycle + 1
        BY <1>1, <1>3, <2>2
    <3>2. c <= cycle \/ c = cycle + 1
        BY <1>1, <3>1
    <3>3. c = cycle + 1 => ~PassedBy(k, c)'
        BY <1>1, <2>2 DEF PassedBy, BetweenCycles
    <3> QED
        BY <1>1, <3>1, <3>2, <3>3
  <2> QED
      BY <2>1, <2>2 DEF LaterStage
<1> QED
    BY <1>1, <1>2, <1>3, WaitedUnless

\* The visit of an instruction that waits is counted, any other is not.
LEMMA VisitWaits ==
    ASSUME TimesInv, FlushInv, [NextSim]_varsSim, NEW v \in todo, VisitOf(v), NEW k, NEW c
    PROVE  /\ ~HasWaited(v, cycle)
           /\ IF WaitStalled(v) THEN HasWaited(k, c)' <=> HasWaited(k, c) \/ (k = v /\ c = cycle)
              ELSE HasWaited(k, c)' <=> HasWaited(k, c)
<1>1. /\ phase = "execute" /\ phase' = "execute" /\ todo' = todo \ {v} /\ cycle' = cycle
      /\ VisitAnyTiming(v) \/ StartRecorded(v)
  <2>1. Visit(v) /\ cycle' = cycle
      BY DEF VisitOf, Proceed, Progress, WaitStalled, WaitL1D, Hold, StartRecorded, StartAccess,
         StartWithoutCache, Start, StartWith, recordVars
  <2>2. VisitAnyTiming(v) \/ StartRecorded(v)
      BY DEF VisitOf, Proceed, WaitStalled, WaitL1D, VisitAnyTiming
  <2>3. phase = "execute" /\ phase' = "execute"
      BY StagesOfTheCycle DEF VisitOf
  <2> QED
      BY <2>1, <2>2, <2>3 DEF Visit
<1>2. /\ v \in Ids /\ v \in DOMAIN active /\ v \notin Flushed /\ todo \subseteq Ids
      /\ timeline \in [Ids -> Times] /\ cycle \in Nat
  <2>1. QueueInv
      BY DEF TimesInv
  <2> QED
      BY <2>1, LoopFacts DEF TimesInv, RowsInv, TimelineTypeOK
<1>3. NoRowChanges \/ RowStarts(v)
    BY VisitChanges, StartChanges DEF VisitOf
<1>4. Ids' = Ids /\ Issued = Ids /\ Issued' = Ids
    BY <1>3, CountedByRow DEF NoRowChanges, RowStarts, OneRowChanges
<1>5. PICK t \in Times : t = timeline[v]
    BY <1>2
<1>6. HavePassed(t, cycle, phase, Unvisited(v)) /\ ActiveTimes(v) /\ Unvisited(v)
    BY <1>1, <1>2, <1>5 DEF TimesInv, RowsInv, TimesHavePassed, RowsShowProgress, Unvisited
<1>7. t.issue < cycle /\ t.start <= cycle /\ t.issue \in Nat /\ t.start \in Int /\ cycle >= 1
  <2>1. t.issue < cycle /\ t.start <= cycle /\ t.issue \in Nat /\ t.start \in Int
      BY <1>6, RowTypes DEF HavePassed
  <2> QED
      BY <1>2, <2>1
<1>8. ~PassedBy(v, cycle) /\ ~HasWaited(v, cycle)
    BY <1>1, <1>2, <1>6 DEF PassedBy, HasWaited, BetweenCycles
<1>9. /\ k # v => (PassedBy(k, c)' <=> PassedBy(k, c))
      /\ c # cycle => (PassedBy(k, c)' <=> PassedBy(k, c))
      /\ PassedBy(v, cycle)'
  <2>1. ~BetweenCycles /\ ~BetweenCycles'
      BY <1>1 DEF BetweenCycles
  <2>2. ~Unvisited(v)' /\ (k # v => (Unvisited(k)' <=> Unvisited(k)))
      BY <1>1 DEF Unvisited
  <2> QED
      BY <1>1, <2>1, <2>2 DEF PassedBy
<1>10. CASE WaitStalled(v)
  <2>1. ~active[v].executing /\ timeline' = timeline
      BY <1>10 DEF WaitStalled, WaitL1D, Hold
  <2>2. t.start = NotYet
      BY <1>5, <1>6, <2>1 DEF ActiveTimes
  <2>3. WaitsIn(v, cycle)
    <3>1. ASSUME NEW b \in OlderMispredictions(v) PROVE timeline[b].end < timeline[v].issue
      <4>1. ~(timeline[b].end >= timeline[v].issue)
          BY <1>2 DEF FlushInv, FlushedByOlder
      <4>2. b \in Ids
          BY MispredictedRows DEF OlderMispredictions
      <4>3. timeline[b].end \in Int /\ timeline[v].issue \in Int
          BY <1>2, <4>2, RowTypes
      <4> QED
          BY <4>1, <4>3
    <3> QED
        BY <1>5, <1>7, <2>2, <3>1 DEF WaitsIn
  <2>4. \A j \in Ids : ~RowStarts(j)
    <3>1. cycle # NotYet
        BY <1>2 DEF NotYet
    <3> QED
        BY <2>1, <3>1 DEF RowStarts, RowIs
  <2>5. CASE k = v /\ c = cycle
    <3>1. c \in 1 .. cycle
        BY <1>2, <1>7, <2>5
    <3>2. ~RowIsAdded
        BY <1>1 DEF RowIsAdded
    <3>3. WaitsIn(v, c)' <=> WaitsIn(v, c)
        BY <1>2, <2>4, <3>1, <3>2, WaitsKept
    <3>4. HasWaited(v, c)'
        BY <1>1, <1>2, <1>4, <1>9, <2>3, <2>5, <3>1, <3>3 DEF HasWaited
    <3> QED
        BY <1>8, <1>10, <2>5, <3>4
  <2>6. CASE k # v \/ c # cycle
    <3>1. HasWaited(k, c)' <=> HasWaited(k, c)
        BY <1>1, <1>4, <1>9, <2>4, <2>6, WaitedUnless
    <3> QED
        BY <1>8, <1>10, <2>6, <3>1
  <2> QED
      BY <2>5, <2>6
<1>11. CASE ~WaitStalled(v)
  <2>1. ~WaitsIn(v, cycle)'
    <3>1. CASE StartRecorded(v)
      <4>1. timeline'[v].start = cycle
          BY <3>1, StartChanges DEF RowStarts, RowIs
      <4>2. cycle # NotYet /\ ~(cycle < cycle)
          BY <1>2 DEF NotYet
      <4> QED
          BY <1>1, <4>1, <4>2 DEF WaitsIn
    <3>2. CASE Proceed(v)
      <4>1. active[v].executing /\ timeline' = timeline
          BY <3>2 DEF Proceed, Progress, recordVars
      <4>2. t.start # NotYet
          BY <1>5, <1>6, <4>1 DEF ActiveTimes
      <4>3. ~(cycle < t.start)
          BY <1>2, <1>7
      <4> QED
          BY <1>1, <1>5, <4>1, <4>2, <4>3 DEF WaitsIn
    <3> QED
        BY <1>11, <3>1, <3>2 DEF VisitOf
  <2>2. ASSUME NEW j \in Ids, RowStarts(j) PROVE j = v
    <3>1. cycle # NotYet
        BY <1>2 DEF NotYet
    <3>2. timeline'[j].start # timeline[j].start
        BY <2>2, <3>1 DEF RowStarts, RowIs
    <3> QED
        BY <1>3, <2>2, <3>2 DEF NoRowChanges, RowStarts, OneRowChanges
  <2>3. CASE k = v /\ c = cycle
    <3>1. ~HasWaited(v, cycle)'
        BY <1>1, <2>1 DEF HasWaited
    <3> QED
        BY <1>1, <1>8, <1>11, <2>3, <3>1
  <2>4. CASE k # v \/ c # cycle
    <3>1. HasWaited(k, c)' <=> HasWaited(k, c)
        BY <1>1, <1>4, <1>9, <2>2, <2>4, WaitedUnless
    <3> QED
        BY <1>8, <1>11, <3>1
  <2> QED
      BY <2>3, <2>4
<1> QED
    BY <1>10, <1>11

\* Whoever is no longer active does not wait in the cycle that begins.
LEMMA CycleBeginsWaits ==
    ASSUME TimesInv, FlushInv, [NextSim]_varsSim, CycleBegins, NEW k, NEW c
    PROVE  HasWaited(k, c)' <=> HasWaited(k, c)
<1>1. /\ phase = "issue" /\ phase' = "execute" /\ todo' = DOMAIN active /\ cycle' = cycle
      /\ cycle \in Nat
  <2>1. phase = "issue" /\ phase' = "execute"
      BY StagesOfTheCycle DEF CycleBegins
  <2>2. todo' = DOMAIN active /\ cycle' = cycle
      BY DEF CycleBegins, IssuePredicted, IssueStalls, NothingToIssue, CycleStarts, Issue,
         StallIssue, StartCycle
  <2> QED
      BY <2>1, <2>2 DEF TimesInv, RowsInv, TimelineTypeOK
<1>2. /\ nextId \notin Ids /\ Issued = Ids /\ Issued' = Ids' /\ DOMAIN active \subseteq Ids
    BY LoopFacts, CountedByRow DEF TimesInv
<1>3. NoRowChanges \/ RowIsAdded
    BY QuietChanges, IssueChanges DEF CycleBegins, RecordsNoStage
<1>4. /\ Mispredicted' = Mispredicted /\ Mispredicted \subseteq Ids
      /\ \A j \in Ids : timeline'[j] = timeline[j]
      /\ Ids \subseteq Ids' /\ Ids' \subseteq Ids \cup {nextId}
    BY <1>3, NothingCounted, MispredictedRows DEF NoRowChanges, RowIsAdded
<1>5. ASSUME k \in Ids, c \in 1 .. cycle PROVE HasWaited(k, c)' <=> HasWaited(k, c)
  <2>1. WaitsIn(k, c)' <=> WaitsIn(k, c)
      BY <1>4, <1>5, WaitsStay
  <2>2. CASE c # cycle
    <3>1. PassedBy(k, c)' <=> PassedBy(k, c)
        BY <1>1, <2>2 DEF PassedBy
    <3> QED
        BY <1>1, <1>2, <1>4, <1>5, <2>1, <3>1 DEF HasWaited
  <2>3. CASE c = cycle /\ k \in DOMAIN active
    <3>1. ~PassedBy(k, c)' /\ ~PassedBy(k, c)
        BY <1>1, <2>3 DEF PassedBy, BetweenCycles, Unvisited
    <3> QED
        BY <3>1 DEF HasWaited
  <2>4. CASE c = cycle /\ k \notin DOMAIN active
    <3>1. ~WaitsIn(k, c) /\ ~WaitsIn(k, c)'
        BY <1>1, <1>5, <2>1, <2>4, OthersDoNotWait
    <3> QED
        BY <3>1 DEF HasWaited
  <2> QED
      BY <2>2, <2>3, <2>4
<1>6. ASSUME k \notin Ids PROVE ~HasWaited(k, c) /\ ~HasWaited(k, c)'
  <2>1. ~HasWaited(k, c)
      BY <1>2, <1>6 DEF HasWaited
  <2>2. ASSUME HasWaited(k, c)' PROVE FALSE
    <3>1. k \in Ids' /\ c \in 1 .. cycle
        BY <1>1, <1>2, <2>2 DEF HasWaited
    <3>2. k = nextId /\ RowIsAdded
        BY <1>2, <1>3, <1>4, <1>6, <3>1 DEF NoRowChanges
    <3>3. timeline'[k].issue = cycle
        BY <3>2 DEF RowIsAdded
    <3>4. timeline'[k].issue < c
        BY <2>2 DEF HasWaited, WaitsIn
    <3> QED
        BY <1>1, <3>1, <3>3, <3>4
  <2> QED
      BY <2>1, <2>2
<1>7. ASSUME c \notin 1 .. cycle PROVE ~HasWaited(k, c) /\ ~HasWaited(k, c)'
    BY <1>1, <1>7 DEF HasWaited
<1> QED
    BY <1>5, <1>6, <1>7

\* What one step adds to the waits: those of a stalled visit, one at a time.
LEMMA StepWaits ==
    ASSUME TimesInv, FlushInv, [NextSim]_varsSim
    PROVE  \/ \E v \in todo : /\ WaitStalled(v) /\ ~HasWaited(v, cycle)
                              /\ \A k, c : HasWaited(k, c)' <=>
                                              HasWaited(k, c) \/ (k = v /\ c = cycle)
           \/ /\ ~ \E v \in todo : WaitStalled(v)
              /\ \A k, c : HasWaited(k, c)' <=> HasWaited(k, c)
<1>1. CASE \E v \in todo : WaitStalled(v)
    BY <1>1, VisitWaits DEF VisitOf
<1>2. CASE ~ \E v \in todo : WaitStalled(v)
    BY <1>2, VisitWaits, StepsOfTheCycle, CycleBeginsWaits, LaterStageWaits
<1> QED
    BY <1>1, <1>2

LEMMA WaitedTells ==
    ASSUME TimesInv
    PROVE  /\ \A k, c : <<k, c>> \in Waited <=> HasWaited(k, c)
           /\ \A c : c \in CyclesWaited <=> \E k : HasWaited(k, c)
           /\ Waited \subseteq Issued \X (1 .. cycle) /\ CyclesWaited \subseteq 1 .. cycle
<1>1. \A k, c : <<k, c>> \in Waited <=> HasWaited(k, c)
    BY DEF Waited, HasWaited
<1>2. \A c : c \in CyclesWaited <=> \E k : HasWaited(k, c)
    BY DEF CyclesWaited, HasWaited
<1> QED
    BY <1>1, <1>2 DEF Waited, CyclesWaited

\* There are finitely many of them.
LEMMA WaitedAreFinite ==
    ASSUME TimesInv, [NextSim]_varsSim
    PROVE  /\ IsFiniteSet(Waited) /\ IsFiniteSet(CyclesWaited)
           /\ Cardinality(Waited) \in Nat /\ Cardinality(CyclesWaited) \in Nat
<1>1. IsFiniteSet(Issued)
    BY CountedAreFinite, CountedByRow
<1>2. IsFiniteSet(1 .. cycle)
  <2>1. cycle \in Int /\ 1 \in Int
      BY DEF TimesInv, RowsInv, TimelineTypeOK
  <2> QED
      BY <2>1, FS_Interval
<1>3. IsFiniteSet(Issued \X (1 .. cycle))
    BY <1>1, <1>2, FS_Product
<1> QED
    BY <1>2, <1>3, WaitedTells, FS_Subset, FS_CardinalityType

WaitReasons ==
    {"rawDependencyStallEvents", "fuBusyStallEvents", "memoryOrderingStallEvents"}

\* A stalled visit counts one reason, and stalls the backend in this cycle.
LEMMA StallIsCounted ==
    ASSUME CountersTypeOK, [NextSim]_varsSim, NEW v \in todo, WaitStalled(v)
    PROVE  /\ ReasonsCounted' = ReasonsCounted + 1
           /\ counters'["issueStallCycles"] = counters["issueStallCycles"]
           /\ counters'["backendStallCycles"] = counters["backendStallCycles"]
           /\ backendStalledThisCycle' = TRUE /\ cycle' = cycle
           /\ ~BetweenCycles /\ ~BetweenCycles'
<1>1. PICK r \in WaitReasons : Count({"totalStallEvents", r})
    BY DEF WaitStalled, StallEvents, StallReason, WaitReasons
<1>2. /\ \A c \in CounterNames :
           counters'[c] = IF c \in {"totalStallEvents", r} THEN counters[c] + 1 ELSE counters[c]
      /\ counters \in [CounterNames -> Nat]
    BY <1>1, CountFacts DEF CountersTypeOK
<1>3. /\ WaitReasons \subseteq CounterNames /\ "issueStallCycles" \in CounterNames
      /\ "backendStallCycles" \in CounterNames
    BY DEF WaitReasons, CounterNames
<1>4. PICK raw, fuBusy, ordering \in Nat :
          /\ raw = counters["rawDependencyStallEvents"] /\ fuBusy = counters["fuBusyStallEvents"]
          /\ ordering = counters["memoryOrderingStallEvents"]
    BY <1>2, <1>3 DEF WaitReasons
<1>5. /\ counters'["rawDependencyStallEvents"] =
           IF r = "rawDependencyStallEvents" THEN raw + 1 ELSE raw
      /\ counters'["fuBusyStallEvents"] = IF r = "fuBusyStallEvents" THEN fuBusy + 1 ELSE fuBusy
      /\ counters'["memoryOrderingStallEvents"] =
           IF r = "memoryOrderingStallEvents" THEN ordering + 1 ELSE ordering
    BY <1>2, <1>3, <1>4 DEF WaitReasons
<1>6. ReasonsCounted' = ReasonsCounted + 1
    BY <1>4, <1>5 DEF ReasonsCounted, WaitReasons
<1>7. /\ counters'["issueStallCycles"] = counters["issueStallCycles"]
      /\ counters'["backendStallCycles"] = counters["backendStallCycles"]
    BY <1>2, <1>3 DEF WaitReasons
<1>8. phase = "execute" /\ phase' = "execute"
    BY StagesOfTheCycle
<1>9. backendStalledThisCycle' = TRUE /\ cycle' = cycle
    BY DEF WaitStalled
<1> QED
    BY <1>6, <1>7, <1>8, <1>9 DEF BetweenCycles

\* Any other step counts none.
LEMMA OthersCountNoWait ==
    ASSUME TimesInv, CountersTypeOK, [NextSim]_varsSim, ~ \E v \in todo : WaitStalled(v)
    PROVE  /\ ReasonsCounted' = ReasonsCounted
           /\ counters'["issueStallCycles"] =
                counters["issueStallCycles"] + One(IssueStalls)
           /\ counters'["backendStallCycles"] =
                counters["backendStallCycles"] + One(EndCycleRecorded /\ backendStalledThisCycle)
<1>1. /\ WaitReasons \subseteq CounterNames /\ "issueStallCycles" \in CounterNames
      /\ "backendStallCycles" \in CounterNames /\ counters \in [CounterNames -> Nat]
    BY DEF WaitReasons, CounterNames, CountersTypeOK
<1>2. counters["issueStallCycles"] \in Nat /\ counters["backendStallCycles"] \in Nat
    BY <1>1
<1>3. IssueStalls => phase = "issue" /\ phase' = "execute"
    BY StagesOfTheCycle
<1>4. EndCycleRecorded => phase = "complete" /\ phase' = "issue"
    BY StagesOfTheCycle
<1>5. ASSUME NEW names, Count(names)
      PROVE  \A c \in CounterNames :
                counters'[c] = IF c \in names THEN counters[c] + 1 ELSE counters[c]
    BY <1>5, CountFacts
<1>6. CASE IssueStalls
  <2>1. PICK r \in {"robFullStallCycles", "rsFullStallCycles"} :
            Count({"issueStallCycles", "totalStallEvents", r})
      BY <1>6 DEF IssueStalls
  <2>2. /\ counters'["issueStallCycles"] = counters["issueStallCycles"] + 1
        /\ counters'["backendStallCycles"] = counters["backendStallCycles"]
        /\ \A c \in WaitReasons : counters'[c] = counters[c]
      BY <1>1, <1>5, <2>1 DEF WaitReasons
  <2>3. ~EndCycleRecorded
      BY <1>3, <1>4, <1>6
  <2> QED
      BY <1>2, <1>6, <2>2, <2>3 DEF One, ReasonsCounted, WaitReasons
<1>7. CASE EndCycleRecorded
  <2>1. PICK names : /\ names = {c \in {"cyclesWithAnyStall"} : stalledThisCycle} \cup
                                {c \in {"backendStallCycles"} : backendStalledThisCycle}
                     /\ Count(names)
      BY <1>7 DEF EndCycleRecorded
  <2>2. /\ "backendStallCycles" \in names <=> backendStalledThisCycle
        /\ "issueStallCycles" \notin names /\ names \cap WaitReasons = {}
      BY <2>1 DEF WaitReasons
  <2>3. \A c \in CounterNames :
            counters'[c] = IF c \in names THEN counters[c] + 1 ELSE counters[c]
      BY <1>5, <2>1
  <2>4. /\ counters'["issueStallCycles"] = counters["issueStallCycles"]
        /\ \A c \in WaitReasons : counters'[c] = counters[c]
      BY <1>1, <2>2, <2>3
  <2>5. counters'["backendStallCycles"] =
            counters["backendStallCycles"] + One(backendStalledThisCycle)
      BY <1>1, <1>2, <2>2, <2>3 DEF One
  <2>6. ~IssueStalls
      BY <1>3, <1>4, <1>7
  <2>7. One(EndCycleRecorded /\ backendStalledThisCycle) = One(backendStalledThisCycle)
        /\ One(IssueStalls) = 0
      BY <1>7, <2>6 DEF One
  <2> QED
      BY <1>2, <2>4, <2>5, <2>7 DEF ReasonsCounted, WaitReasons
<1>8. ASSUME ~IssueStalls, ~EndCycleRecorded,
             \A c \in WaitReasons \cup {"issueStallCycles", "backendStallCycles"} :
                counters'[c] = counters[c]
      PROVE  /\ ReasonsCounted' = ReasonsCounted
             /\ counters'["issueStallCycles"] =
                  counters["issueStallCycles"] + One(IssueStalls)
             /\ counters'["backendStallCycles"] =
                  counters["backendStallCycles"]
                  + One(EndCycleRecorded /\ backendStalledThisCycle)
    BY <1>2, <1>8 DEF One, ReasonsCounted, WaitReasons
<1>9. CASE ~IssueStalls /\ ~EndCycleRecorded
  <2> SUFFICES \A c \in WaitReasons \cup {"issueStallCycles", "backendStallCycles"} :
                  counters'[c] = counters[c]
      BY <1>8, <1>9
  <2>1. CASE counters' = counters
      BY <2>1
  <2>2. CASE CommitRecorded
    <3>1. PICK m \in MixClasses : Count({"committedInstructions", m})
        BY <2>2, CommitIsCounted
    <3> QED
        BY <1>1, <1>5, <3>1 DEF WaitReasons, MixClasses
  <2>3. ASSUME NEW k \in todo, StartRecorded(k)
        PROVE  \A c \in WaitReasons \cup {"issueStallCycles", "backendStallCycles"} :
                  counters'[c] = counters[c]
      BY <1>1, <2>3, StartCounts DEF WaitReasons
  <2>4. ASSUME \/ \E k \in todo : ResolveRecorded(k)
               \/ \E k \in DOMAIN cdbQueue : BroadcastRecorded(k)
        PROVE  \A c \in WaitReasons \cup {"issueStallCycles", "backendStallCycles"} :
                  counters'[c] = counters[c]
    <3>1. \/ Count({"branchCount", "branchCorrect"}) \/ Count({"branchCount", "branchMispredictions"})
          \/ Count({"cdbBroadcasts"})
        BY <2>4 DEF ResolveRecorded, BroadcastRecorded
    <3> QED
        BY <1>1, <1>5, <3>1 DEF WaitReasons
  <2> QED
      BY <1>9, <2>1, <2>2, <2>3, <2>4, OthersCount
<1> QED
    BY <1>6, <1>7, <1>9

\* The flag of the cycle goes down as the cycle begins and is counted as it ends; an
\* issue or a stall of issue takes one cycle each.
LEMMA CycleAccounts ==
    ASSUME TimesInv, CountersTypeOK, [NextSim]_varsSim, ~ \E v \in todo : WaitStalled(v)
    PROVE  /\ BackendStalledSoFar' = BackendStalledSoFar
           /\ ~BetweenCycles' =>
                /\ cycle' = cycle
                /\ IF BetweenCycles THEN backendStalledThisCycle' = FALSE
                   ELSE backendStalledThisCycle' = backendStalledThisCycle
           /\ (nextId' + counters'["issueStallCycles"]) - (nextId + counters["issueStallCycles"])
                <= (cycle' - One(BetweenCycles)') - (cycle - One(BetweenCycles))
<1>1. PICK issue, backend, now, next \in Nat :
          /\ issue = counters["issueStallCycles"] /\ backend = counters["backendStallCycles"]
          /\ now = cycle /\ next = nextId
    BY LoopFacts, CounterNameFacts
    DEF CountersTypeOK, StallNames, TimesInv, RowsInv, TimelineTypeOK
<1>2. /\ counters'["issueStallCycles"] = issue + One(IssueStalls)
      /\ counters'["backendStallCycles"] =
           backend + One(EndCycleRecorded /\ backendStalledThisCycle)
    BY <1>1, OthersCountNoWait
<1>3. One(TRUE) = 1 /\ One(FALSE) = 0
    BY DEF One
<1>4. CASE IssuePredicted \/ IssueStalls \/ NothingToIssue
  <2>1. /\ phase = "issue" /\ phase' = "execute" /\ ~EndCycleRecorded
        /\ backendStalledThisCycle' = FALSE /\ cycle' = cycle
      BY <1>4, StagesOfTheCycle DEF IssuePredicted, IssueStalls, NothingToIssue, CycleStarts
  <2>2. BetweenCycles /\ ~BetweenCycles'
      BY <2>1 DEF BetweenCycles
  <2>3. BackendStalledSoFar' = backend /\ BackendStalledSoFar = backend
      BY <1>1, <1>2, <2>1, <2>2 DEF BackendStalledSoFar, One
  <2>4. (nextId' = next + 1 /\ ~IssueStalls) \/ nextId' = next
      BY <1>1, <1>4
      DEF IssuePredicted, Issue, IssueStalls, NothingToIssue, StallIssue, fetchVars
  <2>5. One(IssueStalls) \in {0, 1} /\ (~IssueStalls => One(IssueStalls) = 0)
      BY DEF One
  <2>6. One(BetweenCycles)' = 0 /\ One(BetweenCycles) = 1
      BY <2>2 DEF One
  <2>7. PICK i \in {0, 1} : i = One(IssueStalls)
      BY <2>5
  <2>8. nextId' + counters'["issueStallCycles"] <= (next + issue) + 1
    <3>1. CASE nextId' = next + 1 /\ ~IssueStalls
        BY <1>1, <1>2, <2>5, <3>1
    <3>2. CASE nextId' = next
      <4>1. nextId' + counters'["issueStallCycles"] = next + (issue + i)
          BY <1>2, <2>7, <3>2
      <4> QED
          BY <1>1, <2>7, <4>1
    <3> QED
        BY <2>4, <3>1, <3>2
  <2>9. nextId' \in Nat /\ counters'["issueStallCycles"] \in Nat
      BY <1>1, <1>2, <2>4, <2>7
  <2>10. (nextId' + counters'["issueStallCycles"]) - (nextId + counters["issueStallCycles"])
           <= (cycle' - One(BetweenCycles)') - (cycle - One(BetweenCycles))
    <3>1. PICK sum \in Nat : sum = nextId' + counters'["issueStallCycles"]
        BY <2>9
    <3>2. sum - (next + issue) <= (now - 0) - (now - 1)
        BY <1>1, <2>8, <3>1
    <3> QED
        BY <1>1, <2>1, <2>6, <3>1, <3>2
  <2> QED
      BY <2>1, <2>2, <2>3, <2>10
<1>5. CASE EndCycleRecorded
  <2>1. /\ phase = "complete" /\ phase' = "issue" /\ ~IssueStalls /\ cycle' = now + 1
        /\ nextId' = next
      BY <1>1, <1>5, StagesOfTheCycle DEF EndCycleRecorded, EndCycle, fetchVars
  <2>2. ~BetweenCycles /\ BetweenCycles'
      BY <2>1 DEF BetweenCycles
  <2>3. One(EndCycleRecorded /\ backendStalledThisCycle) = One(backendStalledThisCycle)
        /\ One(IssueStalls) = 0 /\ One(BetweenCycles)' = 1 /\ One(BetweenCycles) = 0
      BY <1>5, <2>1, <2>2 DEF One
  <2>4. PICK b \in Nat : b = One(backendStalledThisCycle)
      BY DEF One
  <2>5. BackendStalledSoFar = backend + b
      BY <1>1, <2>2, <2>4 DEF BackendStalledSoFar, One
  <2>6. BackendStalledSoFar' = backend + b
      BY <1>2, <2>2, <2>3, <2>4 DEF BackendStalledSoFar, One
  <2>7. (nextId' + counters'["issueStallCycles"]) - (nextId + counters["issueStallCycles"])
          <= (cycle' - One(BetweenCycles)') - (cycle - One(BetweenCycles))
    <3>1. counters'["issueStallCycles"] = issue
        BY <1>1, <1>2, <2>3
    <3>2. (next + issue) - (next + issue) <= ((now + 1) - 1) - (now - 0)
        BY <1>1
    <3> QED
        BY <1>1, <2>1, <2>3, <3>1, <3>2
  <2> QED
      BY <2>2, <2>5, <2>6, <2>7
<1>6. CASE ~CycleBegins /\ ~EndCycleRecorded
  <2>1. /\ ~IssueStalls
        /\ One(EndCycleRecorded /\ backendStalledThisCycle) = 0 /\ One(IssueStalls) = 0
      BY <1>6 DEF CycleBegins, One
  <2>2. cycle' = cycle /\ backendStalledThisCycle' = backendStalledThisCycle
      BY <1>6 DEF CycleBegins, NextSim, varsSim, recordVars, Proceed, StartRecorded,
         CommitRecorded, NoCommitRecorded, BroadcastRecorded, NoBroadcastRecorded,
         CompleteRecorded, ResolveRecorded, Leaves, Stop
  <2>3. BetweenCycles' <=> BetweenCycles
    <3>1. CASE UNCHANGED varsSim
        BY <3>1 DEF varsSim, varsL1D, vars, BetweenCycles
    <3>2. CASE NextSim
        BY <1>6, <3>2, StagesOfTheCycle DEF NextSim, CycleBegins, BetweenCycles
    <3> QED
        BY <3>1, <3>2
  <2>4. nextId' = nextId
    <3>1. Ids' = Ids
      <4>1. ASSUME NEW v \in todo, VisitOf(v) PROVE Ids' = Ids
          BY <4>1, VisitChanges, StartChanges
          DEF VisitOf, NoRowChanges, RowStarts, OneRowChanges
      <4> QED
          BY <1>6, <4>1, StepsOfTheCycle
    <3>2. nextId \in Nat /\ nextId' \in Nat
      <4>1. TimesInv'
          BY NextRows
      <4>2. TypeOK'
          BY <4>1 DEF TimesInv, QueueInv, ResultInv, FateInv, RobInv, TypeInv
      <4> QED
          BY <4>2, LoopFacts DEF TimesInv, TypeOK
    <3>3. 0 .. nextId' - 1 = 0 .. nextId - 1
        BY <3>1 DEF Ids
    <3>4. nextId' <= nextId /\ nextId <= nextId'
      <4>1. PICK m, n \in Nat : m = nextId' /\ n = nextId
          BY <3>2
      <4>2. n < m => n \in 0 .. m - 1 /\ n \notin 0 .. n - 1
          OBVIOUS
      <4>3. m < n => m \in 0 .. n - 1 /\ m \notin 0 .. m - 1
          OBVIOUS
      <4> QED
          BY <3>3, <4>1, <4>2, <4>3
    <3> QED
        BY <3>2, <3>4
  <2>5. One(BetweenCycles)' = One(BetweenCycles) /\ One(BetweenCycles) \in Int
      BY <2>3 DEF One
  <2>6. BackendStalledSoFar' = BackendStalledSoFar
      BY <1>1, <1>2, <2>1, <2>2, <2>3 DEF BackendStalledSoFar, One
  <2>7. counters'["issueStallCycles"] = counters["issueStallCycles"]
      BY <1>1, <1>2, <2>1
  <2>8. (nextId' + counters'["issueStallCycles"]) - (nextId + counters["issueStallCycles"])
          <= (cycle' - One(BetweenCycles)') - (cycle - One(BetweenCycles))
    <3>1. PICK o \in Int : o = One(BetweenCycles)
        BY <2>5
    <3>2. (next + issue) - (next + issue) <= (now - o) - (now - o)
        OBVIOUS
    <3> QED
        BY <1>1, <2>2, <2>4, <2>5, <2>7, <3>1, <3>2
  <2> QED
      BY <2>2, <2>3, <2>6, <2>8
<1> QED
    BY <1>4, <1>5, <1>6 DEF CycleBegins

\* Every wait is counted, with its cycle once.
LEMMA NextWaitInv ==
    TimesInv /\ FlushInv /\ CountersTypeOK /\ WaitInv /\ [NextSim]_varsSim => WaitInv'
<1> SUFFICES ASSUME TimesInv, FlushInv, CountersTypeOK, WaitInv, [NextSim]_varsSim
             PROVE  WaitInv'
    OBVIOUS
<1>1. TimesInv'
    BY NextRows
<1>2. /\ \A k, c : <<k, c>> \in Waited <=> HasWaited(k, c)
      /\ \A c : c \in CyclesWaited <=> \E k : HasWaited(k, c)
      /\ Waited \subseteq Issued \X (1 .. cycle) /\ CyclesWaited \subseteq 1 .. cycle
    BY WaitedTells
<1>3. /\ \A k, c : <<k, c>> \in Waited' <=> HasWaited(k, c)'
      /\ \A c : c \in CyclesWaited' <=> \E k : HasWaited(k, c)'
      /\ Waited' \subseteq Issued' \X (1 .. cycle') /\ CyclesWaited' \subseteq 1 .. cycle'
  <2>1. \A k, c : <<k, c>> \in Waited' <=> HasWaited(k, c)'
      BY DEF Waited, HasWaited
  <2>2. \A c : c \in CyclesWaited' <=> \E k : HasWaited(k, c)'
      BY DEF CyclesWaited, HasWaited
  <2> QED
      BY <2>1, <2>2 DEF Waited, CyclesWaited
<1>4. /\ IsFiniteSet(Waited) /\ IsFiniteSet(CyclesWaited)
      /\ Cardinality(Waited) \in Nat /\ Cardinality(CyclesWaited) \in Nat
    BY WaitedAreFinite
<1>5. /\ ReasonsCounted = Cardinality(Waited)
      /\ BackendStalledSoFar = Cardinality(CyclesWaited)
      /\ ~BetweenCycles => (backendStalledThisCycle <=> cycle \in CyclesWaited)
      /\ nextId + counters["issueStallCycles"] <= cycle - One(BetweenCycles)
    BY DEF WaitInv
<1>6. /\ cycle \in Nat /\ cycle' \in Nat /\ nextId \in Nat /\ nextId' \in Nat
      /\ counters["issueStallCycles"] \in Nat /\ counters'["issueStallCycles"] \in Nat
      /\ counters["backendStallCycles"] \in Nat
      /\ One(BetweenCycles) \in Int /\ One(BetweenCycles)' \in Int
  <2>1. TypeOK' /\ CountersTypeOK'
      BY <1>1, NextCounterTypes DEF TimesInv, QueueInv, ResultInv, FateInv, RobInv, TypeInv
  <2>2. nextId \in Nat /\ nextId' \in Nat
      BY <2>1, LoopFacts DEF TimesInv, TypeOK
  <2>3. cycle \in Nat /\ cycle' \in Nat
      BY <1>1 DEF TimesInv, RowsInv, TimelineTypeOK
  <2> QED
      BY <2>1, <2>2, <2>3, CounterNameFacts DEF CountersTypeOK, StallNames, One
<1>7. ASSUME NEW v \in todo, WaitStalled(v), ~HasWaited(v, cycle),
             \A k, c : HasWaited(k, c)' <=> HasWaited(k, c) \/ (k = v /\ c = cycle)
      PROVE  WaitInv'
  <2>1. /\ ReasonsCounted' = ReasonsCounted + 1
        /\ counters'["issueStallCycles"] = counters["issueStallCycles"]
        /\ counters'["backendStallCycles"] = counters["backendStallCycles"]
        /\ backendStalledThisCycle' = TRUE /\ cycle' = cycle
        /\ ~BetweenCycles /\ ~BetweenCycles'
      BY <1>7, StallIsCounted
  <2>2. Waited' = Waited \cup {<<v, cycle>>} /\ <<v, cycle>> \notin Waited
    <3>1. ASSUME NEW w \in Waited' PROVE w \in Waited \cup {<<v, cycle>>}
      <4>1. PICK k, c : w = <<k, c>>
          BY <1>3, <3>1
      <4> QED
          BY <1>2, <1>3, <1>7, <3>1, <4>1
    <3>2. ASSUME NEW w \in Waited \cup {<<v, cycle>>} PROVE w \in Waited'
      <4>1. PICK k, c : w = <<k, c>>
          BY <1>2, <3>2
      <4> QED
          BY <1>2, <1>3, <1>7, <3>2, <4>1
    <3>3. <<v, cycle>> \notin Waited
        BY <1>2, <1>7
    <3> QED
        BY <3>1, <3>2, <3>3
  <2>3. CyclesWaited' = CyclesWaited \cup {cycle}
      BY <1>2, <1>3, <1>7
  <2>4. ReasonsCounted' = Cardinality(Waited')
      BY <1>4, <1>5, <2>1, <2>2, FS_AddElement
  <2>5. BackendStalledSoFar' = Cardinality(CyclesWaited')
    <3>1. BackendStalledSoFar' = counters["backendStallCycles"] + 1
        BY <2>1 DEF BackendStalledSoFar, One
    <3>2. CASE backendStalledThisCycle
      <4>1. BackendStalledSoFar = counters["backendStallCycles"] + 1
          BY <2>1, <3>2 DEF BackendStalledSoFar, One
      <4>2. CyclesWaited' = CyclesWaited
          BY <1>5, <2>1, <2>3, <3>2
      <4> QED
          BY <1>5, <3>1, <4>1, <4>2
    <3>3. CASE ~backendStalledThisCycle
      <4>1. BackendStalledSoFar = counters["backendStallCycles"]
          BY <1>6, <2>1, <3>3 DEF BackendStalledSoFar, One
      <4>2. cycle \notin CyclesWaited
          BY <1>5, <2>1, <3>3
      <4> QED
          BY <1>4, <1>5, <2>3, <3>1, <4>1, <4>2, FS_AddElement
    <3> QED
        BY <3>2, <3>3
  <2>6. backendStalledThisCycle' <=> cycle' \in CyclesWaited'
      BY <2>1, <2>3
  <2>7. nextId' = nextId
      BY <1>7 DEF WaitStalled, WaitL1D, Hold, Visit, fetchVars
  <2>8. One(BetweenCycles)' = One(BetweenCycles)
      BY <2>1 DEF One
  <2> QED
      BY <1>5, <2>1, <2>4, <2>5, <2>6, <2>7, <2>8 DEF WaitInv
<1>8. ASSUME ~ \E v \in todo : WaitStalled(v), \A k, c : HasWaited(k, c)' <=> HasWaited(k, c)
      PROVE  WaitInv'
  <2>1. Waited' = Waited /\ CyclesWaited' = CyclesWaited
    <3>1. ASSUME NEW w \in Waited' PROVE w \in Waited
      <4>1. PICK k, c : w = <<k, c>>
          BY <1>3, <3>1
      <4> QED
          BY <1>2, <1>3, <1>8, <3>1, <4>1
    <3>2. ASSUME NEW w \in Waited PROVE w \in Waited'
      <4>1. PICK k, c : w = <<k, c>>
          BY <1>2, <3>2
      <4> QED
          BY <1>2, <1>3, <1>8, <3>2, <4>1
    <3>3. CyclesWaited' = CyclesWaited
        BY <1>2, <1>3, <1>8
    <3> QED
        BY <3>1, <3>2, <3>3
  <2>2. ReasonsCounted' = Cardinality(Waited')
      BY <1>5, <1>8, <2>1, OthersCountNoWait
  <2>3. /\ BackendStalledSoFar' = BackendStalledSoFar
        /\ ~BetweenCycles' =>
             /\ cycle' = cycle
             /\ IF BetweenCycles THEN backendStalledThisCycle' = FALSE
                ELSE backendStalledThisCycle' = backendStalledThisCycle
        /\ (nextId' + counters'["issueStallCycles"]) - (nextId + counters["issueStallCycles"])
             <= (cycle' - One(BetweenCycles)') - (cycle - One(BetweenCycles))
      BY <1>8, CycleAccounts
  <2>4. BackendStalledSoFar' = Cardinality(CyclesWaited')
      BY <1>5, <2>1, <2>3
  <2>5. ASSUME ~BetweenCycles'
        PROVE  backendStalledThisCycle' <=> cycle' \in CyclesWaited'
    <3>1. BetweenCycles => cycle \notin CyclesWaited
      <4>1. BetweenCycles => \A k : ~HasWaited(k, cycle)
          BY <1>6 DEF HasWaited, PassedBy
      <4> QED
          BY <1>2, <4>1
    <3>2. cycle' = cycle
        BY <2>3, <2>5
    <3>3. CASE BetweenCycles
        BY <2>1, <2>3, <2>5, <3>1, <3>2, <3>3
    <3>4. CASE ~BetweenCycles
        BY <1>5, <2>1, <2>3, <2>5, <3>2, <3>4
    <3> QED
        BY <3>3, <3>4
  <2>6. nextId' + counters'["issueStallCycles"] <= cycle' - One(BetweenCycles)'
      BY <1>5, <1>6, <2>3
  <2> QED
      BY <2>2, <2>4, <2>5, <2>6 DEF WaitInv
<1> QED
    BY <1>7, <1>8, StepWaits

-----------------------------------------------------------------------------
(* All counters together                                                     *)

\* Nothing has waited at first.
LEMMA InitWaits == InitSim => FlushInv /\ WaitInv
<1> SUFFICES ASSUME InitSim PROVE FlushInv /\ WaitInv
    OBVIOUS
<1>1. /\ phase = "issue" /\ cycle = 1 /\ counters = [c \in CounterNames |-> 0]
      /\ timeline = EmptyFunction /\ nextId = 0
    BY DEF InitSim, InitL1D, Init
<1>2. Issued = {} /\ Ids = {}
    BY <1>1 DEF Issued, EmptyFunction, Ids
<1>3. Waited = {} /\ CyclesWaited = {}
    BY <1>2 DEF Waited, CyclesWaited
<1>4. \A c \in WaitReasons \cup {"issueStallCycles", "backendStallCycles"} : counters[c] = 0
    BY <1>1 DEF WaitReasons, CounterNames
<1>5. BetweenCycles /\ One(BetweenCycles) = 1
    BY <1>1 DEF BetweenCycles, One
<1>6. ReasonsCounted = 0 /\ BackendStalledSoFar = 0
    BY <1>4, <1>5 DEF ReasonsCounted, BackendStalledSoFar, One, WaitReasons
<1>7. nextId + counters["issueStallCycles"] <= cycle - One(BetweenCycles)
  <2>1. counters["issueStallCycles"] = 0 /\ 0 + 0 <= 1 - 1
      BY <1>4
  <2> QED
      BY <1>1, <1>5, <2>1
<1> QED
    BY <1>2, <1>3, <1>5, <1>6, <1>7, FS_EmptySet DEF FlushInv, WaitInv

LEMMA CountInvariant == SpecSim => [](TimesInv /\ FlushInv /\ CountInv /\ WaitInv)
<1>1. InitSim => CountInv
  <2> SUFFICES ASSUME InitSim PROVE CountInv
      OBVIOUS
  <2>1. /\ phase = "issue" /\ cycle = 1 /\ counters = [c \in CounterNames |-> 0]
        /\ stalledThisCycle = FALSE /\ backendStalledThisCycle = FALSE
        /\ cacheStats = [accesses |-> 0, hits |-> 0, misses |-> 0, writebacks |-> 0,
                         totalAccessLatency |-> 0]
        /\ timeline = EmptyFunction /\ statusTable = EmptyFunction
      BY DEF InitSim, InitL1D, Init, L1D!CacheInit
  <2>2. Issued = {} /\ Committed = {}
      BY <2>1 DEF Issued, Committed, EmptyFunction
  <2>3. Broadcasts = {} /\ ResolvedBranches = {} /\ Mispredicted = {} /\ Accessed = {}
      BY <2>2 DEF Broadcasts, WrittenBack, ResolvedBranches, Ended, Mispredicted, Accessed, Started
  <2>4. Cardinality({}) = 0
      BY FS_EmptySet
  <2>5. \A c \in CounterNames : counters[c] = 0
      BY <2>1
  <2>6. CountersTypeOK
      BY <2>1 DEF CountersTypeOK
  <2>7. Tallies
      BY <2>2, <2>3, <2>4, <2>5 DEF Tallies, CommitMix, CounterNames, MixClasses
  <2>8. StallsAddUp
      BY <2>5 DEF StallsAddUp, CounterNames
  <2>9. MissesAreCounted
    <3>1. cacheStats.misses = 0 /\ cacheStats.accesses = 0 /\ 0 * MissPenalty = 0
        BY <2>1, L1DAssumption
    <3> QED
        BY <2>3, <2>4, <2>5, <3>1 DEF MissesAreCounted, CounterNames
  <2>10. StalledCyclesAreCounted
    <3>1. BetweenCycles /\ One(BetweenCycles) = 1
        BY <2>1 DEF BetweenCycles, One
    <3>2. /\ counters["cyclesWithAnyStall"] = 0 /\ counters["issueStallCycles"] = 0
          /\ counters["backendStallCycles"] = 0
        BY <2>5 DEF CounterNames
    <3>3. StalledSoFar = 0 /\ BackendStalledSoFar = 0
        BY <3>1, <3>2 DEF StalledSoFar, BackendStalledSoFar, One
    <3>4. cycle = 1 /\ 0 <= 1 - 1 /\ 0 <= 0 + 0 /\ 0 <= 0
        BY <2>1
    <3> QED
        BY <3>1, <3>2, <3>3, <3>4 DEF StalledCyclesAreCounted
  <2> QED
      BY <2>6, <2>7, <2>8, <2>9, <2>10 DEF CountInv
<1>2. TimesInv /\ CountInv /\ [NextSim]_varsSim => CountInv'
    BY NextCounterTypes, NextTallies, NextStalls, NextMisses, NextStalledCycles DEF CountInv
<1>3. TimesInv /\ FlushInv /\ CountInv /\ WaitInv /\ [NextSim]_varsSim => FlushInv' /\ WaitInv'
    BY NextFlushes, NextWaitInv DEF CountInv
<1> QED
    BY <1>1, <1>2, <1>3, InitRows, InitWaits, NextRows, PTL DEF SpecSim

\* Between cycles the waits are those of the cycles gone by.
LEMMA WaitsTell ==
    ASSUME TimesInv, CountInv, WaitInv, BetweenCycles
    PROVE  /\ ReasonsCounted = Cardinality({w \in Issued \X CyclesPassed : WaitsIn(w[1], w[2])})
           /\ counters["backendStallCycles"]
                = Cardinality({c \in CyclesPassed : \E k \in Issued : WaitsIn(k, c)})
           /\ Cardinality(Issued) + counters["issueStallCycles"] <= cycle - 1
<1>1. cycle \in Nat /\ nextId \in Nat /\ Issued = Ids /\ counters["backendStallCycles"] \in Nat
    BY MispredictedRows, LoopFacts, CounterNameFacts
    DEF TimesInv, RowsInv, TimelineTypeOK, CountInv, CountersTypeOK
<1>2. \A k, c : HasWaited(k, c) <=> k \in Issued /\ c \in CyclesPassed /\ WaitsIn(k, c)
  <2>1. ASSUME NEW c PROVE c \in CyclesPassed <=> c \in 1 .. cycle /\ c < cycle
      BY <1>1 DEF CyclesPassed
  <2> QED
      BY <2>1 DEF HasWaited, PassedBy
<1>3. Waited = {w \in Issued \X CyclesPassed : WaitsIn(w[1], w[2])}
  <2>1. CyclesPassed \subseteq 1 .. cycle
      BY <1>1 DEF CyclesPassed
  <2> QED
      BY <1>2, <2>1 DEF Waited
<1>4. CyclesWaited = {c \in CyclesPassed : \E k \in Issued : WaitsIn(k, c)}
  <2>1. CyclesPassed \subseteq 1 .. cycle
      BY <1>1 DEF CyclesPassed
  <2> QED
      BY <1>2, <2>1 DEF CyclesWaited
<1>5. BackendStalledSoFar = counters["backendStallCycles"] /\ One(BetweenCycles) = 1
    BY <1>1 DEF BackendStalledSoFar, One
<1>6. Cardinality(Issued) = nextId
  <2>1. 0 \in Int /\ nextId - 1 \in Int
      BY <1>1
  <2>2. Cardinality(0 .. nextId - 1) = IF 0 > nextId - 1 THEN 0 ELSE (nextId - 1) - 0 + 1
      BY <2>1, FS_Interval
  <2> QED
      BY <1>1, <2>2 DEF Ids
<1> QED
    BY <1>3, <1>4, <1>5, <1>6 DEF WaitInv

LEMMA CountersTell == TimesInv /\ CountInv /\ WaitInv => CountersMatchTheRun
<1> SUFFICES ASSUME TimesInv, CountInv, WaitInv, phase \in {"issue", "done"} PROVE CountersMatchTheRun
    BY DEF CountersMatchTheRun
<1>1. BetweenCycles /\ CountersTypeOK /\ Tallies /\ StallsAddUp /\ MissesAreCounted
    BY DEF BetweenCycles, CountInv
<1>2. PICK any, issue, backend, now \in Nat :
          /\ any = counters["cyclesWithAnyStall"] /\ issue = counters["issueStallCycles"]
          /\ backend = counters["backendStallCycles"] /\ now = cycle
    BY <1>1, CounterNameFacts DEF CountersTypeOK, StallNames, TimesInv, RowsInv, TimelineTypeOK
<1>3. StalledSoFar = any
    BY <1>1, <1>2 DEF StalledSoFar, One
<1>4. any <= now - 1 /\ backend <= any /\ any <= issue + backend /\ issue <= any
    BY <1>2, <1>3 DEF CountInv, StalledCyclesAreCounted
<1>5. /\ counters["cyclesWithAnyStall"] <= cycle - 1
      /\ counters["issueStallCycles"] + counters["backendStallCycles"]
           >= counters["cyclesWithAnyStall"]
      /\ counters["issueStallCycles"] <= counters["cyclesWithAnyStall"]
      /\ counters["backendStallCycles"] <= counters["cyclesWithAnyStall"]
    BY <1>2, <1>4
<1>6. /\ counters["rawDependencyStallEvents"] + counters["fuBusyStallEvents"]
           + counters["memoryOrderingStallEvents"]
           = Cardinality({w \in Issued \X CyclesPassed : WaitsIn(w[1], w[2])})
      /\ counters["backendStallCycles"]
           = Cardinality({c \in CyclesPassed : \E k \in Issued : WaitsIn(k, c)})
      /\ Cardinality(Issued) + counters["issueStallCycles"] <= cycle - 1
    BY <1>1, WaitsTell DEF ReasonsCounted
<1> QED
    BY <1>1, <1>5, <1>6 DEF CountersMatchTheRun, Tallies, StallsAddUp, MissesAreCounted,
       Broadcasts, Accessed

(***************************************************************************)
(* Between two cycles the performance counters are what one would count in   *)
(* the status table: commits in all and by class, broadcasts, branches and   *)
(* mispredictions, one stall of some reason for every instruction and cycle   *)
(* it was still waiting to start in, the cycles in which any did, and cache   *)
(* accesses, over whatever flushes.                                          *)
(***************************************************************************)
THEOREM CountersMatch == SpecSim => []CountersMatchTheRun
BY CountInvariant, CountersTell, PTL

-----------------------------------------------------------------------------
(* What the predictor has learnt                                             *)

Learned(k) ==
    outcomes[Cardinality(ResolvedUpTo(k))] =
        [pc |-> statusTable[k].staticPc, taken |-> timeline[k].actualTaken]

\* The branches resolved in this cycle are older than those still to be visited.
ResolvedInOrder ==
    phase = "complete" => \A j \in Ids : \A k \in todo : timeline[j].end = cycle => j < k

LearnInv ==
    /\ outcomes \in Seq([pc : Nat, taken : BOOLEAN])
    /\ Len(outcomes) = Cardinality(ResolvedBranches)
    /\ \A k \in ResolvedBranches : Learned(k)
    /\ ResolvedInOrder

\* Nothing that is recorded of a resolution changes afterwards.
ResolutionsStay ==
    \A j \in ResolvedBranches :
        timeline'[j].end = timeline[j].end /\ timeline'[j].actualTaken = timeline[j].actualTaken

LEMMA ResolutionsAreFinal ==
    ASSUME TimesInv, [NextSim]_varsSim PROVE ResolutionsStay
<1>1. ResolvedBranches \subseteq Ids /\ \A j \in ResolvedBranches : timeline[j].end # NotYet
    BY CountedByRow DEF ResolvedBranches, Ended
<1>2. ASSUME NEW j \in ResolvedBranches
      PROVE  timeline'[j].end = timeline[j].end /\ timeline'[j].actualTaken = timeline[j].actualTaken
  <2>1. j \in Ids /\ timeline[j].end # NotYet /\ Ids \subseteq Nat
      BY <1>1, LoopFacts DEF TimesInv
  <2>2. CASE NoRowChanges \/ RowIsAdded
      BY <2>1, <2>2 DEF NoRowChanges, RowIsAdded
  <2>3. ASSUME NEW k \in Ids, RowStarts(k) \/ RowCommits(k) \/ RowIsBroadcast(k)
        PROVE  timeline'[j].end = timeline[j].end /\ timeline'[j].actualTaken = timeline[j].actualTaken
    <3>1. CASE j # k
        BY <2>1, <2>3, <3>1 DEF RowStarts, RowCommits, RowIsBroadcast, OneRowChanges
    <3>2. CASE j = k
        BY <2>3, <3>2 DEF RowStarts, RowCommits, RowIsBroadcast, RowIs
    <3> QED
        BY <3>1, <3>2
  <2>4. ASSUME NEW k \in Ids, RowEnds(k)
        PROVE  timeline'[j].end = timeline[j].end /\ timeline'[j].actualTaken = timeline[j].actualTaken
      BY <2>1, <2>4 DEF RowEnds, OneRowChanges
  <2>5. ASSUME NEW k \in Ids, RowIsMispredicted(k)
        PROVE  timeline'[j].end = timeline[j].end /\ timeline'[j].actualTaken = timeline[j].actualTaken
    <3>1. j < k \/ j > k
        BY <2>1, <2>5 DEF RowIsMispredicted
    <3> QED
        BY <2>1, <2>5, <3>1 DEF RowIsMispredicted, RowIs
  <2> QED
      BY <2>2, <2>3, <2>4, <2>5, StepsRecord
<1> QED
    BY <1>2 DEF ResolutionsStay

\* The other steps teach the predictor nothing.
LEMMA NothingLearned ==
    ASSUME TimesInv, [NextSim]_varsSim, ~ \E k \in todo : ResolveRecorded(k)
    PROVE  outcomes' = outcomes /\ ResolvedBranches' = ResolvedBranches
<1>1. todo \subseteq Ids /\ todo \subseteq DOMAIN active
    BY LoopFacts DEF TimesInv
<1>2. outcomes' = outcomes
    BY DEF NextSim, varsSim, predictorVars, IssuePredicted, IssueStalls, NothingToIssue,
       CycleStarts, Proceed, WaitStalled, StartRecorded, CommitRecorded, NoCommitRecorded,
       BroadcastRecorded, NoBroadcastRecorded, CompleteRecorded, EndCycleRecorded, Stop
<1>3. CASE \E k \in todo : Proceed(k) \/ WaitStalled(k)
    BY <1>2, <1>3, VisitChanges, NothingCounted
<1>4. ASSUME NEW k \in todo, StartRecorded(k) PROVE ResolvedBranches' = ResolvedBranches
  <2>1. RowStarts(k) /\ k \in Ids
      BY <1>1, <1>4, StartChanges
  <2> QED
      BY <2>1, OneCounted
<1>5. ASSUME NEW k \in todo, CompleteRecorded(k) PROVE ResolvedBranches' = ResolvedBranches
  <2>1. RowEnds(k) /\ k \in Ids /\ active[k].instr = InstructionOf(k) /\ ~IsBranch(active[k].instr)
      BY <1>1, <1>5, CompleteChanges, ActiveInFlight DEF TimesInv, CompleteRecorded
  <2> QED
      BY <2>1, OneCounted
<1>6. CASE CommitRecorded
  <2>1. PICK k : k = robEntries[robHead].id
      OBVIOUS
  <2>2. RowCommits(k) /\ k \in Ids
      BY <1>6, <2>1, CommitChanges, LoopFacts DEF RowCommits, OneRowChanges, TimesInv
  <2> QED
      BY <1>2, <2>2, OneCounted
<1>7. ASSUME NEW k \in DOMAIN cdbQueue, BroadcastRecorded(k)
      PROVE  ResolvedBranches' = ResolvedBranches
  <2>1. k \in Ids /\ RowIsBroadcast(k)
      BY <1>7, BroadcastChanges, LoopFacts DEF TimesInv
  <2> QED
      BY <2>1, OneCounted
<1>8. CASE RecordsNoStage \/ IssuePredicted
    BY <1>2, <1>8, QuietChanges, IssueChanges, NothingCounted
<1> QED
    BY <1>2, <1>3, <1>4, <1>5, <1>6, <1>7, <1>8 DEF NextSim, RecordsNoStage

LEMMA LearnedStays ==
    ASSUME TimesInv, [NextSim]_varsSim, ResolvedBranches' = ResolvedBranches,
           outcomes' = outcomes, NEW k \in ResolvedBranches, Learned(k)
    PROVE  Learned(k)'
<1>1. ResolutionsStay /\ ResolvedBranches \subseteq Ids
    BY ResolutionsAreFinal, CountedByRow
<1>2. statusTable'[k].staticPc = statusTable[k].staticPc
  <2>1. TypeInv /\ [NextAnyTiming]_vars
      BY LoopFacts, SimulatorSteps DEF TimesInv
  <2> QED
      BY <1>1, <2>1, StaticPcsStay
<1>3. ResolvedUpTo(k)' = ResolvedUpTo(k)
    BY <1>1 DEF ResolvedUpTo, ResolutionsStay
<1> QED
    BY <1>1, <1>2, <1>3 DEF Learned, ResolutionsStay

\* What a resolution records and teaches.
LEMMA ResolutionLearned ==
    ASSUME TimesInv, LearnInv, NEW k \in todo, ResolveRecorded(k)
    PROVE  /\ k \in Ids /\ k \notin ResolvedBranches /\ ResolvedBranches' = ResolvedBranches \cup {k}
           /\ timeline'[k].end = cycle /\ cycle' = cycle
           /\ \A j \in ResolvedBranches :
                timeline[j].end <= cycle /\ (timeline[j].end = cycle => j < k)
           /\ statusTable'[k].staticPc = statusTable[k].staticPc
           /\ outcomes' = Append(outcomes, [pc |-> statusTable[k].staticPc,
                                            taken |-> timeline'[k].actualTaken])
           /\ statusTable[k].staticPc \in Nat /\ timeline'[k].actualTaken \in BOOLEAN
           /\ phase = "complete" /\ \A j \in todo : k <= j
           /\ todo' \subseteq {j \in todo : j # k}
<1>1. /\ k \in Ids /\ [NextSim]_varsSim /\ active[k].instr = InstructionOf(k)
      /\ QueueInv /\ timeline \in [Ids -> Times] /\ cycle \in Nat
    BY LoopFacts, ActiveInFlight DEF TimesInv, NextSim, RowsInv, TimelineTypeOK
<1>2. IsBranch(InstructionOf(k)) /\ cycle' = cycle
    BY <1>1 DEF ResolveRecorded, Leaves
<1>3. \/ CompleteL1D(k) /\ timeline' = Resolved(k)
      \/ ResolveMispredicted(k) /\ timeline' = TimesFlushed(k, Resolved(k))
    BY DEF ResolveRecorded, ResolveMispredictedL1D
<1>4. RowEnds(k) \/ RowIsMispredicted(k)
    BY <1>3, ResolveCorrectChanges, ResolveMispredictedChanges
<1>5. k \notin ResolvedBranches /\ ResolvedBranches' = ResolvedBranches \cup {k}
    BY <1>1, <1>2, <1>4, OneCounted
<1>6. timeline'[k].end = cycle
    BY <1>4 DEF RowEnds, RowIsMispredicted, EndsNow
<1>7. timeline'[k] = Resolved(k)[k]
  <2>1. DOMAIN Resolved(k) = Ids /\ k \in Nat
      BY <1>1, LoopFacts DEF Resolved
  <2>2. ~(k > k)
      BY <2>1
  <2> QED
      BY <1>1, <1>3, <2>1, <2>2 DEF TimesFlushed
<1>8. timeline'[k].actualTaken = ActualTaken(k)
    BY <1>1, <1>7 DEF Resolved, Times
<1>9. /\ phase = "complete" /\ \A j \in todo : k <= j
      /\ todo' \subseteq {j \in todo : j # k}
  <2>1. CASE ResolveMispredicted(k)
    <3>1. k \in Nat
        BY <1>1, LoopFacts
    <3>2. /\ phase = "complete" /\ \A j \in todo : k <= j
          /\ todo' = {j \in todo : j < k}
        BY <1>1, <2>1, MispredictionMoves
    <3> QED
        BY <3>1, <3>2
  <2>2. CASE CompleteL1D(k)
      BY <1>1, <2>2, CompletionMoves DEF CompleteL1D
  <2> QED
      BY <1>3, <2>1, <2>2
<1>10. ASSUME NEW j \in ResolvedBranches
       PROVE  timeline[j].end <= cycle /\ (timeline[j].end = cycle => j < k)
  <2>1. j \in Ids
      BY <1>1, CountedByRow
  <2>2. HavePassed(timeline[j], cycle, phase, Unvisited(j))
      BY <2>1 DEF TimesInv, RowsInv, TimesHavePassed
  <2> QED
      BY <1>9, <2>1, <2>2 DEF HavePassed, LearnInv, ResolvedInOrder
<1>11. /\ statusTable'[k].staticPc = statusTable[k].staticPc
       /\ statusTable[k].staticPc \in Nat
  <2>1. TypeInv /\ [NextAnyTiming]_vars
      BY <1>1, LoopFacts, SimulatorSteps
  <2>2. statusTable[k].staticPc \in Nat
      BY <1>1 DEF QueueInv, FetchedFromProgram
  <2> QED
      BY <1>1, <2>1, <2>2, StaticPcsStay
<1>12. outcomes' = Append(outcomes, [pc |-> statusTable[k].staticPc,
                                     taken |-> timeline'[k].actualTaken])
    BY <1>8 DEF ResolveRecorded, TrainedWith, update
<1>13. timeline'[k].actualTaken \in BOOLEAN
    BY <1>1, <1>4 DEF RowEnds, RowIsMispredicted, OneRowChanges, Times
<1> QED
    BY <1>1, <1>2, <1>5, <1>6, <1>9, <1>10, <1>11, <1>12, <1>13

LEMMA ResolveLearns ==
    ASSUME TimesInv, LearnInv, NEW k \in todo, ResolveRecorded(k)
    PROVE  /\ outcomes' \in Seq([pc : Nat, taken : BOOLEAN])
           /\ Len(outcomes') = Cardinality(ResolvedBranches')
           /\ \A j \in ResolvedBranches' : Learned(j)'
<1>1. [NextSim]_varsSim /\ ResolutionsStay /\ ResolvedBranches \subseteq Ids /\ Ids \subseteq Nat
  <2>1. [NextSim]_varsSim
      BY DEF NextSim
  <2> QED
      BY <2>1, ResolutionsAreFinal, CountedByRow, LoopFacts DEF TimesInv
<1>2. /\ k \in Ids /\ k \notin ResolvedBranches /\ ResolvedBranches' = ResolvedBranches \cup {k}
      /\ timeline'[k].end = cycle /\ statusTable'[k].staticPc = statusTable[k].staticPc
    BY ResolutionLearned
<1>3. \A j \in ResolvedBranches : timeline[j].end <= cycle /\ (timeline[j].end = cycle => j < k)
    BY ResolutionLearned
<1>4. PICK taken \in [pc : Nat, taken : BOOLEAN] :
          /\ taken = [pc |-> statusTable[k].staticPc, taken |-> timeline'[k].actualTaken]
          /\ outcomes' = Append(outcomes, taken)
    BY ResolutionLearned
<1>5. /\ outcomes \in Seq([pc : Nat, taken : BOOLEAN])
      /\ Len(outcomes) = Cardinality(ResolvedBranches)
    BY DEF LearnInv
<1>6. /\ outcomes' \in Seq([pc : Nat, taken : BOOLEAN]) /\ Len(outcomes') = Len(outcomes) + 1
      /\ outcomes'[Len(outcomes) + 1] = taken
      /\ \A n \in 1 .. Len(outcomes) : outcomes'[n] = outcomes[n]
    BY <1>4, <1>5
<1>7. Cardinality(ResolvedBranches') = Cardinality(ResolvedBranches) + 1
    BY <1>1, <1>2, OneMore
<1>8. /\ k \in Int /\ cycle \in Int
      /\ \A j \in ResolvedBranches :
           j \in Int /\ timeline[j].end \in Int /\ timeline'[j].end = timeline[j].end
  <2>1. cycle \in Nat /\ timeline \in [Ids -> Times]
      BY DEF TimesInv, RowsInv, TimelineTypeOK
  <2>2. \A j \in Ids : j \in Int /\ timeline[j].end \in Int
      BY <1>1, <2>1, RowTypes
  <2> QED
      BY <1>1, <1>2, <2>1, <2>2 DEF ResolutionsStay
<1>9. Learned(k)'
  <2>1. ASSUME NEW j \in ResolvedBranches
        PROVE  timeline'[j].end < timeline'[k].end \/ (timeline'[j].end = timeline'[k].end /\ j <= k)
      BY <1>2, <1>3, <1>8
  <2>2. k <= k
      BY <1>8
  <2>3. ResolvedUpTo(k)' = ResolvedBranches'
      BY <1>2, <2>1, <2>2 DEF ResolvedUpTo
  <2> QED
      BY <1>2, <1>4, <1>5, <1>6, <1>7, <2>3 DEF Learned
<1>10. ASSUME NEW j \in ResolvedBranches PROVE Learned(j)'
  <2>1. j \in Ids /\ Learned(j)
      BY <1>1 DEF LearnInv
  <2>2. statusTable'[j].staticPc = statusTable[j].staticPc
    <3>1. TypeInv /\ [NextAnyTiming]_vars
        BY <1>1, LoopFacts, SimulatorSteps DEF TimesInv
    <3> QED
        BY <2>1, <3>1, StaticPcsStay
  <2>3. ~(timeline'[k].end < timeline'[j].end) /\ ~(timeline'[k].end = timeline'[j].end /\ k <= j)
      BY <1>2, <1>3, <1>8
  <2>4. ResolvedUpTo(j)' = ResolvedUpTo(j)
      BY <1>1, <1>2, <2>3 DEF ResolvedUpTo, ResolutionsStay
  <2>5. Cardinality(ResolvedUpTo(j)) \in 1 .. Len(outcomes)
    <3>1. ResolvedUpTo(j) \subseteq ResolvedBranches /\ j \in ResolvedUpTo(j)
        BY <1>1, <2>1 DEF ResolvedUpTo
    <3>2. IsFiniteSet(ResolvedBranches) /\ IsFiniteSet(ResolvedUpTo(j))
        BY <1>1, <3>1, CountedAreFinite
    <3>3. /\ Cardinality(ResolvedUpTo(j)) <= Cardinality(ResolvedBranches)
          /\ Cardinality(ResolvedUpTo(j)) \in Nat /\ Cardinality(ResolvedBranches) \in Nat
        BY <3>1, <3>2, FS_Subset, FS_CardinalityType
    <3>4. Cardinality(ResolvedUpTo(j)) # 0
        BY <3>1, <3>2, FS_EmptySet
    <3> QED
        BY <1>5, <3>3, <3>4
  <2> QED
      BY <1>1, <1>6, <2>1, <2>2, <2>4, <2>5 DEF Learned, ResolutionsStay
<1> QED
    BY <1>2, <1>5, <1>6, <1>7, <1>9, <1>10

LEMMA NextInOrder ==
    ASSUME TimesInv, LearnInv, [NextSim]_varsSim PROVE ResolvedInOrder'
<1> SUFFICES ASSUME phase' = "complete", NEW j \in Ids', NEW k \in todo', timeline'[j].end = cycle'
             PROVE  j < k
    BY DEF ResolvedInOrder
<1>1. /\ cycle \in Nat /\ timeline \in [Ids -> Times] /\ Ids \subseteq Nat /\ todo \subseteq Ids
      /\ QueueInv /\ cycle # NotYet
    BY LoopFacts DEF TimesInv, RowsInv, TimelineTypeOK, NotYet
<1>2. ASSUME timeline' = timeline \/ (\E i \in Ids : RowIsBroadcast(i)), Ids' = Ids,
             cycle' = cycle, phase = "broadcast"
      PROVE  FALSE
  <2>1. timeline'[j].end = timeline[j].end
    <3>1. ASSUME NEW i \in Ids, RowIsBroadcast(i) PROVE timeline'[j].end = timeline[j].end
      <4>1. CASE j = i
          BY <3>1, <4>1 DEF RowIsBroadcast, RowIs
      <4>2. CASE j # i
          BY <1>2, <3>1, <4>2 DEF RowIsBroadcast, OneRowChanges
      <4> QED
          BY <4>1, <4>2
    <3> QED
        BY <1>2, <3>1
  <2>2. HavePassed(timeline[j], cycle, phase, Unvisited(j)) /\ timeline[j].end \in Int
      BY <1>1, <1>2, RowTypes DEF TimesInv, RowsInv, TimesHavePassed
  <2>3. timeline[j].end < cycle
      BY <1>2, <2>2 DEF HavePassed
  <2> QED
      BY <1>1, <1>2, <2>1, <2>3
<1>3. CASE NoBroadcastRecorded
  <2>1. timeline' = timeline /\ Ids' = Ids /\ cycle' = cycle /\ phase = "broadcast"
      BY <1>3, QuietChanges, StagesOfTheCycle
      DEF RecordsNoStage, NoRowChanges, NoBroadcastRecorded, recordVars
  <2> QED
      BY <1>2, <2>1
<1>4. ASSUME NEW i \in DOMAIN cdbQueue, BroadcastRecorded(i) PROVE j < k
  <2>1. i \in Ids /\ RowIsBroadcast(i) /\ cycle' = cycle /\ phase = "broadcast"
      BY <1>1, <1>4, BroadcastChanges, StagesOfTheCycle, LoopFacts DEF BroadcastRecorded
  <2>2. Ids' = Ids
      BY <2>1 DEF RowIsBroadcast, OneRowChanges
  <2> QED
      BY <1>2, <2>1, <2>2
<1>5. ASSUME NEW i \in todo, CompleteRecorded(i) \/ ResolveRecorded(i) PROVE j < k
  <2>1. /\ \A n \in todo : i <= n
        /\ k \in todo /\ k # i /\ phase = "complete" /\ cycle' = cycle
    <3>1. CASE ResolveRecorded(i)
        BY <3>1, ResolutionLearned
    <3>2. CASE CompleteRecorded(i)
        BY <1>1, <3>2, CompletionMoves DEF CompleteRecorded, CompleteL1D, Leaves
    <3> QED
        BY <1>5, <3>1, <3>2
  <2>2. i \in Nat /\ k \in Nat /\ i < k
      BY <1>1, <2>1
  <2>3. RowEnds(i) \/ RowIsMispredicted(i)
    <3>1. CASE ResolveRecorded(i)
      <4>1. \/ CompleteL1D(i) /\ timeline' = Resolved(i)
            \/ ResolveMispredicted(i) /\ timeline' = TimesFlushed(i, Resolved(i))
          BY <3>1 DEF ResolveRecorded, ResolveMispredictedL1D
      <4> QED
          BY <3>1, <4>1, ResolveCorrectChanges, ResolveMispredictedChanges
    <3>2. CASE CompleteRecorded(i)
        BY <3>2, CompleteChanges
    <3> QED
        BY <1>5, <3>1, <3>2
  <2>4. j \in Ids
      BY <2>3 DEF RowEnds, RowIsMispredicted, OneRowChanges
  <2>5. CASE j = i
      BY <2>2, <2>5
  <2>6. CASE j # i
    <3>1. j < i \/ j > i
        BY <1>1, <2>2, <2>4, <2>6
    <3>2. timeline'[j].end = timeline[j].end
        BY <2>3, <2>4, <2>6, <3>1 DEF RowEnds, RowIsMispredicted, OneRowChanges, RowIs
    <3> QED
        BY <2>1, <2>4, <3>2 DEF LearnInv, ResolvedInOrder
  <2> QED
      BY <2>5, <2>6
<1>6. CASE UNCHANGED varsSim
  <2>1. /\ phase = "complete" /\ timeline' = timeline /\ cycle' = cycle /\ todo' = todo
        /\ nextId' = nextId
      BY <1>6 DEF varsSim, recordVars, varsL1D, vars, fetchVars
  <2>2. j \in Ids /\ k \in todo
      BY <2>1 DEF Ids
  <2> QED
      BY <2>1, <2>2 DEF LearnInv, ResolvedInOrder
<1> QED
    BY <1>3, <1>4, <1>5, <1>6, StagesOfTheCycle DEF NextSim

LEMMA LearnInvariant == SpecSim => [](TimesInv /\ LearnInv)
<1>1. InitSim => LearnInv
  <2> SUFFICES ASSUME InitSim PROVE LearnInv
      OBVIOUS
  <2>1. outcomes = <<>> /\ timeline = EmptyFunction /\ phase = "issue"
      BY DEF InitSim, InitL1D, Init, PredictorInit
  <2>2. ResolvedBranches = {}
      BY <2>1 DEF ResolvedBranches, Ended, Issued, EmptyFunction
  <2>3. Cardinality({}) = 0
      BY FS_EmptySet
  <2> QED
      BY <2>1, <2>2, <2>3 DEF LearnInv, ResolvedInOrder
<1>2. TimesInv /\ LearnInv /\ [NextSim]_varsSim => LearnInv'
  <2> SUFFICES ASSUME TimesInv, LearnInv, [NextSim]_varsSim PROVE LearnInv'
      OBVIOUS
  <2>1. ResolvedInOrder'
      BY NextInOrder
  <2>2. CASE ~ \E k \in todo : ResolveRecorded(k)
    <3>1. outcomes' = outcomes /\ ResolvedBranches' = ResolvedBranches
        BY <2>2, NothingLearned
    <3>2. \A k \in ResolvedBranches : Learned(k)'
        BY <3>1, LearnedStays DEF LearnInv
    <3> QED
        BY <2>1, <3>1, <3>2 DEF LearnInv
  <2>3. CASE \E k \in todo : ResolveRecorded(k)
      BY <2>1, <2>3, ResolveLearns DEF LearnInv
  <2> QED
      BY <2>2, <2>3
<1> QED
    BY <1>1, <1>2, InitRows, NextRows, PTL DEF SpecSim

LEMMA LearningTells == LearnInv => PredictorLearnsResolutions
BY DEF LearnInv, PredictorLearnsResolutions, Learned

(***************************************************************************)
(* Whichever predictor the simulator runs with, it is trained with every      *)
(* branch that resolves, once, with the direction the branch took, in the     *)
(* order of resolution, and never with a prediction.                          *)
(***************************************************************************)
THEOREM PredictorLearns == SpecSim => []PredictorLearnsResolutions
BY LearnInvariant, LearningTells, PTL

-----------------------------------------------------------------------------
(* The pipelines that are drawn                                              *)

Pipes(u) == 1 .. FuCount[u]
Depths(u) == 1 .. PipelineDepth[u]
Taken(u) == {p \in Pipes(u) : pipelines[u][p][1] # None}

\* The stage an executing instruction has come to.
StageOf(k) == cycle - timeline[k].start + (IF BetweenCycles THEN 0 ELSE 1)

StagesOK(u, fu) == fu \in [Pipes(u) -> [Depths(u) -> Ids \cup {None}]]
PipelineTypeOK ==
    /\ pipelines = [u \in PipelinedFUs |-> pipelines[u]]
    /\ \A u \in PipelinedFUs : StagesOK(u, pipelines[u])

\* What a stage shows executes there, or was flushed.
StageShows(u, p, s) ==
    LET k == pipelines[u][p][s] IN
      k # None => IF k \in ExecutingOn(u) THEN s = StageOf(k) ELSE k \in Flushed

\* An instruction is shown as long as the pipeline is deep enough, and once.
ShowsOnce(u, k) ==
    /\ StageOf(k) <= PipelineDepth[u] => \E p \in Pipes(u) : pipelines[u][p][StageOf(k)] = k
    /\ \A p, q \in Pipes(u) : \A s \in Depths(u) :
         pipelines[u][p][s] = k /\ pipelines[u][q][s] = k => p = q

UnitShows(u) ==
    /\ \A p \in Pipes(u) : \A s \in Depths(u) : StageShows(u, p, s)
    /\ \A k \in ExecutingOn(u) : ShowsOnce(u, k)
    /\ phase \in {"execute", "broadcast"} => entered[u] = Cardinality(Taken(u))

ShownInv == PipelineTypeOK /\ \A u \in PipelinedFUs : UnitShows(u)

LEMMA PipelineSizes ==
    ASSUME NEW u \in PipelinedFUs
    PROVE  /\ u \in FUTypes /\ FuCount[u] \in Nat \ {0} /\ PipelineDepth[u] \in Nat \ {0}
           /\ 1 \in Depths(u) /\ 1 \in Pipes(u) /\ Pipes(u) \subseteq Nat /\ Depths(u) \subseteq Nat
           /\ IsFiniteSet(Pipes(u)) /\ Cardinality(Pipes(u)) = FuCount[u]
<1>1. u \in FUTypes /\ FuCount[u] \in Nat \ {0} /\ PipelineDepth[u] \in Nat \ {0}
    BY FuCountAssumption, PipelineDepthAssumption DEF PipelinedFUs, FUTypes
<1>2. 1 \in Depths(u) /\ 1 \in Pipes(u) /\ Pipes(u) \subseteq Nat /\ Depths(u) \subseteq Nat
    BY <1>1 DEF Depths, Pipes
<1>3. IsFiniteSet(Pipes(u)) /\ Cardinality(Pipes(u)) = FuCount[u]
  <2>1. 1 \in Int /\ FuCount[u] \in Int
      BY <1>1
  <2>2. IsFiniteSet(1 .. FuCount[u])
        /\ Cardinality(1 .. FuCount[u]) = IF 1 > FuCount[u] THEN 0 ELSE FuCount[u] - 1 + 1
      BY <2>1, FS_Interval
  <2> QED
      BY <1>1, <2>2 DEF Pipes
<1> QED
    BY <1>1, <1>2, <1>3

\* An executing instruction is in some stage, and was not flushed.
LEMMA ExecutingStage ==
    ASSUME TimesInv, NEW u \in PipelinedFUs, NEW k \in ExecutingOn(u)
    PROVE  /\ StageOf(k) \in Nat \ {0} /\ k \in Ids /\ k \in DOMAIN active /\ k \in InFlight
           /\ k # None /\ k \notin Flushed
           /\ timeline[k].start # NotYet /\ timeline[k].start \in Nat /\ cycle \in Nat
<1>1. k \in DOMAIN active /\ active[k].executing
    BY DEF ExecutingOn
<1>2. /\ k \in Ids /\ k \in InFlight /\ k \notin Flushed /\ Ids \subseteq Nat
    BY <1>1, LoopFacts DEF TimesInv
<1>3. /\ timeline[k] \in Times /\ cycle \in Nat /\ ActiveTimes(k)
      /\ HavePassed(timeline[k], cycle, phase, Unvisited(k))
    BY <1>1, <1>2 DEF TimesInv, RowsInv, TimelineTypeOK, RowsShowProgress, TimesHavePassed
<1>4. timeline[k].start # NotYet /\ timeline[k].start \in Nat
    BY <1>1, <1>3, RowTypes DEF ActiveTimes
<1>5. /\ timeline[k].start <= cycle /\ (BetweenCycles => timeline[k].start < cycle)
    BY <1>3 DEF HavePassed, BetweenCycles
<1>6. StageOf(k) \in Nat \ {0}
    BY <1>3, <1>4, <1>5 DEF StageOf
<1>7. k # None
    BY <1>2 DEF None
<1> QED
    BY <1>1, <1>2, <1>3, <1>4, <1>6, <1>7

\* The cycle an instruction started in is recorded once.
LEMMA StartsAreFinal ==
    ASSUME TimesInv, [NextSim]_varsSim, NEW j \in Ids, timeline[j].start # NotYet
    PROVE  timeline'[j].start = timeline[j].start
<1>1. Ids \subseteq Nat
    BY LoopFacts DEF TimesInv
<1>2. CASE NoRowChanges \/ RowIsAdded
    BY <1>2 DEF NoRowChanges, RowIsAdded
<1>3. ASSUME NEW k \in Ids, RowStarts(k) \/ RowCommits(k) \/ RowIsBroadcast(k)
      PROVE  timeline'[j].start = timeline[j].start
  <2>1. CASE j # k
      BY <1>3, <2>1 DEF RowStarts, RowCommits, RowIsBroadcast, OneRowChanges
  <2>2. CASE j = k
      BY <1>3, <2>2 DEF RowStarts, RowCommits, RowIsBroadcast, RowIs
  <2> QED
      BY <2>1, <2>2
<1>4. ASSUME NEW k \in Ids, RowEnds(k) \/ RowIsMispredicted(k)
      PROVE  timeline'[j].start = timeline[j].start
  <2>1. CASE j = k
      BY <1>4, <2>1 DEF RowEnds, RowIsMispredicted, EndsNow
  <2>2. CASE j # k
    <3>1. j < k \/ j > k
        BY <1>1, <2>2
    <3> QED
        BY <1>4, <2>2, <3>1 DEF RowEnds, RowIsMispredicted, OneRowChanges, RowIs
  <2> QED
      BY <2>1, <2>2
<1> QED
    BY <1>2, <1>3, <1>4, StepsRecord

\* The stages of the instructions that execute change only as a cycle begins.
LEMMA StagesStay ==
    ASSUME TimesInv, [NextSim]_varsSim, NEW u \in PipelinedFUs, NEW k \in ExecutingOn(u)
    PROVE  /\ cycle' = cycle /\ (BetweenCycles' <=> BetweenCycles) => StageOf(k)' = StageOf(k)
           /\ EndCycleRecorded => StageOf(k)' = StageOf(k)
           /\ cycle' = cycle /\ BetweenCycles /\ ~BetweenCycles' => StageOf(k)' = StageOf(k) + 1
<1>1. timeline'[k].start = timeline[k].start /\ timeline[k].start \in Nat /\ cycle \in Nat
    BY ExecutingStage, StartsAreFinal
<1>2. EndCycleRecorded => ~BetweenCycles /\ BetweenCycles' /\ cycle' = cycle + 1
    BY StagesOfTheCycle DEF BetweenCycles, EndCycleRecorded
<1>3. CASE cycle' = cycle
    BY <1>1, <1>2, <1>3 DEF StageOf
<1>4. CASE EndCycleRecorded
    BY <1>1, <1>2, <1>4 DEF StageOf
<1> QED
    BY <1>3, <1>4

-----------------------------------------------------------------------------
(* What the operations do to the stages                                      *)

LEMMA AdvancedStages ==
    ASSUME PipelineTypeOK, NEW u \in PipelinedFUs
    PROVE  /\ StagesOK(u, advancePipeline(pipelines[u]))
           /\ \A p \in Pipes(u) : \A s \in Depths(u) :
                advancePipeline(pipelines[u])[p][s] = IF s = 1 THEN None ELSE pipelines[u][p][s - 1]
<1>1. PICK fu : fu = pipelines[u] /\ fu \in [Pipes(u) -> [Depths(u) -> Ids \cup {None}]]
    BY DEF PipelineTypeOK, StagesOK
<1>2. advancePipeline(fu) =
        [p \in Pipes(u) |-> [s \in Depths(u) |-> IF s = 1 THEN None ELSE fu[p][s - 1]]]
    BY <1>1 DEF advancePipeline
<1>3. \A s \in Depths(u) : s # 1 => s - 1 \in Depths(u)
    BY PipelineSizes DEF Depths
<1>4. StagesOK(u, advancePipeline(fu))
    BY <1>1, <1>2, <1>3 DEF StagesOK
<1> QED
    BY <1>1, <1>2, <1>4

LEMMA RemovedStages ==
    ASSUME PipelineTypeOK, NEW u \in PipelinedFUs, NEW k
    PROVE  /\ StagesOK(u, removeFromPipeline(pipelines[u], k))
           /\ \A p \in Pipes(u) : \A s \in Depths(u) :
                removeFromPipeline(pipelines[u], k)[p][s] =
                    IF pipelines[u][p][s] = k THEN None ELSE pipelines[u][p][s]
<1>1. PICK fu : fu = pipelines[u] /\ fu \in [Pipes(u) -> [Depths(u) -> Ids \cup {None}]]
    BY DEF PipelineTypeOK, StagesOK
<1>2. removeFromPipeline(fu, k) =
        [p \in Pipes(u) |-> [s \in Depths(u) |-> IF fu[p][s] = k THEN None ELSE fu[p][s]]]
    BY <1>1 DEF removeFromPipeline
<1>3. StagesOK(u, removeFromPipeline(fu, k))
    BY <1>1, <1>2 DEF StagesOK
<1> QED
    BY <1>1, <1>2, <1>3

LEMMA InsertedStages ==
    ASSUME PipelineTypeOK, NEW u \in PipelinedFUs, NEW k \in Ids, Taken(u) # Pipes(u)
    PROVE  /\ StagesOK(u, insertIntoPipeline(pipelines[u], k))
           /\ \E first \in Pipes(u) \ Taken(u) : \A p \in Pipes(u) : \A s \in Depths(u) :
                insertIntoPipeline(pipelines[u], k)[p][s] =
                    IF p = first /\ s = 1 THEN k ELSE pipelines[u][p][s]
<1>1. PICK fu : fu = pipelines[u] /\ fu \in [Pipes(u) -> [Depths(u) -> Ids \cup {None}]]
    BY DEF PipelineTypeOK, StagesOK
<1>2. FreePipelines(fu) = Pipes(u) \ Taken(u) /\ FreePipelines(fu) # {}
      /\ FreePipelines(fu) \subseteq Nat
    BY <1>1, PipelineSizes DEF FreePipelines, Taken
<1>3. \E p \in FreePipelines(fu) : \A q \in FreePipelines(fu) : p <= q
    BY <1>2, LeastExists
<1>4. PICK first : first = CHOOSE p \in FreePipelines(fu) : \A q \in FreePipelines(fu) : p <= q
    OBVIOUS
<1>5. first \in FreePipelines(fu)
    BY <1>3, <1>4
<1>6. insertIntoPipeline(fu, k) = [fu EXCEPT ![first][1] = k]
    BY <1>2, <1>4 DEF insertIntoPipeline
<1>7. first \in Pipes(u) \ Taken(u) /\ 1 \in Depths(u)
    BY <1>2, <1>5, PipelineSizes
<1>8. /\ insertIntoPipeline(fu, k) \in [Pipes(u) -> [Depths(u) -> Ids \cup {None}]]
      /\ \A p \in Pipes(u) : \A s \in Depths(u) :
           insertIntoPipeline(fu, k)[p][s] = IF p = first /\ s = 1 THEN k ELSE fu[p][s]
    BY <1>1, <1>6, <1>7
<1> QED
    BY <1>1, <1>7, <1>8 DEF StagesOK

-----------------------------------------------------------------------------
(* What a step does to the pipelines of one unit                             *)

\* The pipelines stay; what ceases to execute without leaving them is flushed.
UnitStays(u) ==
    /\ pipelines'[u] = pipelines[u] /\ entered'[u] = entered[u]
    /\ phase' \in {"execute", "broadcast"} => phase \in {"execute", "broadcast"}
    /\ Ids \subseteq Ids' /\ Flushed \subseteq Flushed'
    /\ ExecutingOn(u)' \subseteq ExecutingOn(u)
    /\ ExecutingOn(u) \subseteq ExecutingOn(u)' \cup Flushed'
    /\ \A k \in ExecutingOn(u)' : StageOf(k)' = StageOf(k)

UnitAdvances(u) ==
    /\ pipelines'[u] = advancePipeline(pipelines[u]) /\ entered'[u] = 0
    /\ Ids \subseteq Ids' /\ Flushed' = Flushed
    /\ ExecutingOn(u)' = ExecutingOn(u)
    /\ \A k \in ExecutingOn(u) : StageOf(k)' = StageOf(k) + 1

UnitEnters(u, k) ==
    /\ pipelines'[u] = insertIntoPipeline(pipelines[u], k) /\ entered'[u] = entered[u] + 1
    /\ phase = "execute" /\ entered[u] < FuCount[u]
    /\ Ids' = Ids /\ Flushed' = Flushed /\ k \notin Flushed \cup ExecutingOn(u)
    /\ ExecutingOn(u)' = ExecutingOn(u) \cup {k}
    /\ StageOf(k)' = 1 /\ \A j \in ExecutingOn(u) : StageOf(j)' = StageOf(j)

UnitLeaves(u, k) ==
    /\ pipelines'[u] = removeFromPipeline(pipelines[u], k) /\ phase' = "complete"
    /\ Ids' = Ids /\ Flushed' = Flushed
    /\ ExecutingOn(u)' = ExecutingOn(u) \ {k}
    /\ \A j \in ExecutingOn(u)' : StageOf(j)' = StageOf(j)

UnitIsShown(u) == StagesOK(u, pipelines[u]) /\ UnitShows(u)

LEMMA StaysShown == ASSUME ShownInv, NEW u \in PipelinedFUs, UnitStays(u) PROVE UnitIsShown(u)'
<1>1. StagesOK(u, pipelines[u]) /\ UnitShows(u)
    BY DEF ShownInv, PipelineTypeOK
<1>2. StagesOK(u, pipelines[u])'
    BY <1>1 DEF UnitStays, StagesOK
<1>3. ASSUME NEW p \in Pipes(u), NEW s \in Depths(u) PROVE StageShows(u, p, s)'
  <2>1. StageShows(u, p, s)
      BY <1>1 DEF UnitShows
  <2> QED
      BY <2>1 DEF StageShows, UnitStays
<1>4. ASSUME NEW k \in ExecutingOn(u)' PROVE ShowsOnce(u, k)'
  <2>1. ShowsOnce(u, k) /\ StageOf(k)' = StageOf(k) /\ pipelines'[u] = pipelines[u]
      BY <1>1, <1>4 DEF UnitShows, UnitStays
  <2> QED
      BY <2>1 DEF ShowsOnce
<1>5. phase' \in {"execute", "broadcast"} => entered'[u] = Cardinality(Taken(u))'
  <2>1. Taken(u)' = Taken(u)
      BY DEF UnitStays, Taken
  <2> QED
      BY <1>1, <2>1 DEF UnitShows, UnitStays
<1> QED
    BY <1>2, <1>3, <1>4, <1>5 DEF UnitIsShown, UnitShows

LEMMA AdvancesShown ==
    ASSUME TimesInv, ShownInv, NEW u \in PipelinedFUs, UnitAdvances(u) PROVE UnitIsShown(u)'
<1>1. PipelineTypeOK /\ StagesOK(u, pipelines[u]) /\ UnitShows(u)
    BY DEF ShownInv, PipelineTypeOK
<1>2. PICK fu, new : fu = pipelines[u] /\ new = pipelines'[u]
    OBVIOUS
<1>3. \A p \in Pipes(u) : \A s \in Depths(u) :
        new[p][s] = IF s = 1 THEN None ELSE fu[p][s - 1]
    BY <1>1, <1>2, AdvancedStages DEF UnitAdvances
<1>4. StagesOK(u, pipelines[u])'
  <2>1. StagesOK(u, new)
      BY <1>1, <1>2, AdvancedStages DEF UnitAdvances
  <2> QED
      BY <1>2, <2>1 DEF UnitAdvances, StagesOK
<1>5. /\ PipelineDepth[u] \in Nat \ {0} /\ 1 \in Depths(u)
      /\ \A s \in Depths(u) : s \in Nat \ {0} /\ (s # 1 => s - 1 \in Depths(u))
    BY PipelineSizes DEF Depths
<1>6. ASSUME NEW k \in ExecutingOn(u)
      PROVE  StageOf(k) \in Nat \ {0} /\ k # None /\ StageOf(k)' = StageOf(k) + 1
    BY <1>6, ExecutingStage DEF UnitAdvances
<1>7. ASSUME NEW p \in Pipes(u), NEW s \in Depths(u) PROVE StageShows(u, p, s)'
  <2>1. CASE s = 1
    <3>1. new[p][s] = None
        BY <1>3, <2>1
    <3> QED
        BY <1>2, <3>1 DEF StageShows
  <2>2. CASE s # 1
    <3>1. PICK k : k = fu[p][s - 1]
        OBVIOUS
    <3>2. new[p][s] = k /\ s - 1 \in Depths(u) /\ s \in Nat
        BY <1>3, <1>5, <2>2, <3>1
    <3>3. k # None => IF k \in ExecutingOn(u) THEN s - 1 = StageOf(k) ELSE k \in Flushed
        BY <1>1, <1>2, <3>1, <3>2 DEF UnitShows, StageShows
    <3>4. k \in ExecutingOn(u) /\ k # None => s = StageOf(k)'
        BY <1>6, <3>2, <3>3
    <3>5. k # None => IF k \in ExecutingOn(u)' THEN s = StageOf(k)' ELSE k \in Flushed'
        BY <3>3, <3>4 DEF UnitAdvances
    <3> QED
        BY <1>2, <3>2, <3>5 DEF StageShows
  <2> QED
      BY <2>1, <2>2
<1>8. ASSUME NEW k \in ExecutingOn(u) PROVE ShowsOnce(u, k)'
  <2>1. PICK e \in Nat \ {0} : e = StageOf(k)
      BY <1>6
  <2>2. /\ e <= PipelineDepth[u] => \E p \in Pipes(u) : fu[p][e] = k
        /\ \A p, q \in Pipes(u) : \A s \in Depths(u) : fu[p][s] = k /\ fu[q][s] = k => p = q
      BY <1>1, <1>2, <2>1 DEF UnitShows, ShowsOnce
  <2>3. e + 1 <= PipelineDepth[u] => \E p \in Pipes(u) : new[p][e + 1] = k
    <3>1. SUFFICES ASSUME e + 1 <= PipelineDepth[u] PROVE \E p \in Pipes(u) : new[p][e + 1] = k
        OBVIOUS
    <3>2. e + 1 \in Depths(u) /\ e + 1 # 1 /\ (e + 1) - 1 = e /\ e <= PipelineDepth[u]
        BY <1>5, <2>1, <3>1 DEF Depths
    <3>3. PICK p \in Pipes(u) : fu[p][e] = k
        BY <2>2, <3>2
    <3> QED
        BY <1>3, <3>2, <3>3
  <2>4. ASSUME NEW p \in Pipes(u), NEW q \in Pipes(u), NEW s \in Depths(u),
               new[p][s] = k, new[q][s] = k
        PROVE  p = q
    <3>1. s # 1
        BY <1>3, <1>6, <2>4
    <3> QED
        BY <1>3, <1>5, <2>2, <2>4, <3>1
  <2>5. StageOf(k)' = e + 1
      BY <1>6, <2>1
  <2> QED
      BY <1>2, <2>3, <2>4, <2>5 DEF ShowsOnce
<1>9. entered'[u] = Cardinality(Taken(u))'
  <2>1. Taken(u)' = {}
      BY <1>2, <1>3, <1>5 DEF Taken
  <2> QED
      BY <2>1, FS_EmptySet DEF UnitAdvances
<1>10. ExecutingOn(u)' = ExecutingOn(u)
    BY DEF UnitAdvances
<1> QED
    BY <1>4, <1>7, <1>8, <1>9, <1>10 DEF UnitIsShown, UnitShows

LEMMA EntersShown ==
    ASSUME TimesInv, ShownInv, NEW u \in PipelinedFUs, NEW k \in Ids, UnitEnters(u, k)
    PROVE  UnitIsShown(u)'
<1>1. PipelineTypeOK /\ StagesOK(u, pipelines[u]) /\ UnitShows(u)
    BY DEF ShownInv, PipelineTypeOK
<1>2. PICK fu, new : fu = pipelines[u] /\ new = pipelines'[u]
    OBVIOUS
<1>3. /\ Pipes(u) \subseteq Nat /\ 1 \in Depths(u) /\ PipelineDepth[u] \in Nat \ {0}
      /\ IsFiniteSet(Pipes(u)) /\ Cardinality(Pipes(u)) = FuCount[u]
    BY PipelineSizes
<1>4. entered[u] = Cardinality(Taken(u)) /\ entered[u] < FuCount[u]
    BY <1>1 DEF UnitShows, UnitEnters
<1>5. Taken(u) # Pipes(u)
  <2>1. FuCount[u] \in Nat
      BY PipelineSizes
  <2> QED
      BY <1>3, <1>4, <2>1
<1>6. PICK first \in Pipes(u) \ Taken(u) : \A p \in Pipes(u) : \A s \in Depths(u) :
           new[p][s] = IF p = first /\ s = 1 THEN k ELSE fu[p][s]
    BY <1>1, <1>2, <1>5, InsertedStages DEF UnitEnters
<1>7. StagesOK(u, pipelines[u])'
  <2>1. StagesOK(u, new)
      BY <1>1, <1>2, <1>5, InsertedStages DEF UnitEnters
  <2> QED
      BY <1>2, <2>1 DEF UnitEnters, StagesOK
<1>8. k # None /\ fu[first][1] = None /\ k \notin ExecutingOn(u) /\ k \notin Flushed
  <2>1. k \in Nat
      BY LoopFacts DEF TimesInv
  <2> QED
      BY <1>2, <1>6, <2>1 DEF None, Taken, UnitEnters
\* It is not shown yet.
<1>9. \A p \in Pipes(u) : \A s \in Depths(u) : fu[p][s] # k
    BY <1>1, <1>2, <1>8 DEF UnitShows, StageShows
<1>10. ASSUME NEW p \in Pipes(u), NEW s \in Depths(u) PROVE StageShows(u, p, s)'
  <2>1. CASE p = first /\ s = 1
    <3>1. new[p][s] = k
        BY <1>6, <2>1
    <3> QED
        BY <1>2, <2>1, <3>1 DEF StageShows, UnitEnters
  <2>2. CASE ~(p = first /\ s = 1)
    <3>1. new[p][s] = fu[p][s] /\ fu[p][s] # k
        BY <1>6, <1>9, <2>2
    <3>2. StageShows(u, p, s)
        BY <1>1 DEF UnitShows
    <3> QED
        BY <1>2, <3>1, <3>2 DEF StageShows, UnitEnters
  <2> QED
      BY <2>1, <2>2
<1>11. ASSUME NEW j \in ExecutingOn(u) PROVE ShowsOnce(u, j)'
  <2>1. PICK e \in Nat \ {0} : e = StageOf(j)
      BY ExecutingStage
  <2>2. j # k /\ j # None
      BY <1>8, ExecutingStage
  <2>3. /\ e <= PipelineDepth[u] => \E p \in Pipes(u) : fu[p][e] = j
        /\ \A p, q \in Pipes(u) : \A s \in Depths(u) : fu[p][s] = j /\ fu[q][s] = j => p = q
    <3>1. ShowsOnce(u, j)
        BY <1>1 DEF UnitShows
    <3> QED
        BY <1>2, <2>1, <3>1 DEF ShowsOnce
  <2>4. \A p \in Pipes(u) : \A s \in Depths(u) : new[p][s] = j <=> fu[p][s] = j
      BY <1>6, <1>8, <2>2
  <2>5. e <= PipelineDepth[u] => e \in Depths(u)
      BY <1>3, <2>1 DEF Depths
  <2>6. /\ e <= PipelineDepth[u] => \E p \in Pipes(u) : new[p][e] = j
        /\ \A p, q \in Pipes(u) : \A s \in Depths(u) : new[p][s] = j /\ new[q][s] = j => p = q
      BY <2>3, <2>4, <2>5
  <2>7. StageOf(j)' = e
      BY <2>1 DEF UnitEnters
  <2> QED
      BY <1>2, <2>6, <2>7 DEF ShowsOnce
<1>12. ShowsOnce(u, k)'
  <2>1. new[first][1] = k /\ StageOf(k)' = 1
      BY <1>3, <1>6 DEF UnitEnters
  <2>2. \A p \in Pipes(u) : \A s \in Depths(u) : new[p][s] = k => p = first
      BY <1>6, <1>9
  <2> QED
      BY <1>2, <1>6, <2>1, <2>2 DEF ShowsOnce
<1>13. entered'[u] = Cardinality(Taken(u))'
  <2>1. Taken(u)' = Taken(u) \cup {first} /\ first \notin Taken(u)
    <3>1. \A p \in Pipes(u) : new[p][1] # None <=> p = first \/ fu[p][1] # None
        BY <1>3, <1>6, <1>8
    <3>2. /\ Taken(u) = {p \in Pipes(u) : fu[p][1] # None}
          /\ Taken(u)' = {p \in Pipes(u) : new[p][1] # None}
        BY <1>2 DEF Taken
    <3> QED
        BY <1>6, <3>1, <3>2
  <2>2. IsFiniteSet(Taken(u))
    <3>1. Taken(u) \subseteq Pipes(u)
        BY DEF Taken
    <3> QED
        BY <1>3, <3>1, FS_Subset
  <2>3. Cardinality(Taken(u) \cup {first}) = Cardinality(Taken(u)) + 1
      BY <2>1, <2>2, FS_AddElement
  <2> QED
      BY <1>4, <2>1, <2>3 DEF UnitEnters
<1>14. ExecutingOn(u)' = ExecutingOn(u) \cup {k}
    BY DEF UnitEnters
<1> QED
    BY <1>7, <1>10, <1>11, <1>12, <1>13, <1>14 DEF UnitIsShown, UnitShows

LEMMA LeavesShown ==
    ASSUME TimesInv, ShownInv, NEW u \in PipelinedFUs, NEW k \in Ids, UnitLeaves(u, k)
    PROVE  UnitIsShown(u)'
<1>1. PipelineTypeOK /\ StagesOK(u, pipelines[u]) /\ UnitShows(u)
    BY DEF ShownInv, PipelineTypeOK
<1>2. PICK fu, new : fu = pipelines[u] /\ new = pipelines'[u]
    OBVIOUS
<1>3. \A p \in Pipes(u) : \A s \in Depths(u) :
        new[p][s] = IF fu[p][s] = k THEN None ELSE fu[p][s]
    BY <1>1, <1>2, RemovedStages DEF UnitLeaves
<1>4. StagesOK(u, pipelines[u])'
  <2>1. StagesOK(u, removeFromPipeline(pipelines[u], k))
      BY <1>1, RemovedStages
  <2>2. pipelines'[u] = removeFromPipeline(pipelines[u], k) /\ Ids' = Ids
      BY DEF UnitLeaves
  <2> QED
      BY <2>1, <2>2 DEF StagesOK
<1>5. ExecutingOn(u)' = ExecutingOn(u) \ {k}
    BY DEF UnitLeaves
<1>6. ASSUME NEW p \in Pipes(u), NEW s \in Depths(u) PROVE StageShows(u, p, s)'
  <2>1. CASE fu[p][s] = k
    <3>1. new[p][s] = None
        BY <1>3, <2>1
    <3> QED
        BY <1>2, <3>1 DEF StageShows
  <2>2. CASE fu[p][s] # k
    <3>1. new[p][s] = fu[p][s]
        BY <1>3, <2>2
    <3>2. StageShows(u, p, s)
        BY <1>1 DEF UnitShows
    <3> QED
        BY <1>2, <2>2, <3>1, <3>2 DEF StageShows, UnitLeaves
  <2> QED
      BY <2>1, <2>2
<1>7. ASSUME NEW j \in ExecutingOn(u)' PROVE ShowsOnce(u, j)'
  <2>1. j \in ExecutingOn(u) /\ j # k
      BY <1>5
  <2>2. PICK e \in Nat \ {0} : e = StageOf(j)
      BY <2>1, ExecutingStage
  <2>3. j # None
      BY <2>1, ExecutingStage
  <2>4. /\ e <= PipelineDepth[u] => \E p \in Pipes(u) : fu[p][e] = j
        /\ \A p, q \in Pipes(u) : \A s \in Depths(u) : fu[p][s] = j /\ fu[q][s] = j => p = q
    <3>1. ShowsOnce(u, j)
        BY <1>1, <2>1 DEF UnitShows
    <3> QED
        BY <1>2, <2>2, <3>1 DEF ShowsOnce
  <2>5. \A p \in Pipes(u) : \A s \in Depths(u) : new[p][s] = j <=> fu[p][s] = j
      BY <1>3, <2>1, <2>3
  <2>6. e <= PipelineDepth[u] => e \in Depths(u)
      BY <2>2, PipelineSizes DEF Depths
  <2>7. /\ e <= PipelineDepth[u] => \E p \in Pipes(u) : new[p][e] = j
        /\ \A p, q \in Pipes(u) : \A s \in Depths(u) : new[p][s] = j /\ new[q][s] = j => p = q
      BY <2>4, <2>5, <2>6
  <2>8. StageOf(j)' = e
      BY <2>2 DEF UnitLeaves
  <2> QED
      BY <1>2, <2>7, <2>8 DEF ShowsOnce
<1>8. phase' = "complete"
    BY DEF UnitLeaves
<1> QED
    BY <1>4, <1>6, <1>7, <1>8 DEF UnitIsShown, UnitShows

\* Every step does one of these to each unit.
UnitMoves(u) ==
    \/ UnitStays(u) \/ UnitAdvances(u)
    \/ \E k \in Ids : UnitEnters(u, k) \/ UnitLeaves(u, k)
PipelinesMove ==
    /\ pipelines' = [u \in PipelinedFUs |-> pipelines'[u]]
    /\ \A u \in PipelinedFUs : UnitMoves(u)

LEMMA MovesKeepShowing == ASSUME TimesInv, ShownInv, PipelinesMove PROVE ShownInv'
<1>1. ASSUME NEW u \in PipelinedFUs PROVE UnitIsShown(u)'
    BY StaysShown, AdvancesShown, EntersShown, LeavesShown DEF PipelinesMove, UnitMoves
<1>2. PipelineTypeOK'
    BY <1>1 DEF PipelinesMove, PipelineTypeOK, UnitIsShown
<1> QED
    BY <1>1, <1>2 DEF ShownInv, UnitIsShown

\* In the middle of a cycle, and as it ends, the stages stay those they are.
SameHalf ==
    \/ cycle' = cycle /\ (BetweenCycles' <=> BetweenCycles)
    \/ EndCycleRecorded

LEMMA UnitStaysWhen ==
    ASSUME TimesInv, [NextSim]_varsSim, SameHalf, NEW u \in PipelinedFUs,
           pipelines'[u] = pipelines[u] /\ entered'[u] = entered[u],
           phase' \in {"execute", "broadcast"} => phase \in {"execute", "broadcast"},
           Ids' = Ids, Flushed \subseteq Flushed',
           ExecutingOn(u)' \subseteq ExecutingOn(u),
           ExecutingOn(u) \subseteq ExecutingOn(u)' \cup Flushed'
    PROVE  UnitStays(u)
<1>1. \A k \in ExecutingOn(u)' : StageOf(k)' = StageOf(k)
    BY StagesStay DEF SameHalf
<1> QED
    BY <1>1 DEF UnitStays

LEMMA QuietUnits ==
    ASSUME TimesInv, ShownInv, RecordsNoStage, ~(IssueStalls \/ NothingToIssue)
    PROVE  PipelinesMove
<1>1. /\ NoCommitRecorded \/ NoBroadcastRecorded \/ EndCycleRecorded \/ Stop \/ UNCHANGED varsSim
      /\ [NextSim]_varsSim
    BY DEF RecordsNoStage, NextSim
<1>2. /\ pipelines' = pipelines /\ entered' = entered
      /\ NoCommit \/ NoBroadcast \/ EndCycle \/ Finish \/ Done \/ UNCHANGED vars
  <2>1. CASE NoCommitRecorded
      BY <2>1 DEF NoCommitRecorded, NoCommit, CommitStage, unitVars
  <2>2. CASE NoBroadcastRecorded
      BY <2>2 DEF NoBroadcastRecorded, NoBroadcast, BroadcastStage, unitVars, recordVars
  <2>3. CASE EndCycleRecorded
      BY <2>3 DEF EndCycleRecorded, EndCycle, unitVars
  <2>4. CASE Stop
      BY <2>4 DEF Stop, Finish, Done, vars, unitVars, recordVars
  <2>5. CASE UNCHANGED varsSim
      BY <2>5 DEF varsSim, varsL1D, vars, unitVars, recordVars
  <2> QED
      BY <1>1, <2>1, <2>2, <2>3, <2>4, <2>5
<1>3. Ids' = Ids /\ Flushed' = Flushed /\ active' = active
    BY <1>2, NothingMoves DEF TimesInv
<1>4. /\ SameHalf
      /\ phase' \in {"execute", "broadcast"} => phase \in {"execute", "broadcast"}
  <2>1. CASE NoCommitRecorded \/ NoBroadcastRecorded
    <3>1. cycle' = cycle
        BY <2>1 DEF NoCommitRecorded, NoBroadcastRecorded, recordVars
    <3>2. phase \in {"execute", "broadcast"} /\ phase' \in {"broadcast", "complete"}
        BY <1>1, <2>1, StagesOfTheCycle
    <3> QED
        BY <3>1, <3>2 DEF SameHalf, BetweenCycles
  <2>2. CASE EndCycleRecorded
      BY <1>1, <2>2, StagesOfTheCycle DEF SameHalf
  <2>3. CASE Stop
    <3>1. cycle' = cycle /\ phase \in {"issue", "done"} /\ phase' = "done"
        BY <1>1, <2>3, StagesOfTheCycle DEF Stop, recordVars
    <3> QED
        BY <3>1 DEF SameHalf, BetweenCycles
  <2>4. CASE UNCHANGED varsSim
    <3>1. cycle' = cycle /\ phase' = phase
        BY <2>4 DEF varsSim, varsL1D, vars, recordVars
    <3> QED
        BY <3>1 DEF SameHalf, BetweenCycles
  <2> QED
      BY <1>1, <2>1, <2>2, <2>3, <2>4
<1>5. ASSUME NEW u \in PipelinedFUs PROVE UnitStays(u)
  <2>1. ExecutingOn(u)' = ExecutingOn(u)
      BY <1>3 DEF ExecutingOn, FUOf
  <2> QED
      BY <1>1, <1>2, <1>3, <1>4, <2>1, UnitStaysWhen
<1> QED
    BY <1>2, <1>5 DEF PipelinesMove, UnitMoves, ShownInv, PipelineTypeOK

LEMMA CycleStartUnits ==
    ASSUME TimesInv, ShownInv, IssuePredicted \/ IssueStalls \/ NothingToIssue
    PROVE  PipelinesMove
<1>1. /\ [NextSim]_varsSim /\ QueueInv
      /\ pipelines' = [u \in PipelinedFUs |-> advancePipeline(pipelines[u])] /\ cycle' = cycle
    BY DEF NextSim, TimesInv, IssuePredicted, IssueStalls, NothingToIssue, CycleStarts
<1>2. entered' = [u \in FUTypes |-> 0]
    BY DEF IssuePredicted, IssueStalls, NothingToIssue, Issue, StallIssue, StartCycle
<1>3. BetweenCycles /\ ~BetweenCycles'
    BY <1>1, StagesOfTheCycle DEF BetweenCycles
<1>4. /\ Ids \subseteq Ids' /\ Flushed' = Flushed
      /\ \A u \in PipelinedFUs : ExecutingOn(u)' = ExecutingOn(u)
  <2>1. CASE IssuePredicted
    <3>1. PICK taken \in BOOLEAN : Issue(taken)
      <4> DEFINE taken == IsBranch(NextInstruction) /\ predict(pc)
      <4>1. taken \in BOOLEAN /\ Issue(taken)
          BY <2>1 DEF IssuePredicted
      <4> QED
          BY <4>1
    <3>2. PICK new : new = nextId
        OBVIOUS
    <3>3. /\ Ids \subseteq Ids' /\ Flushed' = Flushed
          /\ DOMAIN active' = DOMAIN active \cup {new}
          /\ \A k \in DOMAIN active : active'[k] = active[k]
          /\ active'[new].executing = FALSE /\ new \notin DOMAIN active
      <4>1. /\ Ids \subseteq Ids' /\ Flushed' = Flushed
          BY <1>1, <3>1, IssueMoves
      <4>2. new \notin DOMAIN active
          BY <1>1, <3>2, LoopFacts
      <4> QED
          BY <1>1, <3>1, <3>2, <4>1, <4>2, IssuedFields
    <3>4. \A u \in PipelinedFUs : ExecutingOn(u)' = ExecutingOn(u)
        BY <3>3 DEF ExecutingOn, FUOf
    <3> QED
        BY <3>3, <3>4
  <2>2. CASE IssueStalls \/ NothingToIssue
    <3>1. Ids' = Ids /\ Flushed' = Flushed /\ active' = active
        BY <1>1, <2>2, NothingMoves DEF IssueStalls, NothingToIssue
    <3> QED
        BY <3>1 DEF ExecutingOn, FUOf
  <2> QED
      BY <2>1, <2>2
<1>5. ASSUME NEW u \in PipelinedFUs PROVE UnitAdvances(u)
  <2>1. entered'[u] = 0 /\ pipelines'[u] = advancePipeline(pipelines[u])
      BY <1>1, <1>2, PipelineSizes
  <2>2. \A k \in ExecutingOn(u) : StageOf(k)' = StageOf(k) + 1
      BY <1>1, <1>3, StagesStay
  <2> QED
      BY <1>4, <2>1, <2>2 DEF UnitAdvances
<1> QED
    BY <1>1, <1>5 DEF PipelinesMove, UnitMoves

LEMMA WaitUnits ==
    ASSUME TimesInv, ShownInv, NEW k \in todo, Proceed(k) \/ WaitStalled(k)
    PROVE  PipelinesMove
<1>1. /\ [NextSim]_varsSim /\ TypeInv /\ VisitAnyTiming(k)
      /\ pipelines' = pipelines /\ cycle' = cycle /\ entered' = entered
    BY LoopFacts DEF NextSim, TimesInv, VisitAnyTiming, Proceed, Progress, WaitStalled, WaitL1D,
       Hold, unitVars, recordVars
<1>2. /\ Ids' = Ids /\ Flushed' = Flushed /\ phase = "execute" /\ phase' = "execute"
      /\ k \in DOMAIN active /\ DOMAIN active' = DOMAIN active
      /\ \A j \in DOMAIN active : j # k => active'[j] = active[j]
    BY <1>1, VisitMoves DEF TimesInv
<1>3. active'[k].instr = active[k].instr /\ (active'[k].executing <=> active[k].executing)
  <2>1. CASE Proceed(k)
      BY <1>1, <2>1, VisitedFields DEF Proceed, Progress
  <2>2. CASE WaitStalled(k)
    <3>1. active' = [active EXCEPT ![k] = Checked(k)]
        BY <2>2 DEF WaitStalled, WaitL1D, Hold
    <3> QED
        BY <1>1, <1>2, <3>1, CheckedFields
  <2> QED
      BY <2>1, <2>2
<1>4. SameHalf
    BY <1>1, <1>2 DEF SameHalf, BetweenCycles
<1>5. ASSUME NEW u \in PipelinedFUs PROVE UnitStays(u)
  <2>1. ExecutingOn(u)' = ExecutingOn(u)
      BY <1>2, <1>3 DEF ExecutingOn, FUOf
  <2> QED
      BY <1>1, <1>2, <1>4, <2>1, UnitStaysWhen
<1> QED
    BY <1>1, <1>5 DEF PipelinesMove, UnitMoves, ShownInv, PipelineTypeOK

\* An instruction starts in the first stage of a free pipeline of its unit.
LEMMA StartUnits ==
    ASSUME TimesInv, ShownInv, NEW k \in todo, StartRecorded(k)
    PROVE  PipelinesMove
<1>1. /\ [NextSim]_varsSim /\ TypeInv /\ TypeOK /\ cycle' = cycle
      /\ pipelines' = IF FUOf(k) \in PipelinedFUs
                      THEN [pipelines EXCEPT ![FUOf(k)] = insertIntoPipeline(@, k)]
                      ELSE pipelines
    BY LoopFacts DEF NextSim, TimesInv, StartRecorded
<1>2. PICK latency \in Nat \ {0} : StartWith(k, latency)
  <2>1. ASSUME StartAccess(k) PROVE \E l \in Nat \ {0} : StartWith(k, l)
    <3>1. L1D!access(Unsigned(Address(k)), IsStore(k)).latency \in Nat \ {0}
        BY AccessLatency
    <3> QED
        BY <2>1, <3>1 DEF StartAccess
  <2>2. ASSUME StartWithoutCache(k) PROVE \E l \in Nat \ {0} : StartWith(k, l)
      BY <1>1, <2>2, StartLatencyType DEF StartWithoutCache, Start
  <2> QED
      BY <2>1, <2>2 DEF StartRecorded
<1>3. VisitAnyTiming(k)
    BY <1>2 DEF VisitAnyTiming
<1>4. /\ Ids' = Ids /\ Flushed' = Flushed /\ phase = "execute" /\ phase' = "execute"
      /\ k \in DOMAIN active /\ DOMAIN active' = DOMAIN active
      /\ \A j \in DOMAIN active : j # k => active'[j] = active[j]
    BY <1>3, VisitMoves DEF TimesInv
<1>5. /\ ~active[k].executing /\ active'[k].executing /\ active'[k].instr = active[k].instr
      /\ fuAvailable(FUOf(k))
      /\ entered' = IF FUOf(k) \in PipelinedFUs
                    THEN [entered EXCEPT ![FUOf(k)] = @ + 1] ELSE entered
  <2>1. /\ active' = [active EXCEPT ![k] = [Checked(k) EXCEPT
                         !.executing = TRUE, !.remaining = latency - 1]]
        /\ ~active[k].executing /\ CanStart(k)
        /\ entered' = IF FUOf(k) \in PipelinedFUs
                      THEN [entered EXCEPT ![FUOf(k)] = @ + 1] ELSE entered
      BY <1>2 DEF StartWith
  <2>2. Checked(k) \in ActiveRecords /\ Checked(k).instr = active[k].instr
      BY <1>1, <1>4, CheckedType
  <2>3. active'[k].executing /\ active'[k].instr = active[k].instr
      BY <1>4, <2>1, <2>2 DEF ActiveRecords
  <2> QED
      BY <2>1, <2>3 DEF CanStart
<1>6. SameHalf
    BY <1>1, <1>4 DEF SameHalf, BetweenCycles
<1>7. PICK v : v = FUOf(k)
    OBVIOUS
<1>8. \A u : ExecutingOn(u)' = IF u = v THEN ExecutingOn(u) \cup {k} ELSE ExecutingOn(u)
    BY <1>4, <1>5, <1>7 DEF ExecutingOn, FUOf
<1>9. /\ pipelines = [u \in PipelinedFUs |-> pipelines[u]]
      /\ \A u \in PipelinedFUs : u \in FUTypes
      /\ entered \in [FUTypes -> Nat]
    BY <1>1, PipelineSizes DEF ShownInv, PipelineTypeOK, TypeOK
<1>10. ASSUME NEW u \in PipelinedFUs, u # v PROVE UnitStays(u)
  <2>1. pipelines'[u] = pipelines[u] /\ entered'[u] = entered[u]
      BY <1>1, <1>5, <1>7, <1>9, <1>10
  <2> QED
      BY <1>1, <1>4, <1>6, <1>8, <1>10, <2>1, UnitStaysWhen
<1>11. ASSUME v \in PipelinedFUs PROVE UnitEnters(v, k)
  <2>1. pipelines'[v] = insertIntoPipeline(pipelines[v], k) /\ entered'[v] = entered[v] + 1
      BY <1>1, <1>5, <1>7, <1>9, <1>11
  <2>2. entered[v] < FuCount[v]
      BY <1>5, <1>7, <1>11 DEF fuAvailable
  <2>3. k \notin Flushed \cup ExecutingOn(v)
    <3>1. k \notin ExecutingOn(v)
        BY <1>5 DEF ExecutingOn
    <3>2. k \notin Flushed
        BY <1>4, LoopFacts DEF TimesInv
    <3> QED
        BY <3>1, <3>2
  <2>4. StageOf(k)' = 1
    <3>1. timeline \in [Ids -> Times] /\ k \in Ids /\ cycle \in Nat
        BY <1>4, LoopFacts DEF TimesInv, RowsInv, TimelineTypeOK
    <3>2. timeline' = [timeline EXCEPT ![k].start = cycle]
        BY DEF StartRecorded
    <3>3. timeline'[k].start = cycle
        BY <3>1, <3>2 DEF Times
    <3> QED
        BY <1>1, <1>4, <3>1, <3>3 DEF StageOf, BetweenCycles
  <2>5. \A j \in ExecutingOn(v) : StageOf(j)' = StageOf(j)
      BY <1>1, <1>6, <1>11, StagesStay DEF SameHalf
  <2>6. ExecutingOn(v)' = ExecutingOn(v) \cup {k}
      BY <1>8
  <2> QED
      BY <1>4, <2>1, <2>2, <2>3, <2>4, <2>5, <2>6 DEF UnitEnters
<1>12. pipelines' = [u \in PipelinedFUs |-> pipelines'[u]]
    BY <1>1, <1>9
<1>13. k \in Ids
    BY <1>4, LoopFacts DEF TimesInv
<1> QED
    BY <1>10, <1>11, <1>12, <1>13 DEF PipelinesMove, UnitMoves

LEMMA CommitUnits ==
    ASSUME TimesInv, ShownInv, CommitRecorded PROVE PipelinesMove
<1>1. /\ [NextSim]_varsSim /\ Commit
      /\ pipelines' = pipelines /\ cycle' = cycle /\ entered' = entered
    BY DEF NextSim, CommitRecorded, Commit, CommitStage, unitVars
<1>2. /\ Ids' = Ids /\ Flushed' = Flushed /\ active' = active
      /\ phase = "execute" /\ phase' = "broadcast"
    BY <1>1, CommitMoves DEF TimesInv
<1>3. SameHalf
    BY <1>1, <1>2 DEF SameHalf, BetweenCycles
<1>4. ASSUME NEW u \in PipelinedFUs PROVE UnitStays(u)
  <2>1. ExecutingOn(u)' = ExecutingOn(u)
      BY <1>2 DEF ExecutingOn, FUOf
  <2> QED
      BY <1>1, <1>2, <1>3, <2>1, UnitStaysWhen
<1> QED
    BY <1>1, <1>4 DEF PipelinesMove, UnitMoves, ShownInv, PipelineTypeOK

LEMMA BroadcastUnits ==
    ASSUME TimesInv, ShownInv, NEW b \in DOMAIN cdbQueue, BroadcastRecorded(b)
    PROVE  PipelinesMove
<1>1. /\ [NextSim]_varsSim /\ Broadcast(b)
      /\ pipelines' = pipelines /\ cycle' = cycle /\ entered' = entered
  <2>1. [NextSim]_varsSim
      BY DEF NextSim
  <2>2. Broadcast(b) /\ pipelines' = pipelines /\ cycle' = cycle
      BY DEF BroadcastRecorded
  <2> QED
      BY <2>1, <2>2 DEF Broadcast, BroadcastStage, unitVars
<1>2. /\ Ids' = Ids /\ Flushed' = Flushed /\ DOMAIN active' = DOMAIN active
      /\ phase = "broadcast" /\ phase' = "complete"
      /\ \A k \in DOMAIN active : /\ active'[k].instr = active[k].instr
                                  /\ active'[k].executing = active[k].executing
    BY <1>1, BroadcastMoves DEF TimesInv
<1>3. SameHalf
    BY <1>1, <1>2 DEF SameHalf, BetweenCycles
<1>4. ASSUME NEW u \in PipelinedFUs PROVE UnitStays(u)
  <2>1. ExecutingOn(u)' = ExecutingOn(u)
      BY <1>2 DEF ExecutingOn, FUOf
  <2> QED
      BY <1>1, <1>2, <1>3, <2>1, UnitStaysWhen
<1> QED
    BY <1>1, <1>4 DEF PipelinesMove, UnitMoves, ShownInv, PipelineTypeOK

\* What completes leaves the stages of its unit.
LEMMA CompletionUnits ==
    ASSUME TimesInv, ShownInv, NEW k \in todo, [NextSim]_varsSim, Leaves(k),
           CompleteRegister(k) \/ CompleteStore(k) \/ ResolveCorrect(k)
    PROVE  PipelinesMove
<1>1. /\ pipelines' = IF FUOf(k) \in PipelinedFUs
                      THEN [pipelines EXCEPT ![FUOf(k)] = removeFromPipeline(@, k)]
                      ELSE pipelines
      /\ cycle' = cycle /\ entered' = entered
    BY DEF Leaves, CompleteRegister, CompleteStore, ResolveCorrect, Complete
<1>2. /\ Ids' = Ids /\ Flushed' = Flushed /\ phase = "complete" /\ phase' = "complete"
      /\ k \in DOMAIN active /\ DOMAIN active' = DOMAIN active \ {k}
      /\ \A j \in DOMAIN active' : active'[j] = active[j]
    BY CompletionMoves DEF TimesInv
<1>3. SameHalf
    BY <1>1, <1>2 DEF SameHalf, BetweenCycles
<1>4. PICK v : v = FUOf(k)
    OBVIOUS
<1>5. \A u : ExecutingOn(u)' = IF u = v THEN ExecutingOn(u) \ {k} ELSE ExecutingOn(u)
    BY <1>2, <1>4 DEF ExecutingOn, FUOf
<1>6. pipelines = [u \in PipelinedFUs |-> pipelines[u]]
    BY DEF ShownInv, PipelineTypeOK
<1>7. ASSUME NEW u \in PipelinedFUs, u # v PROVE UnitStays(u)
  <2>1. pipelines'[u] = pipelines[u] /\ entered'[u] = entered[u]
      BY <1>1, <1>4, <1>6, <1>7
  <2> QED
      BY <1>2, <1>3, <1>5, <1>7, <2>1, UnitStaysWhen
<1>8. ASSUME v \in PipelinedFUs PROVE UnitLeaves(v, k)
  <2>1. pipelines'[v] = removeFromPipeline(pipelines[v], k)
      BY <1>1, <1>4, <1>6, <1>8
  <2>2. ExecutingOn(v)' = ExecutingOn(v) \ {k}
      BY <1>5
  <2>3. \A j \in ExecutingOn(v)' : StageOf(j)' = StageOf(j)
      BY <1>3, <1>8, <2>2, StagesStay DEF SameHalf
  <2> QED
      BY <1>2, <2>1, <2>2, <2>3 DEF UnitLeaves
<1>9. pipelines' = [u \in PipelinedFUs |-> pipelines'[u]]
    BY <1>1, <1>6
<1>10. k \in Ids
    BY <1>2, LoopFacts DEF TimesInv
<1> QED
    BY <1>7, <1>8, <1>9, <1>10 DEF PipelinesMove, UnitMoves

\* A mispredicted branch is on no FP unit; what it flushes may stay in a stage.
LEMMA MispredictionUnits ==
    ASSUME TimesInv, ShownInv, NEW k \in todo, [NextSim]_varsSim, Leaves(k),
           ResolveMispredicted(k)
    PROVE  PipelinesMove
<1>1. FUOf(k) \notin PipelinedFUs
  <2>1. IsBranch(active[k].instr)
      BY DEF ResolveMispredicted
  <2> QED
      BY <2>1 DEF IsBranch, BranchOps, FUOf, getFUType, PipelinedFUs
<1>2. pipelines' = pipelines /\ cycle' = cycle /\ entered' = entered
    BY <1>1 DEF Leaves, ResolveMispredicted, Complete
<1>3. /\ Ids' = Ids /\ Flushed' = Flushed \cup {i \in InFlight : i > k}
      /\ phase = "complete" /\ phase' = "complete"
      /\ k \in DOMAIN active /\ DOMAIN active' = {j \in DOMAIN active : j < k}
      /\ \A j \in DOMAIN active' : active'[j] = active[j]
    BY MispredictionMoves DEF TimesInv
<1>4. SameHalf
    BY <1>2, <1>3 DEF SameHalf, BetweenCycles
<1>5. ASSUME NEW u \in PipelinedFUs PROVE UnitStays(u)
  <2>1. ExecutingOn(u)' \subseteq ExecutingOn(u)
      BY <1>3 DEF ExecutingOn, FUOf
  <2>2. ASSUME NEW j \in ExecutingOn(u) PROVE j \in ExecutingOn(u)' \cup Flushed'
    <3>1. j \in DOMAIN active /\ active[j].executing /\ FUOf(j) = u /\ j # k
        BY <1>1 DEF ExecutingOn
    <3>2. j \in InFlight /\ j \in Nat /\ k \in Nat
        BY <1>3, <3>1, LoopFacts DEF TimesInv
    <3>3. CASE j < k
        BY <1>3, <3>1, <3>3 DEF ExecutingOn, FUOf
    <3>4. CASE j > k
        BY <1>3, <3>2, <3>4
    <3> QED
        BY <3>1, <3>2, <3>3, <3>4
  <2> QED
      BY <1>2, <1>3, <1>4, <2>1, <2>2, UnitStaysWhen
<1> QED
    BY <1>2, <1>5 DEF PipelinesMove, UnitMoves, ShownInv, PipelineTypeOK

LEMMA NextShown == TimesInv /\ ShownInv /\ [NextSim]_varsSim => ShownInv'
<1> SUFFICES ASSUME TimesInv, ShownInv, [NextSim]_varsSim PROVE ShownInv'
    OBVIOUS
<1>1. CASE RecordsNoStage \/ IssuePredicted
    BY <1>1, QuietUnits, CycleStartUnits, MovesKeepShowing
<1>2. ASSUME NEW k \in todo, Proceed(k) \/ WaitStalled(k) \/ StartRecorded(k) PROVE ShownInv'
    BY <1>2, WaitUnits, StartUnits, MovesKeepShowing
<1>3. CASE CommitRecorded
    BY <1>3, CommitUnits, MovesKeepShowing
<1>4. ASSUME NEW k \in DOMAIN cdbQueue, BroadcastRecorded(k) PROVE ShownInv'
    BY <1>4, BroadcastUnits, MovesKeepShowing
<1>5. ASSUME NEW k \in todo, CompleteRecorded(k) PROVE ShownInv'
  <2>1. Leaves(k) /\ (CompleteRegister(k) \/ CompleteStore(k) \/ ResolveCorrect(k))
      BY <1>5 DEF CompleteRecorded, CompleteL1D
  <2> QED
      BY <2>1, CompletionUnits, MovesKeepShowing
<1>6. ASSUME NEW k \in todo, ResolveRecorded(k) PROVE ShownInv'
  <2>1. /\ Leaves(k)
        /\ \/ CompleteRegister(k) \/ CompleteStore(k) \/ ResolveCorrect(k)
           \/ ResolveMispredicted(k)
      BY <1>6 DEF ResolveRecorded, CompleteL1D, ResolveMispredictedL1D
  <2> QED
      BY <2>1, CompletionUnits, MispredictionUnits, MovesKeepShowing
<1> QED
    BY <1>1, <1>2, <1>3, <1>4, <1>5, <1>6 DEF NextSim, RecordsNoStage

LEMMA ShownInvariant == SpecSim => [](TimesInv /\ ShownInv)
<1>1. InitSim => TimesInv /\ ShownInv
  <2> SUFFICES ASSUME InitSim PROVE TimesInv /\ ShownInv
      OBVIOUS
  <2>1. TimesInv
      BY InitRows
  <2>2. /\ pipelines = [u \in PipelinedFUs |-> initializePipeline(u)]
        /\ DOMAIN active = {} /\ phase = "issue"
      BY DEF InitSim, InitL1D, Init, EmptyFunction
  <2>3. ASSUME NEW u \in PipelinedFUs
        PROVE  pipelines[u] = [p \in Pipes(u) |-> [s \in Depths(u) |-> None]]
      BY <2>2 DEF initializePipeline, Pipes, Depths
  <2>4. ASSUME NEW u \in PipelinedFUs PROVE UnitIsShown(u)
    <3> DEFINE empty == [p \in Pipes(u) |-> [s \in Depths(u) |-> None]]
    <3>0. pipelines[u] = empty
        BY <2>3
    <3>1. StagesOK(u, pipelines[u])
        BY <3>0 DEF StagesOK
    <3>2. \A p \in Pipes(u) : \A s \in Depths(u) : StageShows(u, p, s)
      <4>1. \A p \in Pipes(u) : \A s \in Depths(u) : empty[p][s] = None
          OBVIOUS
      <4> QED
          BY <3>0, <4>1 DEF StageShows
    <3>3. ExecutingOn(u) = {}
        BY <2>2 DEF ExecutingOn
    <3> QED
        BY <2>2, <3>1, <3>2, <3>3 DEF UnitIsShown, UnitShows
  <2> QED
      BY <2>1, <2>2, <2>4 DEF ShownInv, PipelineTypeOK, UnitIsShown
<1>2. TimesInv /\ ShownInv /\ [NextSim]_varsSim => (TimesInv /\ ShownInv)'
    BY NextRows, NextShown
<1> QED
    BY <1>1, <1>2, PTL DEF SpecSim

LEMMA StagesAreDrawn == TimesInv /\ ShownInv => PipelinesShowExecution
<1> SUFFICES ASSUME TimesInv, ShownInv, phase \in {"broadcast", "complete"},
                    NEW u \in PipelinedFUs
             PROVE  /\ \A k \in ExecutingOn(u) :
                         LET e == cycle - timeline[k].start + 1 IN
                           IF e > PipelineDepth[u] THEN ShownIn(u, k) = {}
                           ELSE \E p \in 1 .. FuCount[u] : ShownIn(u, k) = {<<p, e>>}
                    /\ \A k \in Issued : ShownIn(u, k) # {} => k \in ExecutingOn(u) \cup Flushed
                    /\ phase = "broadcast" =>
                         entered[u] = Cardinality({p \in 1 .. FuCount[u] :
                                                    pipelines[u][p][1] # None})
    BY DEF PipelinesShowExecution
<1>1. UnitShows(u)
    BY DEF ShownInv
<1>2. \A k : ShownIn(u, k) = {at \in Pipes(u) \X Depths(u) : pipelines[u][at[1]][at[2]] = k}
    BY DEF ShownIn, Pipes, Depths
<1>3. ASSUME NEW k \in ExecutingOn(u)
      PROVE  LET e == cycle - timeline[k].start + 1 IN
               IF e > PipelineDepth[u] THEN ShownIn(u, k) = {}
               ELSE \E p \in 1 .. FuCount[u] : ShownIn(u, k) = {<<p, e>>}
  <2>1. PICK e \in Nat \ {0} : e = StageOf(k)
      BY ExecutingStage
  <2>2. e = cycle - timeline[k].start + 1
      BY <2>1 DEF StageOf, BetweenCycles
  <2>3. PipelineDepth[u] \in Nat /\ \A s \in Depths(u) : s \in Nat /\ s <= PipelineDepth[u]
      BY PipelineSizes DEF Depths
  <2>4. k # None
      BY ExecutingStage
  <2>5. \A p \in Pipes(u) : \A s \in Depths(u) : pipelines[u][p][s] = k => s = e
      BY <1>1, <2>1, <2>4 DEF UnitShows, StageShows
  <2>6. ASSUME e > PipelineDepth[u] PROVE ShownIn(u, k) = {}
    <3>1. e \notin Depths(u)
        BY <2>3, <2>6
    <3> QED
        BY <1>2, <2>5, <3>1
  <2>7. ASSUME ~(e > PipelineDepth[u])
        PROVE  \E p \in 1 .. FuCount[u] : ShownIn(u, k) = {<<p, e>>}
    <3>1. e <= PipelineDepth[u] /\ e \in Depths(u)
        BY <2>3, <2>7 DEF Depths
    <3>2. ShowsOnce(u, k)
        BY <1>1 DEF UnitShows
    <3>3. PICK p \in Pipes(u) : pipelines[u][p][e] = k
        BY <2>1, <3>1, <3>2 DEF ShowsOnce
    <3>4. \A q \in Pipes(u) : \A s \in Depths(u) :
            pipelines[u][q][s] = k <=> q = p /\ s = e
        BY <2>5, <3>1, <3>2, <3>3 DEF ShowsOnce
    <3>5. ShownIn(u, k) = {<<p, e>>}
      <4>1. \A at \in Pipes(u) \X Depths(u) :
              pipelines[u][at[1]][at[2]] = k <=> at = <<p, e>>
          BY <3>4
      <4>2. <<p, e>> \in Pipes(u) \X Depths(u)
          BY <3>1
      <4> QED
          BY <1>2, <4>1, <4>2
    <3> QED
        BY <3>5 DEF Pipes
  <2> QED
      BY <2>2, <2>6, <2>7
<1>4. ASSUME NEW k \in Issued, ShownIn(u, k) # {} PROVE k \in ExecutingOn(u) \cup Flushed
  <2>1. k # None
    <3>1. k \in Nat
        BY LoopFacts DEF TimesInv, RowsInv, TimelineTypeOK, Issued
    <3> QED
        BY <3>1 DEF None
  <2>2. PICK p \in Pipes(u), s \in Depths(u) : pipelines[u][p][s] = k
      BY <1>2, <1>4
  <2> QED
      BY <1>1, <2>1, <2>2 DEF UnitShows, StageShows
<1>5. phase = "broadcast" =>
        entered[u] = Cardinality({p \in 1 .. FuCount[u] : pipelines[u][p][1] # None})
    BY <1>1 DEF UnitShows, Taken, Pipes
<1> QED
    BY <1>3, <1>4, <1>5

(***************************************************************************)
(* The pipelines drawn in the trace are those the machine uses: while an FP  *)
(* instruction executes it stands in the stage its cycles say, in one        *)
(* pipeline, and a stage taken by anything else shows what was flushed       *)
(* (advancePipeline, insertIntoPipeline, removeFromPipeline).                *)
(***************************************************************************)
THEOREM PipelinesDrawn == SpecSim => []PipelinesShowExecution
<1>1. TimesInv /\ ShownInv => PipelinesShowExecution
    BY StagesAreDrawn
<1> QED
    BY <1>1, ShownInvariant, PTL
=============================================================================

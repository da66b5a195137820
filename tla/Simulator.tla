------------------------------- MODULE Simulator -------------------------------
(* The whole simulator: the cycle loop with its data cache, run with one of   *)
(* the branch predictors, and what it records for the trace: when each        *)
(* instruction passed each stage, the performance counters, and the stages of *)
(* the FP pipelines.                                                          *)
EXTENDS TomasuloL1D, BranchPredictor

CONSTANTS
    PipelineDepth       \* FP unit -> stages of each of its pipelines

ASSUME PipelineDepthAssumption == PipelineDepth \in [PipelinedFUs -> Nat \ {0}]

VARIABLES
    cycle,
    timeline,       \* id -> predictions and cycles of statusTable
    pipelines,      \* FP unit -> pipeline -> stage -> id, or None
    counters,       \* PerformanceStats: what is counted
    maxima,         \* PerformanceStats: the largest occupancies seen
    stalledThisCycle, backendStalledThisCycle

recordVars == <<cycle, timeline, pipelines, counters, maxima, stalledThisCycle,
                backendStalledThisCycle>>
varsSim == <<varsL1D, predictorVars, recordVars>>

-----------------------------------------------------------------------------
(* Pipelines (FunctionalUnit.cpp)                                            *)

initializePipeline(u) ==
    [p \in 1 .. FuCount[u] |-> [s \in 1 .. PipelineDepth[u] |-> None]]

\* Every stage moves on; what leaves the last one is no longer shown.
advancePipeline(fu) ==
    [p \in DOMAIN fu |-> [s \in DOMAIN fu[p] |-> IF s = 1 THEN None ELSE fu[p][s - 1]]]

FreePipelines(fu) == {p \in DOMAIN fu : fu[p][1] = None}

insertIntoPipeline(fu, id) ==
    LET free == FreePipelines(fu)
        first == CHOOSE p \in free : \A q \in free : p <= q
    IN  IF free = {} THEN fu ELSE [fu EXCEPT ![first][1] = id]

\* fault: only the first pipeline is searched
removedFromFirst(fu, id) ==
    [fu EXCEPT ![1] = [s \in DOMAIN @ |-> IF @[s] = id THEN None ELSE @[s]]]
\* An id is in one stage at most.
removeFromPipeline(fu, id) ==
    [p \in DOMAIN fu |-> [s \in DOMAIN fu[p] |-> IF fu[p][s] = id THEN None ELSE fu[p][s]]]

-----------------------------------------------------------------------------
(* Counters                                                                  *)

MixClasses == {"int", "mul", "fpAdd", "fpMul", "load", "store", "branch"}
CounterNames == MixClasses \cup
    {"committedInstructions", "cyclesWithAnyStall", "issueStallCycles",
     "backendStallCycles", "robFullStallCycles", "rsFullStallCycles",
     "totalStallEvents", "rawDependencyStallEvents", "fuBusyStallEvents",
     "memoryOrderingStallEvents", "cdbBroadcasts", "branchCount", "branchCorrect",
     "branchMispredictions", "memoryStallCycles"}

\* recordCommittedInstruction
mixClass(op) ==
    CASE op \in {"ADD", "ADDI", "SUB"} -> "int"
      [] op = "MUL" -> "mul"
      [] op \in {"FADD", "FSUB"} -> "fpAdd"
      [] op \in {"FMUL", "FDIV"} -> "fpMul"
      [] op = "LD" -> "load"
      [] op = "SD" -> "store"
      [] op \in BranchOps -> "branch"

Counted(names) == [c \in CounterNames |-> IF c \in names THEN counters[c] + 1 ELSE counters[c]]
Count(names) == counters' = Counted(names)

\* The reservation stations, the ROB, the CDB queue and the FP pipelines.
MaximumNames == RSTypes \cup {"ROB", "CDB", "FP_ADD pipeline", "FP_MUL pipeline"}
Raised(name, n) == [maxima EXCEPT ![name] = IF n > @ THEN n ELSE @]

\* recordMaxOccupancy
Occupancy(name) ==
    CASE name \in RSTypes -> countRSEntries(name)
      [] name = "ROB" -> robCount
      [] name = "FP_ADD pipeline" -> busyUnits["FP_ADD"]
      [] name = "FP_MUL pipeline" -> busyUnits["FP_MUL"]
      [] name = "CDB" -> 0
RecordMaxOccupancy ==
    maxima' = [m \in MaximumNames |->
                  IF Occupancy(m) > maxima[m] THEN Occupancy(m) ELSE maxima[m]]

-----------------------------------------------------------------------------
(* The status table's cycles                                                 *)

NotYet == -1
NewTimes(predictedTaken) ==
    [predictedTaken |-> predictedTaken, actualTaken |-> FALSE, issue |-> cycle,
     start |-> NotYet, end |-> NotYet, writeback |-> NotYet, commit |-> NotYet,
     flush |-> NotYet]

\* markFlushedInstructionStatuses
TimesFlushed(k, times) ==
    [j \in DOMAIN times |->
        IF j > k /\ ~statusTable[j].committed THEN [times[j] EXCEPT !.flush = cycle]
        ELSE times[j]]

-----------------------------------------------------------------------------
(* Steps                                                                     *)

InitSim ==
    /\ InitL1D /\ PredictorInit
    /\ cycle = 1
    /\ timeline = EmptyFunction
    /\ pipelines = [u \in PipelinedFUs |-> initializePipeline(u)]
    /\ counters = [c \in CounterNames |-> 0]
    /\ maxima = [m \in MaximumNames |-> 0]
    /\ stalledThisCycle = FALSE /\ backendStalledThisCycle = FALSE

CycleStarts ==
    /\ pipelines' = [u \in PipelinedFUs |-> advancePipeline(pipelines[u])]
    /\ maxima' = Raised("CDB", Cardinality(DOMAIN cdbQueue))
    /\ backendStalledThisCycle' = FALSE
    /\ UNCHANGED <<cacheVars, predictorVars, cycle>>

IssuePredicted ==
    /\ Fetchable
    /\ LET predictedTaken == IsBranch(NextInstruction) /\ predict(pc) IN
         /\ Issue(predictedTaken)
         /\ timeline' = Extend(timeline, nextId, NewTimes(predictedTaken))
    /\ CycleStarts
    /\ stalledThisCycle' = FALSE
    /\ UNCHANGED counters

IssueStalls ==
    /\ Fetchable /\ StallIssue
    /\ CycleStarts
    /\ stalledThisCycle' = TRUE
    /\ Count({"issueStallCycles", "totalStallEvents",
              IF RobFull THEN "robFullStallCycles" ELSE "rsFullStallCycles"})
    /\ UNCHANGED timeline

NothingToIssue ==
    /\ ~Fetchable /\ StallIssue
    /\ CycleStarts
    /\ stalledThisCycle' = FALSE
    /\ UNCHANGED <<timeline, counters>>

Proceed(k) == Progress(k) /\ UNCHANGED <<cacheVars, predictorVars, recordVars>>

\* recordBackendStall and the counter of the reason, in the order of the checks.
StallReason(k) ==
    IF ~OperandsReady(k) THEN "rawDependencyStallEvents"
    ELSE IF ~PassesLoadCheck(k) \/ FillPending(k) THEN "memoryOrderingStallEvents"
    ELSE "fuBusyStallEvents"

\* fault: who waits for a fill is not counted, neither in all nor by reason
StallEventsButFills(k) ==
    {e \in {"totalStallEvents", StallReason(k)} :
        StallReason(k) = "memoryOrderingStallEvents" => ~PassesLoadCheck(k)}
StallEvents(k) == {"totalStallEvents", StallReason(k)}

WaitStalled(k) ==
    /\ WaitL1D(k)
    /\ stalledThisCycle' = TRUE /\ backendStalledThisCycle' = TRUE
    /\ Count(StallEvents(k))
    /\ UNCHANGED <<predictorVars, cycle, timeline, pipelines, maxima>>

\* recordCacheAccessStats keeps the miss penalties.
ExtraMissLatency(k) ==
    IF UsesCache(k)
    THEN L1D!access(Unsigned(Address(k)), IsStore(k)).latency - HitLatency ELSE 0

StartRecorded(k) ==
    /\ StartAccess(k) \/ StartWithoutCache(k)
    /\ pipelines' = IF FUOf(k) \in PipelinedFUs
                    THEN [pipelines EXCEPT ![FUOf(k)] = insertIntoPipeline(@, k)]
                    ELSE pipelines
    /\ timeline' = [timeline EXCEPT ![k].start = cycle]
    /\ counters' = [counters EXCEPT !["memoryStallCycles"] = @ + ExtraMissLatency(k)]
    /\ UNCHANGED <<predictorVars, cycle, maxima, stalledThisCycle, backendStalledThisCycle>>

CommitRecorded ==
    /\ Commit
    /\ RecordMaxOccupancy
    /\ LET id == robEntries[robHead].id IN
         /\ timeline' = [timeline EXCEPT ![id].commit = cycle]
         /\ Count({"committedInstructions", mixClass(InstructionOf(id).op)})
    /\ UNCHANGED <<cacheVars, predictorVars, cycle, pipelines, stalledThisCycle,
                   backendStalledThisCycle>>

NoCommitRecorded ==
    /\ NoCommit
    /\ RecordMaxOccupancy
    /\ UNCHANGED <<cacheVars, predictorVars, cycle, timeline, pipelines, counters,
                   stalledThisCycle, backendStalledThisCycle>>

BroadcastRecorded(k) ==
    /\ Broadcast(k)
    /\ timeline' = [timeline EXCEPT ![k].writeback = cycle]
    /\ Count({"cdbBroadcasts"})
    /\ UNCHANGED <<cacheVars, predictorVars, cycle, pipelines, maxima, stalledThisCycle,
                   backendStalledThisCycle>>

NoBroadcastRecorded ==
    NoBroadcast /\ UNCHANGED <<cacheVars, predictorVars, recordVars>>

\* What every completion records.
Leaves(k) ==
    /\ pipelines' = IF FUOf(k) \in PipelinedFUs
                    THEN [pipelines EXCEPT ![FUOf(k)] = removeFromPipeline(@, k)]
                    ELSE pipelines
    /\ UNCHANGED <<cycle, stalledThisCycle, backendStalledThisCycle>>

CompleteRecorded(k) ==
    /\ ~IsBranch(active[k].instr) /\ CompleteL1D(k) /\ Leaves(k)
    /\ timeline' = [timeline EXCEPT ![k].end = cycle,
                                    ![k].writeback = IF IsStore(k) THEN cycle ELSE @]
    /\ maxima' = IF IsStore(k) THEN maxima
                 ELSE Raised("CDB", Cardinality(DOMAIN cdbQueue) + 1)
    /\ UNCHANGED <<predictorVars, counters>>

\* fault: the predictor is trained with the prediction
TrainedWithPrediction(k) == active[k].predictedTaken
TrainedWith(k) == ActualTaken(k)

Resolved(k) ==
    [timeline EXCEPT ![k].end = cycle, ![k].writeback = cycle,
                     ![k].actualTaken = ActualTaken(k)]

ResolveRecorded(k) ==
    /\ IsBranch(active[k].instr) /\ Leaves(k)
    /\ update(statusTable[k].staticPc, TrainedWith(k))
    /\ \/ /\ CompleteL1D(k)
          /\ timeline' = Resolved(k)
          /\ Count({"branchCount", "branchCorrect"})
       \/ /\ ResolveMispredictedL1D(k)
          /\ timeline' = TimesFlushed(k, Resolved(k))
          /\ Count({"branchCount", "branchMispredictions"})
    /\ UNCHANGED maxima

EndCycleRecorded ==
    /\ EndCycle
    /\ cycle' = cycle + 1
    /\ Count({c \in {"cyclesWithAnyStall"} : stalledThisCycle} \cup
             {c \in {"backendStallCycles"} : backendStalledThisCycle})
    /\ maxima' = Raised("CDB", Cardinality(DOMAIN cdbQueue))
    /\ UNCHANGED <<cacheVars, predictorVars, timeline, pipelines, stalledThisCycle,
                   backendStalledThisCycle>>

Stop == (Finish \/ Done) /\ UNCHANGED <<cacheVars, predictorVars, recordVars>>

NextSim ==
    \/ IssuePredicted \/ IssueStalls \/ NothingToIssue
    \/ \E k \in todo : Proceed(k) \/ WaitStalled(k) \/ StartRecorded(k)
    \/ CommitRecorded \/ NoCommitRecorded
    \/ \E k \in DOMAIN cdbQueue : BroadcastRecorded(k)
    \/ NoBroadcastRecorded
    \/ \E k \in todo : CompleteRecorded(k) \/ ResolveRecorded(k)
    \/ EndCycleRecorded
    \/ Stop

SpecSim == InitSim /\ [][NextSim]_varsSim /\ WF_varsSim(NextSim)
=============================================================================

-------------------------- MODULE SimulatorProperties --------------------------
(* What the records of Simulator.tla tell: the timing model of the README,   *)
(* and counters, pipelines and predictor tables that agree with what         *)
(* happened in the machine.                                                  *)
EXTENDS Simulator

Issued == DOMAIN timeline
Ended == {k \in Issued : timeline[k].end # NotYet}
Started == {k \in Issued : timeline[k].start # NotYet}
WrittenBack == {k \in Issued : timeline[k].writeback # NotYet}
RegisterWriters == {k \in Issued : writesRegister(InstructionOf(k))}
ResolvedBranches == {k \in Ended : IsBranch(InstructionOf(k))}

(***************************************************************************)
(* The stages of an instruction follow one another as the README's cycle     *)
(* order says: it starts in a later cycle than it is issued in, executes for *)
(* exactly its latency without losing or gaining a cycle, broadcasts in a    *)
(* later cycle than it ends in (a store or a branch is written back as it    *)
(* ends) and commits in a later one still.                                   *)
(***************************************************************************)
Latencies(i) ==
    IF IsMemoryOp(i) /\ l1dEnabled THEN {HitLatency, HitLatency + MissPenalty}
    ELSE {getLatency(i.op)}

StagesTakeTheirTime ==
    \A k \in Issued : LET t == timeline[k] IN
      /\ k \in Started => t.start > t.issue
      /\ k \in Ended => k \in Started /\ t.end - t.start + 1 \in Latencies(InstructionOf(k))
      /\ k \in WrittenBack =>
           /\ k \in Ended
           /\ IF k \in RegisterWriters THEN t.writeback > t.end ELSE t.writeback = t.end
      /\ k \in Committed <=> t.commit # NotYet
      /\ k \in Committed => k \in WrittenBack /\ t.commit > t.writeback

(***************************************************************************)
(* One issue, one broadcast and one commit a cycle, issues and commits in    *)
(* program order: a reader of the trace never meets two in a column.         *)
(***************************************************************************)
OneOfEachACycle ==
    \A j, k \in Issued : j < k =>
      /\ timeline[j].issue < timeline[k].issue
      /\ k \in Committed => j \in Committed \cup Flushed
      /\ j \in Committed /\ k \in Committed => timeline[j].commit < timeline[k].commit
      /\ {j, k} \subseteq RegisterWriters \cap WrittenBack
           => timeline[j].writeback # timeline[k].writeback

(***************************************************************************)
(* Exactly the instructions issued after a mispredicted branch and before   *)
(* its resolution are flushed, and nothing is recorded of one afterwards.    *)
(* The flush cycle kept is that of the last older misprediction, not of the *)
(* one that flushed it (markFlushedInstructionStatuses rewrites it).         *)
(***************************************************************************)
Mispredicted ==
    {b \in ResolvedBranches : timeline[b].actualTaken # timeline[b].predictedTaken}
OlderMispredictions(k) == {b \in Mispredicted : b < k}

FlushesFollowMispredictions ==
    \A k \in Issued : LET t == timeline[k] IN
      /\ k \in Flushed <=> \E b \in OlderMispredictions(k) : timeline[b].end >= t.issue
      /\ k \in Flushed =>
           /\ \A b \in OlderMispredictions(k) : timeline[b].end <= t.flush
           /\ \E b \in OlderMispredictions(k) : timeline[b].end = t.flush
           /\ t.commit = NotYet
           /\ \A c \in {t.start, t.end, t.writeback} : c <= t.flush
      /\ k \notin Flushed => t.flush = NotYet

(***************************************************************************)
(* The pipelines drawn in the trace are those the machine uses: an FP        *)
(* instruction executing for e cycles stands in stage e of one pipeline as   *)
(* long as the pipeline is that deep, every other stage is empty or shows an *)
(* instruction that was flushed, and the unit counts as entered the first    *)
(* stages that are taken (advancePipeline, insertIntoPipeline,               *)
(* removeFromPipeline, flushActiveInstructions).                             *)
(***************************************************************************)
ShownIn(u, k) ==
    {at \in (1 .. FuCount[u]) \X (1 .. PipelineDepth[u]) : pipelines[u][at[1]][at[2]] = k}

PipelinesShowExecution ==
    phase \in {"broadcast", "complete"} => \A u \in PipelinedFUs :
      /\ \A k \in ExecutingOn(u) :
           LET e == cycle - timeline[k].start + 1 IN
             IF e > PipelineDepth[u] THEN ShownIn(u, k) = {}
             ELSE \E p \in 1 .. FuCount[u] : ShownIn(u, k) = {<<p, e>>}
      /\ \A k \in Issued : ShownIn(u, k) # {} => k \in ExecutingOn(u) \cup Flushed
      /\ phase = "broadcast" =>
           entered[u] = Cardinality({p \in 1 .. FuCount[u] : pipelines[u][p][1] # None})

(***************************************************************************)
(* At the end of a cycle the performance counters are what one would count  *)
(* in the status table and in the cache: nothing is counted twice or missed  *)
(* over commits, flushes and stalls.                                        *)
(***************************************************************************)
CommitMix ==
    counters["int"] + counters["mul"] + counters["fpAdd"] + counters["fpMul"]
    + counters["load"] + counters["store"] + counters["branch"]

\* The cycles in which k was issued already, not yet started, and still there in
\* the execute stage.
WaitsIn(k, c) ==
    /\ timeline[k].issue < c
    /\ timeline[k].start = NotYet \/ c < timeline[k].start
    /\ \A b \in OlderMispredictions(k) :
         timeline[b].end < timeline[k].issue \/ c <= timeline[b].end
CyclesPassed == 1 .. cycle - 1

CountersMatchTheRun ==
    phase \in {"issue", "done"} =>
      /\ counters["committedInstructions"] = Cardinality(Committed)
      /\ counters["committedInstructions"] = CommitMix
      /\ counters["cdbBroadcasts"] = Cardinality(WrittenBack \cap RegisterWriters)
      /\ counters["branchCount"] = Cardinality(ResolvedBranches)
      /\ counters["branchMispredictions"] = Cardinality(Mispredicted)
      /\ counters["branchCount"] = counters["branchCorrect"] + counters["branchMispredictions"]
      /\ counters["issueStallCycles"] =
           counters["robFullStallCycles"] + counters["rsFullStallCycles"]
      /\ counters["totalStallEvents"] =
           counters["issueStallCycles"] + counters["rawDependencyStallEvents"]
           + counters["fuBusyStallEvents"] + counters["memoryOrderingStallEvents"]
      /\ counters["rawDependencyStallEvents"] + counters["fuBusyStallEvents"]
           + counters["memoryOrderingStallEvents"]
           = Cardinality({w \in Issued \X CyclesPassed : WaitsIn(w[1], w[2])})
      /\ counters["backendStallCycles"]
           = Cardinality({c \in CyclesPassed : \E k \in Issued : WaitsIn(k, c)})
      /\ Cardinality(Issued) + counters["issueStallCycles"] <= cycle - 1
      /\ counters["cyclesWithAnyStall"] <= cycle - 1
      /\ counters["issueStallCycles"] + counters["backendStallCycles"]
           >= counters["cyclesWithAnyStall"]
      /\ \A c \in {"issueStallCycles", "backendStallCycles"} :
           counters[c] <= counters["cyclesWithAnyStall"]
      /\ cacheStats.misses * MissPenalty = counters["memoryStallCycles"]
      /\ l1dEnabled => cacheStats.accesses =
           Cardinality({k \in Started : IsMemoryOp(InstructionOf(k))})

(***************************************************************************)
(* The predictor learns each resolved branch once, with its real direction,  *)
(* in the order of resolution: older branches of a cycle first, a branch on  *)
(* the wrong path too if it resolved before it was flushed.                  *)
(***************************************************************************)
ResolvedUpTo(k) ==
    {j \in ResolvedBranches :
        \/ timeline[j].end < timeline[k].end
        \/ timeline[j].end = timeline[k].end /\ j <= k}

PredictorLearnsResolutions ==
    /\ Len(outcomes) = Cardinality(ResolvedBranches)
    /\ \A k \in ResolvedBranches :
         outcomes[Cardinality(ResolvedUpTo(k))] =
            [pc |-> statusTable[k].staticPc, taken |-> timeline[k].actualTaken]
=============================================================================

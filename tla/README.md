# Tomasulo simulator: a verification project

The repository is a cycle-level simulator of a speculative out-of-order
processor after Tomasulo. It reads a small assembly program, runs it through
`Simulator::execute` (`src/src/Simulator.cpp`) and writes a trace that a browser
page displays. This directory holds TLA+ modules that model the simulator, TLC
configurations that check them on small instances, and proofs that TLAPS checks
for every value of the constants.

The question the project asks is the one the simulator's users take for
granted: does the machine compute what the program says, whatever the
latencies, the capacities and the predictions?

## 1. The system

### Components

| Component | State | Operations | What makes it correct |
|---|---|---|---|
| Cycle loop, `Simulator.cpp` | `pc`, `nextDynamicId`, `activeInstructions`, `statusTable`, `cycle` | issue, execution start and progress, commit, broadcast, completion, recovery, in that order each cycle | what commits is what a sequential machine computes; the loop ends |
| Reorder buffer, `ROB.cpp` | `entries`, `head`, `tail`, `count` | `allocateROB`, `commitROB`, `flushROB` | busy entries are the window from head to tail, in program order |
| Rename table, `regProducer` in `Simulator.cpp` | register -> ROB slot or -1 | set at issue, cleared by `commitROB` and `flushRegProducers` | names the youngest writer in flight; -1 means the register file is up to date |
| Common data bus, `CDB.cpp` | queue of results | push at completion, `broadcastCDB`, `flushCDBQueue` | every result is delivered once, to the slot of the instruction that owns it |
| Load/store queue, `LSQ.cpp` | entries in program order | `addLoad`, `addStore`, `markAddressReady`, `checkLoad`, `markStoreReady`, `removeCommitted`, `flushYoungerThan` | a load receives the value of the youngest older store to its address |
| Reservation stations, `ReservationStation.cpp` | none of their own: waiting instructions are counted | `countRSEntries`, `getRSCapacity` | a station never holds more than its capacity |
| Functional units, `FunctionalUnit.cpp` | `busyUnits`, pipeline stages | `fuAvailable`, `advancePipeline`, `insertIntoPipeline`, `removeFromPipeline` | a unit is held by exactly the instructions executing on it |
| Flush, `Flush.cpp` | none | `flushActiveInstructions`, `flushRegProducers` | discards the wrong path and only that, everywhere |
| Register file and memory | 32 registers, 1024 words | `read`, `write`, `load`, `store` | changed by commits only; R0 is zero |
| L1 data cache, `DataCache.cpp` (off by default) | lines, pending fills, counters | `load`, `store`, `canStartAccess`, `completeAccess`, `cancelAccess` | no set stays blocked; timing only, never values |
| Branch predictor, `BranchPredictor.cpp` | one-bit, two-bit and gshare tables, global history | `predict`, `update` | counters stay in range; a prediction never changes a result |
| Performance statistics, `PerformanceStats.cpp` | counters | `recordCommittedInstruction` and increments in the loop | the counters add up |
| Architecture configuration, `ArchitectureConfig.cpp` | one record | `applyArchitectureConfigOverride`, `parseArchitectureConfigOverrides` | accepts only capacities and latencies the loop can run with |
| Parser and setup, `Parser.cpp`, `ProgramSetup.cpp` | instructions, labels, initial values | `parseProgram`, `applyProgramSetup` | fields as the loop expects them |
| Trace and printing, `Trace*.cpp`, `DebugPrinter.cpp`, `BranchTraceUtils.cpp` | snapshots | `makeTraceSnapshot`, `writeJson` | reads only |
| HTTP server, `server/app.py` | `run_lock`, one `trace.json` | `/run`, `/compare-predictors` | a request gets its own trace |
| Command line, visualizer, tools, tests | - | - | - |

### Interaction

One thread, one loop. A cycle runs: advance the FP pipelines; issue at most one
instruction; visit every instruction in flight, oldest first (start it or count
down); commit at most the ROB's head; broadcast at most one result; complete
every instruction whose count reached zero, oldest first. A branch that resolves
against its prediction flushes, in the middle of that last walk, six structures
through five functions: status table, instructions in flight and their units,
bus queue, ROB, rename table and load/store queue.

The structures refer to each other by ROB slot (operand tags, renames, bus
messages) and by dynamic id (status table, load/store queue, ROB entries). Slots
are reused, ids are not. Most of what can go wrong is a slot number that has
outlived its instruction, or two structures that disagree about which
instructions still exist.

### What is hard

- **Recovery.** Six structures must forget the same set of instructions, in a
  circular buffer that may have wrapped, while a loop walks one of them.
- **Slot reuse.** A slot can be committed, freed and reallocated while older
  bookkeeping still names it.
- **Order within a cycle.** Commit before broadcast before completion: a result
  takes two cycles from completion to commit, and everything in between must
  tolerate commits and flushes.
- **Memory order.** A load passes older stores as soon as their addresses are
  known, forwards from the youngest match, and reads memory that is only
  written at commit.
- **Exact tests.** `remainingCycles == 0`, `pc < instructions.size()` with a
  `pc` of -1, `busyUnits > 0`.
- **Progress.** Every resource can be full at once.

There is no concurrency inside the simulator, no persistence and no message
loss; the server is the one component with concurrent callers. The full list,
each hazard at its line with the properties that watch it, is in `PROJECT.json`.

## 2. The modules

| Module | Role |
|---|---|
| `Instruction` | opcodes, operand fields, station, unit and latency class of each opcode, machine arithmetic, register and memory access |
| `SequentialISA` | abstract specification: one instruction at a time, in order |
| `Tomasulo` | the cycle loop and its structures, one action per stage operation, with any prediction and no cache |
| `TomasuloProperties` | its type invariant, safety, action properties, refinement mapping, liveness |
| `TomasuloMC` | instruction pools, programs and configurations for TLC |
| `BlockCache` | abstract specification: what a blocking, direct-mapped cache promises |
| `DataCache` | lines, pending fills, statistics, and a client that follows the cache's protocol |
| `TomasuloL1D` | the cycle loop composed with its data cache |
| `TomasuloL1DMC` | programs that share sets and words |
| `BranchPredictor` | the five predictors, on their own |
| `Simulator` | `TomasuloL1D` composed with a predictor, and all that a run records: cycles, counters, pipelines |
| `SimulatorProperties`, `SimulatorMC` | what the records tell; programs under each predictor |
| `Configuration` | defaults, ranges, directives, overrides and their precedence |
| `Server`, `ServerMC` | concurrent requests, the lock, the process, the trace file; requests at the edges of the ranges |
| `Tomasulo_proofs` | types, the ROB window, fates, units and their pipelines; the facts about intervals and machine arithmetic they need |
| `DataFlow_proofs` | results, operands, renames; the load/store queue and what loads see |
| `Sequential_proofs` | the refinement of `SequentialISA`, and register zero |
| `DataCache_proofs` | the cache with any client, and its refinement of `BlockCache` |
| `CachedCore_proofs` | the cycle loop's theorems with the cache, and the loop as the cache's client |
| `Server_proofs` | the lock, the trace file, the answers |
| `BranchPredictor_proofs` | what a history of outcomes makes of a predictor's tables |
| `Simulator_proofs` | the records of a run: cycles, flushes, pipelines, counters, training |

`Simulator` EXTENDS `TomasuloL1D` EXTENDS `TomasuloProperties` EXTENDS `Tomasulo`;
`TomasuloL1D` uses `DataCache` through `INSTANCE`. Each layer conjoins its part
to the steps below it, so a step of `Simulator` is a step of `TomasuloL1D` that
also records, and a step of `TomasuloL1D` is a step of the loop whose latency
the cache chose.

### How the state corresponds to the code

| TLA+ | C++ or Python |
|---|---|
| `program`, `pc`, `nextId` | `instructions`, `pc`, `nextDynamicId` |
| `active` | `activeInstructions`, by `instructionIndex` |
| `lsq` | the busy entries of `LoadStoreQueue::entries`, by `instructionId` |
| `cdbQueue`, `nextOrder` | `cdbQueue`, by `producerTag`; `order` records the arrival |
| `robEntries`, `robHead`, `robTail`, `robCount` | `circularROB` |
| `regProducer` | `regProducer` |
| `busyUnits`, `entered` | `FunctionalUnit::busyUnits`; occupied stages 0 of its pipelines |
| `rf`, `mem` | `RegisterFile`, `Memory` |
| `statusTable` | `staticPc`, `commitCycle != -1`, `flushed` of `InstructionStatus` |
| `phase`, `todo` | where the loop is: the stage, and what a walk over `activeInstructions` has yet to visit |
| `lines`, `pendingFills`, `cacheStats` | the same of `DataCache` |
| `accesses` | `cacheAccessResult` of the instructions with an access in progress |
| `predictorType`, `oneBitTable`, `twoBitTable`, `gshareTable`, `globalHistory` | `BranchPredictor` |
| `outcomes` | not in the code: what `update` was called with so far |
| `cycle`, `timeline` | `cycle`; the cycles and directions of `statusTable` |
| `pipelines` | `FunctionalUnit::pipelines`, every stage |
| `counters`, `maxima`, `stalledThisCycle`, `backendStalledThisCycle` | `PerformanceStats` and the two flags of the loop |
| `stage`, `call`, `results`, `tempFiles` | a thread of the server: where it is, its request, its results, its `.asm` file |
| `run_lock`, `traceFile`, `simulatorBuilt` | `run_lock`; `trace.json`; whether `build/simulator` exists |
| `written` | not in the code: the runs that wrote a whole trace |

The code's lists are in ascending order of dynamic id: instructions are appended
at issue with a fresh id and only ever erased. They are therefore functions from
ids, and "for each, in order" is "the smallest id still in `todo`". `todo`
starts without the instruction issued in the same cycle, which the code skips
(`issueCycle == cycle`).

| Action | Code (`Simulator.cpp` unless named) |
|---|---|
| `Issue`, `StallIssue` | issue stage, with `allocateROB`, `addLoad`, `addStore` |
| `Progress`, `Wait`, `Start` | one turn of the execution loop: count down; blocked after the checks; started |
| `Commit`, `NoCommit` | `commitROB` and `removeCommitted` |
| `Broadcast`, `NoBroadcast` | `broadcastCDB` |
| `CompleteRegister`, `CompleteStore`, `ResolveCorrect`, `ResolveMispredicted` | one turn of the completion loop, by kind of result |
| `EndCycle`, `Finish`, `Done` | end of the loop body; its condition false; after the loop |
| `StartAccess`, `CompleteAccess`, `CancelAccesses` (`DataCache`) | `load`/`store` with `access`; `completeAccess`; `cancelAccess` of each flushed instruction |
| `WaitL1D`, `StartAccess`, `StartWithoutCache`, `CompleteL1D`, `ResolveMispredictedL1D` | the same turns with the cache: `canStartAccess`, `startLoadAccess`, `startStoreAccess`, completion, cancellation |
| `predict`, `update` | `BranchPredictor::predict`, `update` |
| `IssuePredicted`, `IssueStalls`, `NothingToIssue`, `WaitStalled`, `StartRecorded`, `CommitRecorded`, `BroadcastRecorded`, `CompleteRecorded`, `ResolveRecorded`, `EndCycleRecorded` (`Simulator`) | the same steps with `advancePipeline`, `insertIntoPipeline`, `removeFromPipeline`, the status table's cycles, `PerformanceStats`, `predict` and `update` |
| `Receive`, `WriteProgram`, `WriteProgramFails`, `Acquire`, `StartSimulator`, `Collect`, `Leave`, `Unlink` (`Server`) | `run_simulation` and `compare_predictors` of `app.py`, cut where another thread may come between |
| `Fail`, `OpenTrace`, `CannotOpenTrace`, `WriteTrace`, `WriteFails`, `Timeout` | the simulator's process: `main`, `writeJson`, and `subprocess.run`'s time limit |
| `Rebuild` | external: the binary comes and goes while the server runs |

`Wait` keeps what the code writes before it gives up: a store's address goes to
the load/store queue as soon as its base register is known, a load that passed
the memory check but found no unit keeps (and may later revise) its forwarded
value.

### Abstractions

- **Prediction.** In `Tomasulo` and `TomasuloL1D` an issue takes any direction
  for a branch. Every predictor's behaviour, with any history, is among these,
  so what is shown there holds for all five. `Simulator` has the predictors
  themselves.
- **Timing.** `Tomasulo` is the loop with the cache off, its default, and
  `TomasuloL1D` with it on or off. The safety proofs are made once, for a loop
  whose starts choose any positive latency (`NextAnyTiming` in
  `Tomasulo_proofs`); both are instances of it.
- **Cache.** Metadata only, as in the code: values never come from the cache.
  The offset in a block and the access type's text are left out; `reset` has no
  caller in the simulator.
- **Pipelines.** Whether an instruction may start depends on the first stages
  only, and those are cleared at the top of each cycle; `Tomasulo` has just
  these. `Simulator` has all stages.
- **Integers** have `2 * HalfRange` values and wrap. Signed overflow, and the
  most negative number divided by -1, are undefined in C++; wrap-around is what
  the usual builds produce for the former. A cache address is the unsigned cast.
- **Memory bounds.** `Memory::load` and `store` do not check their index. A load
  outside memory yields any value, a store outside changes no word of the model.
  That the process might crash instead is not modelled.
- **History bits.** An index of the gshare table is a function from bit
  positions to BOOLEAN: exclusive-or is inequality bit by bit.
- **Requests.** A program's text is one of four kinds: turned down by the
  server, turned down by the simulator, one that ends, one that does not. An
  override is a key with an integer or a malformed value. Ranges are those of
  the code, at full width.
- **Trace.** The server's model keeps of a trace whether it is whole, which run
  wrote it and with which configuration.

## 3. The properties

### The cycle loop (`TomasuloProperties`)

- `TypeOK` - the type invariant.
- `CountdownIsCaught` - a count of zero is always seen by the completion loop of
  its own cycle.
- `RobIsWindow` - the circular buffer.
- `EveryInstructionHasOneFate` - in flight, committed or flushed; exactly one;
  commits are older than everything in flight.
- `ResultsAreOwedOnce` - exactly one stage owes each unfinished ROB entry its
  result, through completion, broadcast and flush.
- `WaitersHaveProducers` - an operand's tag names an older, unfinished
  instruction that writes the register it reads. No stranger, no lost wake-up.
- `RenameIsYoungestWriter` - a rename names the youngest writer in flight.
- `UnitsAreConserved` - a unit is held by exactly the instructions executing on
  it and by no more than it can hold.
- `LsqMatchesRob` - queue, ROB and status table know the same memory operations,
  and agree on what a store writes.
- `LoadsSeeLatestStore` - once a load executes, no older store can still turn out
  to be the one it should have read.
- `OnlyTheWrongPathIsFlushed` - an action property: an instruction is flushed
  only by an older branch that resolves against its prediction in that step.
- `CommitsSequentially`, `ImplementsISA` - the core implements `SequentialISA`,
  without and with its progress.
- `Termination` - the loop ends.

`SequentialISA` has a `pc`, registers and memory. The mapping puts its `pc` at
the oldest instruction in flight, or at the fetch `pc` when none is
(`CommitPc`), and its registers and memory at the architectural ones. A `Commit`
is one sequential step; every other step is a stutter. For a branch the step
says something about the future: when the branch commits, the next instruction
in the ROB, or the `pc`, must already be the right one. Loads are the subtle
case: the value a load computed several cycles earlier must be what memory holds
when it commits.

### The data cache (`DataCache`, `TomasuloL1D`)

- `FillsAreOwned` - a set is reserved exactly as long as one access in progress
  will fill it or be cancelled.
- `DirtyEvictionsAreCounted` - a dirty line leaves only in the completion of an
  access that counted its writeback.
- `ImplementsBlockCache` - the refinement of `BlockCache`: a present block is
  `tag * NumSets + set` of a valid line, a fetched one that of a pending fill.
  With it its progress: every fetch ends.
- `AccessesAreExecuting` - the loop keeps an access for each executing load and
  store and for nothing else, with the set and tag of its address.
- `FollowsCacheProtocol` - the loop, read through its cache variables, is a
  client `DataCache` allows: it asks before it starts, completes or cancels each
  access once. What `DataCache` guarantees any client therefore holds here.

### Predictors (`BranchPredictor`)

- `RecentOutcomesDecide` - what an entry predicts follows from the last one or
  two outcomes that trained it. For gshare the entry is computed from the list
  of outcomes, by the definition of the predictor, not from its tables.
- `HabitSurvivesAnException` - what the second bit is for.

### The records of a run (`SimulatorProperties`)

- `StagesTakeTheirTime`, `OneOfEachACycle` - the timing the repository's README
  describes, read off the recorded cycles.
- `FlushesFollowMispredictions` - who is flushed, decided from the recorded
  predictions and cycles alone, and which cycle the record ends up with.
- `PipelinesShowExecution` - what a pipeline shows is what executes, at the stage
  that its cycles of execution say, or was flushed.
- `CountersMatchTheRun` - the counters are what one would count in the records. A
  stalled event is due for every instruction in every cycle it waited in, so one
  missed in the total and in its reason alike would show, too.
- `PredictorLearnsResolutions` - the predictor was given each resolution once,
  in order, with its real direction.

### The server (`Server`)

- `WrittenTracesAreReturned` - a run that wrote its trace is answered with it.
- `RequestedConfigurationIsUsed` - the two tables of ranges agree, and the trace
  shows the overrides that were asked for.
- `WrittenFilesAreRemoved` - a program that was written is removed when its run
  or its request is over, exceptions and time-outs included. What can be left is
  a file whose own writing failed (below).
- `EveryRequestIsAnswered` - on every path, that one included.

### Four places where the code and its words disagree

1. **A lost rename** (run `lost_rename`). When a misprediction flushes the
   newest writer of a register, `flushRegProducers` clears the rename, although
   an older writer that survives may still be in flight. The comment on
   `regProducer` (`Simulator.cpp:361`) says -1 means the register file is up to
   date. From then on a reader of the register gets a stale value and commits
   it. With the program

       .REG R1 5
       .REG R2 2
       MUL  R1, R2, R2
       BNE  R0, R2, L
       ADDI R1, R1, 1
       L: ADDI R3, R1, 0

   and the branch predicted not taken, R3 ends as 5, not 4.
2. **R0 forwarded** (run `register_zero`). "R0 is always zero"
   (`ProgramSetup.cpp:16`) holds of the register file, but an instruction whose
   destination is R0 renames it and broadcasts its result, which readers receive
   as the value of R0 until the write has committed.
3. **A writeback without an eviction** (run `cache_writeback`). A miss counts the
   writeback of a dirty line when it starts. If a misprediction cancels it, the
   line stays, still dirty, and the next miss of the set counts the writeback
   again. `tests/cache_dirty_writeback.asm` describes the two as one event.
4. **Another run's trace** (run `stale_trace`). A simulator that cannot open
   `trace.json` says so on stderr and exits with 0; the server then finds the
   file of an earlier run and answers with it. The message of `app.py:130`, for a
   run that generated no trace, is only given when there is no file at all.

The first two break the refinement of `SequentialISA`, so the runs that check it
state where it does hold: `refinement` follows behaviours up to the first lost
rename, and its pool has no instruction that writes R0; in `progress` and
`cache_core` no program writes R0, and none reads a register whose rename it has
lost (in `progress` the ROB of two slots cannot hold an older writer, a branch
and a younger writer at once; in `cache_core` the programs end before). The
programs of `core` have lost renames, and its properties hold all the same.

Three smaller observations, not runs: a program file is created with
`delete=False` and written before the `try` whose `finally` removes it
(`app.py:100`, `264`), so that a failure while writing (a full disk) leaves it
in `/tmp`; nothing in the repository promises otherwise, and
`WrittenFilesAreRemoved` says that this is the only way. When the binary
disappears between the check and the start, `/run` answers with that same
message of `app.py:130`, because it takes the `FileNotFoundError` of the process
for that of the trace. And the repository's README says that "younger same-set
accesses wait" for a fill; older ones wait, too (the deadlock this might have
been is excluded by `Termination` in `cache_core`).

## 4. The runs

| Run | Instance | States | Shows |
|---|---|---|---|
| `core` | all 4-instruction programs over 8 instructions, ROB of 3, two entries per station | 435 140 | the ten invariants of the loop and the flush property |
| `refinement` | all 4-instruction programs over 8 memory-heavy instructions, ROB of 4, up to the first lost rename | 458 003 | each commit is a sequential step |
| `progress` | six looping, jumping or label-less programs, one with a wrong-path jump to `pc` -1, and all 3-instruction straight-line programs, ROB of 2, one entry per station | 24 489 | the whole refinement and termination |
| `cache` | two clients, two sets, three blocks in each, four accesses | 14 165 | the cache with any client; the refinement of `BlockCache` |
| `cache_core` | all 3-instruction programs over two pools of 7 and 6 instructions, a loop, conflicts and forwarding; ROB of 4, two memory units | 75 324 | the loop keeps the protocol, commits sequentially, ends |
| `predictor` | two branches, seven outcomes in any order, two history bits, five predictors | 109 225 | what each predictor learns |
| `simulator` | loops, conflicts, an alternating branch and all 3-instruction programs over 6 instructions, under each predictor | 59 986 | cycles, flushes, pipelines, counters and training agree |
| `server` | two requests of either kind, 14 bodies, comparisons of two runs | 377 546 | traces, configurations, files and answers |
| `lost_rename` | as `core` | - | finding 1 |
| `register_zero` | programs that write and read R0 | - | finding 2 |
| `cache_writeback` | as `cache_core` | - | finding 3 |
| `stale_trace` | as `server` | - | finding 4 |

The runs of the loop use three registers of three bits (`HalfRange = 4`), three
words of memory at addresses 0 to 2 (six with the cache), one unit of each kind
unless a run needs two, and latencies that differ between classes (1 to 5 cycles)
so that results overtake one another. Register r starts as r, so R0 is 0 and
addresses come out inside and outside memory.

**Why the bounds are enough to be interesting.**

- *Core.* A ROB of three slots wraps within a program of four and is full with an
  instruction waiting behind it; with two, it is full almost always; four hold a
  slow head, two stores to one address and the load that must take the younger
  one's value. Two entries of each station let two instructions of a kind wait
  for each other's results; one makes every station full. One unit of each kind
  makes units contended, and the FP pipelines accept a second instruction while
  the first is inside. Four instructions hold a producer, a branch, a wrong-path
  instruction and a reader, or a store whose address comes late, a store of
  another value, and a load. The loops add re-execution of the same static
  instruction, and so several dynamic instances at once, on both sides of a
  prediction.
- *Cache.* Two sets show that sets do not disturb each other, three blocks that a
  set is refilled while another block of it is wanted. Two accesses at once are
  what two memory units allow; a third could only add another set. The penalty of
  two cycles (10 by default) keeps a miss in progress while hits come and go and
  a branch resolves; no transition compares it with anything but zero.
- *Predictors.* Two history bits instead of four, and seven outcomes: a history
  that repeats, two branches that share an entry and two that do not, and a
  counter driven to both ends and back.
- *Simulator.* Divisions of five cycles in pipelines of three stages, two FP
  multipliers, mispredictions that catch FP work inside. `MaxId` and
  `MaxOutcomes` are 40, more than any of these runs reaches: the cache's client
  and the predictor on its own stop there, `Simulator` does not ask. With
  `cycle` in the state a run that did not end would make the state space
  infinite; that TLC finishes shows that each run ends under each predictor.
- *Server.* Two requests are what a lock and one shared file need to go wrong;
  two runs of a comparison let the first leave a file to the second. The bodies
  take the least and the largest value of a range and the ones beyond.

**The constraint of `refinement`.** `CONSTRAINT NoProducerMeansLatest` does not
explore past a state in which a rename has been lost. It drops the behaviours of
finding 1 and no others: whether a rename is lost depends on timing and
prediction, so no choice of programs with branches would do it.

**Fairness.** In the loop, with or without its cache, `WF(Next)` says that a step
is taken as long as one is possible: the loop is a single thread that never
blocks, and no action is assumed to win over another. The cache on its own
assumes that its client completes each access it does not cancel, and that the
loop does so is what `FollowsCacheProtocol` checks, fairness included. In the
server each thread runs on (`WF` of `Handle`) and each process ends by itself or
by the time limit of ten seconds (`WF` of `Simulate`); nothing makes a client
send a request or anybody rebuild the binary. Weak fairness is enough for the
lock because a request takes it once: a waiting thread can be overtaken by each
other request only once.

**Deadlock** is checked in every run of the loop: after the end the model idles
in `Done`. It is not in `cache` and `predictor`, whose bounds end the run, and in
`server`, where everything may have been answered.

Every property of the passing runs is paired in `PROJECT.json` with a change of
one definition, a plausible slip in that code (a scan that stops at the first
match, a count not lowered, one operand not woken, a fill that outlives its
access, a lock kept on an exception), under which TLC reports it violated. The
changed definitions are marked "fault" in the modules and nothing uses them.

## 5. The proofs

TLAPS proves, for every ROB capacity, station and unit count, latency, integer
width, register count, memory size, cache geometry, pipeline depth, set of
programs, set of concurrent requests, history length and number of outcomes:

| Theorem | States |
|---|---|
| `TypeCorrect` | `Spec => []TypeOK` |
| `CountdownCaught` | `Spec => []CountdownIsCaught` |
| `RobWindow` | `Spec => []RobIsWindow` |
| `OneFate` | `Spec => []EveryInstructionHasOneFate` |
| `WrongPathFlushed` | `Spec => OnlyTheWrongPathIsFlushed` |
| `ResultsOwedOnce` | `Spec => []ResultsAreOwedOnce` |
| `WaitersProducers` | `Spec => []WaitersHaveProducers` |
| `RenameYoungest` | `Spec => []RenameIsYoungestWriter` |
| `LsqMatches` | `Spec => []LsqMatchesRob` |
| `LoadsSeeLatest` | `Spec => []LoadsSeeLatestStore` |
| `UnitsConserved` | `Spec => []UnitsAreConserved` |
| `SequentialWhileRenamed` | `Spec /\ []NoProducerMeansLatest => CommitsSequentially`, if no program writes R0 |
| `SequentialWhenPredicted` | the same for behaviours in which no branch is mispredicted; they lose no rename |
| `StraightLineIsSequential` | `Spec => CommitsSequentially`, if no program has a branch or writes R0 |
| `ZeroWhenSpared` | `Spec => []RegisterZeroReadsZero`, if no program writes R0 |
| `CacheTypeCorrect` | `CacheSpec => []CacheTypeOK` |
| `FillsOwned` | `CacheSpec => []FillsAreOwned` |
| `EvictionsCounted` | `CacheSpec => DirtyEvictionsAreCounted` |
| `BlockCacheRefined` | `CacheSpec` implements `BlockCache`, its fairness apart |
| `CachedTypeCorrect`, `CachedWindowAndFates`, `CachedWrongPathFlushed`, `CachedResultsOwedOnce`, `CachedLoadsSeeLatest`, `CachedUnitsConserved`, `CachedSequentialWhileRenamed`, `CachedStraightLineIsSequential`, `CachedZeroWhenSpared` | the theorems of the loop for `SpecL1D` |
| `AccessesExecute` | `SpecL1D => []AccessesAreExecuting` |
| `CoreIsCacheClient` | `SpecL1D` implements `CacheSpec`, its fairness apart, as long as at most `MaxId + 1` instructions are issued |
| `CachedFillsOwned`, `CachedEvictionsCounted` | what is proved of the cache with any client, for the cache in the loop, under the same bound |
| `TracesReturned` | `ServerSpec => []WrittenTracesAreReturned` |
| `ConfigurationUsed` | `ServerSpec => []RequestedConfigurationIsUsed` |
| `FilesRemoved` | `ServerSpec => []WrittenFilesAreRemoved` |
| `ReportedWhenOpened` | no answer is another run's trace, in behaviours in which `trace.json` can always be opened |
| `PredictorTypeCorrect` | `PredictorSpec => []PredictorTypeOK` |
| `OutcomesDecide` | `PredictorSpec => []RecentOutcomesDecide` |
| `HabitSurvives` | `PredictorSpec => []HabitSurvivesAnException` |
| `SimulatorRunsTheLoop` | every behaviour of `SpecSim` is one of the loop with its cache, fairness apart |
| `StagesTimed` | `SpecSim => []StagesTakeTheirTime` |
| `OneOfEach` | `SpecSim => []OneOfEachACycle` |
| `FlushesMispredictions` | `SpecSim => []FlushesFollowMispredictions` |
| `PipelinesDrawn` | `SpecSim => []PipelinesShowExecution` |
| `CountersMatch` | `SpecSim => []CountersMatchTheRun` |
| `PredictorLearns` | `SpecSim => []PredictorLearnsResolutions` |

The assumptions are those named in `Instruction`, `Tomasulo`, `DataCache`,
`TomasuloL1D`, `BranchPredictor`, `Simulator` and `Server`: capacities, unit
counts, latencies, the pipelines' depths, the cache's geometry and the history's
length are positive, the miss penalty natural (`applyArchitectureConfigOverride` rejects others), programs
consist of instructions the parser can produce, the initial registers and memory
are ones the directives can leave, program counters are natural numbers. The
bounds `MaxId`, `MaxAccesses` and `MaxOutcomes` are any natural numbers: they
stop a client or a history, and every finite run is within some of them. TLC
evaluates the assumptions in every run.

**Hypotheses about programs.** `ProgramsSpareR0` (no instruction has R0 as its
destination) excludes finding 2, `[]NoProducerMeansLatest` finding 1, and the
theorems say that these two are all that separates the core from the sequential
machine. The second is a condition on behaviours, because it depends on timing
and prediction; `SequentialWhenPredicted` and `StraightLineIsSequential` replace
it by one on predictions and one on programs. Both findings are confirmed by runs.

**Any timing.** The loop and the loop with its cache differ in the latency a load
or a store starts with and in the reasons to wait. Both are instances of
`NextAnyTiming` (`Tomasulo_proofs`): an instruction that could start may wait, or
start with any positive latency. The invariants below are proved inductive for
it, once, and `NextIsAnyTiming` and `CachedIsAnyTiming` bring them to the two
machines. No safety property of the loop depends on how long anything takes but
one: that the pipelines have room (`UnitsConserved`) needs an instruction in a
pipelined unit to keep the latency it was issued with, which the cache, whose
accesses use other units, does not disturb (`CachedKeepsLatencies`).

With `SimulatorRunsTheLoop` all of this holds of the whole simulator, whose
predictor only chooses among the directions the loop allows.

**The inductive invariants** are built in layers, each using the ones below.

1. `TypeInv` is `TypeOK` with `CountdownIsCaught`. Types alone are not
   inductive: `remaining` is a natural number only because no instruction is
   counted down from zero, which is what the countdown says.
2. `RobInv` adds `RobIsWindow` and `BusyEntriesHaveIds`: a busy entry has an id
   already given out. Without it a new instruction would not be known to be the
   youngest of the window. The work is modular: `(robHead + n) % RobCapacity` is
   injective on a window, so a commit takes away its first slot, an allocation
   adds the next. A flush keeps the entries with ids up to the branch's; as ids
   ascend, these are a prefix of the window, and the recomputed count is its
   length.
3. `FateInv` adds `EveryInstructionHasOneFate` and `VisitsFinished`: the
   completion loop visits instructions with a count of zero only. The latter is
   what makes a flush attributable to a branch that resolves in that step.
   `WrongPathFlushed` follows from it step by step.
4. `ResultInv` adds the three properties of the data flow, which are inductive
   only together, slot by slot: a captured operand waits for a slot because a
   rename names it (`ProducersAreYoungest`); it is woken because that slot's
   result is still owed (`OwedOnce`); and the rename is cleared at commit because
   a finished entry says what its instruction writes (`ResultsNameRegisters`,
   with `InstructionsAreStatic`: what an instruction is never changes). Recovery
   keeps all of it because whatever stays depends on older instructions only
   (`OperandsAwaitWriters` orders an operand after its producer).
5. `QueueInv` adds the load/store queue: its entries are the memory operations in
   flight (`LsqHoldsMemoryOps`), what a ready store entry says is what its ROB
   entry will write (`StoresAgree`), and a store's address, once known, is never
   revised (`AddressesAreFinal`), because an operand that waits for nothing is
   never written again (`ExecutingHasOperands`). `MemoryInv` adds `LoadsAreSafe`:
   a load that executes has forwarded from the youngest older store to its
   address or found every older address known and different. An older store can
   leave after that by committing, and then memory holds what the load saw.
6. `HolderInv` counts: each unit's `busyUnits` is the number of instructions
   executing on it. `PipelineInv` bounds the pipelined units, which no counter
   limits: the instructions on such a unit fall into cohorts by age, an age never
   occurs with a count of cycles that does not fit it (`PipelinesOnTime`), and
   each cohort has at most as many members as there are units (`CohortsFit`),
   since a cohort entered in one cycle.
7. `SequentialInv` is the refinement. What an instruction in flight sees of a
   register is the value of the youngest older writer in flight or, without one,
   of the register file (`Sees`). `OperandsAreCurrent` says that captured
   operands are what the instruction sees, `ResultsAreCurrent` that a result,
   wherever it is (bus, ROB, queue), is computed from it, and `PathIsFollowed`
   that each instruction in flight is followed by the one its result leads to:
   the next one in flight, or the fetch `pc`. A commit turns the oldest
   instruction's sight into the sequential machine's state. An issue reads the
   register file if `regProducer` is -1, and this is the step that needs
   `NoProducerMeansLatest`. `StraightLineInv` shows that this holds by itself
   without branches; `ZeroInv` follows the value of R0 through captures.
8. For the cache, `FillsAreOwned` is inductive with the types. For
   `DirtyEvictionsAreCounted` it needs `MissesJudgeTheirLine`: as long as a miss
   is in progress its set is reserved, so the line it judged is the line it
   replaces, and a line that became dirty since would have needed an access the
   reservation forbids. For `BlockCacheRefined` it needs `BlocksExist`.
9. `AccessInv` adds `ExecutingHasOperands`: an instruction that executes waits
   for nothing, so no broadcast can change the address its access was started
   for. `ClientInv` adds `DirtyInv`, for the loop's cache, and `StartsAreCounted`:
   an instruction asks the cache at most once, which keeps the loop within the
   bound of the client.
10. `ServerInv` for any number of requests: who is inside the critical section
    holds the lock, nobody else changes `trace.json`, and what a process wrote is
    still there when its handler reads it. `OwnTraceInv` adds, for behaviours in
    which the file can be opened, that the trace is the run's own: finding 4 is
    the only way to another one. `ConfigurationUsed` compares the two tables of
    ranges entry by entry, at their full width. A file belongs to a request
    between its writing and its `finally`, or to one that has failed to write it.
11. `PredictorInv` relates each table entry to the outcomes that trained it: two
    equal outcomes at the end of the list leave a counter on their side, three
    leave it at its end (`CountersLearnt`, `BitsLearnt`), and the history is the
    latest outcomes. The entry an outcome trained is computed from the list
    (`TrainedIn`), and does not change as the list grows.

12. `TimesInv` adds to `QueueInv` what each row of the status table may say at
    each point of a cycle (`TimesHavePassed`: nothing later than now, and nothing
    of this cycle from a stage still to come) and how a row agrees with the
    machine (`RowsShowProgress`): the cycles an instruction has executed for and
    its countdown add up to its latency. The latter is what fixes the distance
    from start to end, the former why commits and broadcasts come strictly later.
    From it `StepsRecord` says what a step changes in the table: nothing, a row
    added, or one column of one row, the rows younger than a mispredicted branch
    apart. The other layers over the records are built on that list.
13. `OrderInv` compares two rows, `FlushInv` is inductive as the property states
    it, `LearnInv` adds to the training list that the branches resolved in this
    cycle are older than those the walk has yet to visit (`ResolvedInOrder`): that
    is why a new resolution is the last one in order of cycle and age, and the
    earlier ones keep their places in the list.
14. `CountInv` states the counters at every step of a cycle, not at its end: the
    tallies are sizes of sets, of which each step adds at most one member, and a
    cycle's stalls are flags until the cycle ends (`StalledSoFar`,
    `BackendStalledSoFar`). `WaitInv` counts the stalls as a set of pairs, an
    instruction and a cycle it waited in: a turn that stalls adds one pair, and no
    other step adds or drops any. It rests on `FlushInv`, because the pairs of a
    flushed instruction end with the cycle it was flushed in.
15. `ShownInv` follows each stage of each pipeline. As a cycle begins all stages
    move and every executing instruction has one cycle more (`StageOf`), a start
    takes a pipeline whose first stage is free because fewer have entered than
    there are pipelines, a completion empties its stage, and a misprediction
    leaves what it flushed where it was. Each step does one of these four to each
    unit (`PipelinesMove`). TLC finds `ShownInv` true in the instance of
    `simulator`.

`Tomasulo_proofs` also has what these need of arithmetic and of the tables by
opcode: results, addresses and loaded values are machine integers, and every
opcode has a latency.

**What stays with TLC.** `Termination`, `EveryRequestIsAnswered` and the fairness
in `ImplementsISA`, `ImplementsBlockCache` and `FollowsCacheProtocol`: liveness
is beyond the prover. Every invariant and every action property of the passing
runs is proved, `CommitsSequentially` under the hypotheses above, without which
it is false. `maxima`, the largest occupancies, appears in no property.

## 6. Not modelled

- **Trace formatting and merging, debug printing, the visualizer.** They read
  state and produce text; no behaviour of the machine depends on them. Which
  moment of a cycle each field of a snapshot shows is not modelled either; the
  pipelines and the status table's cycles, which they show, are.
- **The parser's text handling.** `WellFormed` says what instructions it can
  produce, label targets past the end and undefined ones included; how it reads
  them, and what it does with malformed lines, is not modelled.
- **The argument loop** of `main.cpp`, and the printing of statistics and rates.
- **Runs beside the server.** The command-line tools and tests write the same
  `trace.json` without the server's lock, which lives in the server's process.
- **The gshare columns** of the status table, which repeat the predictor's state
  for display.
- **Other failures of the operating system.** The server's files and processes
  fail where the modules say: program and trace files that cannot be written, a
  binary that is missing, a run that fails or never ends. A `fork` that fails or
  a file that cannot be unlinked is not among them. `writeJson` escapes no control
  characters other than line ends and tabs; a trace with one would be written
  whole and not parse.
- **Undefined behaviour.** A crash on an index outside memory, or a trap on the
  most negative number divided by -1, would end the process; the models go on.

## 7. What could come next

The parser's label resolution as operators, checked against a definition of what
a label means. The occupancies in `maxima` as a property. A condition on programs
with branches, weaker than having none, under which no rename is lost: finding 1
needs an older writer in flight, a branch and a younger writer of one register,
so programs whose basic blocks do not write a register twice across a branch
within the length of the ROB should commit sequentially.

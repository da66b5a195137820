-------------------------------- MODULE Server --------------------------------
(* The local server (server/app.py): threads that answer /run and             *)
(* /compare-predictors by running the simulator, one run at a time under      *)
(* run_lock, and reading the one trace.json every run writes.                 *)
EXTENDS Configuration

CONSTANTS
    Requests,
    Bodies,         \* what a request may carry
    Predictors,     \* how many runs a comparison makes
    NoRequest

ASSUME PredictorsAssumption == Predictors \in Nat \ {0}
ASSUME NoRequestAssumption == NoRequest \notin Requests

VARIABLES
    stage,          \* request -> where its thread is
    call,           \* request -> handler and body, once received
    results,        \* request -> result of each of its runs
    run_lock,
    tempFiles,      \* requests whose .asm file exists
    traceFile,      \* trace.json
    written,        \* runs that wrote a whole trace and exited
    simulatorBuilt  \* build/simulator exists

serverVars == <<stage, call, results, run_lock, tempFiles, traceFile, written, simulatorBuilt>>

\* "blank" stands for what the server turns down (also a text too long, and an
\* unknown predictor), "unusable" for what the simulator turns down.
Texts == {"blank", "unusable", "program", "endless"}

Stages == {"new", "checked", "waiting", "ready", "running", "writing", "failed",
           "timedOut", "exited", "holding", "leaving", "cleaning", "answered"}

NoRun == <<NoRequest, 0>>
Absent == [content |-> "absent", run |-> NoRun, config |-> DefaultConfig]
Partial(run) == [content |-> "partial", run |-> run, config |-> DefaultConfig]

ServerInit ==
    /\ stage = [r \in Requests |-> "new"]
    /\ call = [r \in Requests |-> <<>>]
    /\ results = [r \in Requests |-> <<>>]
    /\ run_lock = NoRequest
    /\ tempFiles = {}
    /\ traceFile = Absent
    /\ written = {}
    /\ simulatorBuilt \in BOOLEAN

Body(r) == call[r].body
Compares(r) == call[r].handler = "compare_predictors"
CurrentRun(r) == <<r, Len(results[r]) + 1>>
To(r, s) == stage' = [stage EXCEPT ![r] = s]

Result(error) == [error |-> error, trace |-> Absent]
Add(r, result) == results' = [results EXCEPT ![r] = Append(@, result)]
Answer(r, error) == Add(r, Result(error)) /\ To(r, "answered")

-----------------------------------------------------------------------------
(* The handlers                                                              *)

\* Arguments are checked, and the simulator's binary looked for, before the lock.
Receive(r) ==
    /\ stage[r] = "new"
    /\ \E body \in Bodies, handler \in {"run_simulation", "compare_predictors"} :
         /\ call' = [call EXCEPT ![r] = [body |-> body, handler |-> handler]]
         /\ \/ body.text = "blank" /\ Answer(r, "badRequest")
            \/ /\ body.text # "blank" /\ ~ServerAccepts(body.overrides)
               /\ Answer(r, "invalidConfig")
            \/ /\ body.text # "blank" /\ ServerAccepts(body.overrides)
               /\ IF ~simulatorBuilt THEN Answer(r, "noSimulator")
                  ELSE /\ To(r, IF handler = "run_simulation" THEN "checked" ELSE "waiting")
                       /\ UNCHANGED results
    /\ UNCHANGED <<run_lock, tempFiles, traceFile, written, simulatorBuilt>>

\* /run writes the program before it asks for the lock, a comparison before
\* each of its runs.
WriteProgram(r) ==
    /\ stage[r] \in {"checked", "holding"}
    /\ tempFiles' = tempFiles \cup {r}
    /\ To(r, IF stage[r] = "checked" THEN "waiting" ELSE "ready")
    /\ UNCHANGED <<call, results, run_lock, traceFile, written, simulatorBuilt>>

\* The file cannot be created, or not be written to its end (a full disk): with
\* delete=False it stays, no try is entered yet whose finally would remove it, and
\* the exception leaves a comparison's with block.
WriteProgramFails(r) ==
    /\ stage[r] \in {"checked", "holding"}
    /\ tempFiles' \in {tempFiles, tempFiles \cup {r}}
    /\ Add(r, Result("notWritten"))
    /\ To(r, IF stage[r] = "checked" THEN "answered" ELSE "leaving")
    /\ UNCHANGED <<call, run_lock, traceFile, written, simulatorBuilt>>

\* fault: a comparison does not wait for the lock
FreeForComparison(r) == Compares(r) \/ run_lock = NoRequest
LockFree(r) == run_lock = NoRequest

Acquire(r) ==
    /\ stage[r] = "waiting"
    /\ LockFree(r)
    /\ run_lock' = r
    /\ To(r, IF Compares(r) THEN "holding" ELSE "ready")
    /\ UNCHANGED <<call, results, tempFiles, traceFile, written, simulatorBuilt>>

\* subprocess.run; without a binary it raises FileNotFoundError, which /run
\* takes for a missing trace and a comparison does not catch.
\* fault: an exception leaves the comparison's file behind
FilesKept(r) == tempFiles
FilesAfterRun(r) == IF Compares(r) THEN tempFiles \ {r} ELSE tempFiles

StartSimulator(r) ==
    /\ stage[r] = "ready"
    /\ IF simulatorBuilt
       THEN To(r, "running") /\ UNCHANGED <<results, tempFiles>>
       ELSE /\ Add(r, Result(IF Compares(r) THEN "serverError" ELSE "noTrace"))
            /\ tempFiles' = FilesAfterRun(r)
            /\ To(r, "leaving")
    /\ UNCHANGED <<call, run_lock, traceFile, written, simulatorBuilt>>

\* One run's result, once its process has ended.
RunResult(r) ==
    CASE stage[r] = "failed" -> Result("failed")
      [] stage[r] = "timedOut" -> Result("timeout")
      [] stage[r] = "exited" ->
           CASE traceFile.content = "absent" -> Result("noTrace")
             [] traceFile.content = "partial" -> Result("notJSON")
             [] traceFile.content = "whole" -> [error |-> "none", trace |-> traceFile]

Collect(r) ==
    /\ stage[r] \in {"failed", "timedOut", "exited"}
    /\ Add(r, RunResult(r))
    /\ tempFiles' = FilesAfterRun(r)
    /\ To(r, IF Compares(r) /\ Len(results[r]) + 1 < Predictors THEN "holding" ELSE "leaving")
    /\ UNCHANGED <<call, run_lock, traceFile, written, simulatorBuilt>>

\* The end of the with block, however it is left; /run's finally clause follows.
\* fault: an exception leaves the lock taken
LockKeptOnException(r) ==
    IF results[r][Len(results[r])].error \in {"serverError", "notWritten"} THEN r ELSE NoRequest
LockAfter(r) == NoRequest

Leave(r) ==
    /\ stage[r] = "leaving"
    /\ run_lock' = LockAfter(r)
    /\ To(r, IF Compares(r) THEN "answered" ELSE "cleaning")
    /\ UNCHANGED <<call, results, tempFiles, traceFile, written, simulatorBuilt>>

Unlink(r) ==
    /\ stage[r] = "cleaning"
    /\ tempFiles' = tempFiles \ {r}
    /\ To(r, "answered")
    /\ UNCHANGED <<call, results, run_lock, traceFile, written, simulatorBuilt>>

-----------------------------------------------------------------------------
(* The simulator's process (main.cpp, TraceRecorder::writeJson)              *)

StartsUp(r) ==
    /\ DirectivesAccepted(Body(r).directives)
    /\ SimulatorAccepts(Body(r).overrides)

\* A rejected configuration, a file without instructions or one the parser gives
\* up on.
Fail(r) ==
    /\ stage[r] = "running"
    /\ ~StartsUp(r) \/ Body(r).text = "unusable"
    /\ To(r, "failed")
    /\ UNCHANGED <<call, results, run_lock, tempFiles, traceFile, written, simulatorBuilt>>

FinishesLoop(r) == stage[r] = "running" /\ StartsUp(r) /\ Body(r).text = "program"

\* Opening the file for writing empties it.
OpenTrace(r) ==
    /\ FinishesLoop(r)
    /\ traceFile' = Partial(CurrentRun(r))
    /\ To(r, "writing")
    /\ UNCHANGED <<call, results, run_lock, tempFiles, written, simulatorBuilt>>

\* A file that cannot be opened is reported on stderr; main returns 0.
CannotOpenTrace(r) ==
    /\ FinishesLoop(r)
    /\ To(r, "exited")
    /\ UNCHANGED <<call, results, run_lock, tempFiles, traceFile, written, simulatorBuilt>>

TraceOf(r) ==
    [content |-> "whole", run |-> CurrentRun(r),
     config |-> architectureConfig(Body(r).directives, Body(r).overrides)]

WriteTrace(r) ==
    /\ stage[r] = "writing"
    /\ traceFile' = TraceOf(r)
    /\ written' = written \cup {CurrentRun(r)}
    /\ To(r, "exited")
    /\ UNCHANGED <<call, results, run_lock, tempFiles, simulatorBuilt>>

\* The stream's errors are not looked at: main returns 0.
WriteFails(r) ==
    /\ stage[r] = "writing"
    /\ To(r, "exited")
    /\ UNCHANGED <<call, results, run_lock, tempFiles, traceFile, written, simulatorBuilt>>

\* The process is killed, before its trace is complete or after.
Timeout(r) ==
    /\ \/ stage[r] = "running" /\ UNCHANGED traceFile
       \/ stage[r] = "writing" /\ traceFile' \in {traceFile, TraceOf(r)}
    /\ To(r, "timedOut")
    /\ UNCHANGED <<call, results, run_lock, tempFiles, written, simulatorBuilt>>

-----------------------------------------------------------------------------
\* cmake --build, while the server runs.
Rebuild ==
    /\ simulatorBuilt' = ~simulatorBuilt
    /\ UNCHANGED <<stage, call, results, run_lock, tempFiles, traceFile, written>>

Handle(r) ==
    \/ WriteProgram(r) \/ WriteProgramFails(r) \/ Acquire(r) \/ StartSimulator(r)
    \/ Collect(r) \/ Leave(r) \/ Unlink(r)
Simulate(r) ==
    \/ Fail(r) \/ OpenTrace(r) \/ CannotOpenTrace(r) \/ WriteTrace(r) \/ WriteFails(r)
    \/ Timeout(r)

ServerNext == Rebuild \/ \E r \in Requests : Receive(r) \/ Handle(r) \/ Simulate(r)

\* The threads run on, a run ends by itself or by its time limit.
ServerSpec ==
    /\ ServerInit /\ [][ServerNext]_serverVars
    /\ \A r \in Requests : WF_serverVars(Handle(r)) /\ WF_serverVars(Simulate(r))

-----------------------------------------------------------------------------
(* Properties                                                                *)

(***************************************************************************)
(* A run that wrote its trace is answered with that trace: no other request, *)
(* no earlier run of the same comparison, and no run killed half-way comes   *)
(* between its writing and its reading (run_lock, subprocess.run).           *)
(***************************************************************************)
WrittenTracesAreReturned ==
    \A r \in Requests : \A n \in DOMAIN results[r] :
        <<r, n>> \in written =>
            results[r][n].error = "none" /\ results[r][n].trace.run = <<r, n>>

(***************************************************************************)
(* The server's table of ranges and the simulator's agree: what the server   *)
(* forwards never fails a run, and what it rejects would have. A trace        *)
(* shows the overrides its request asked for, whatever the file's directives *)
(* say.                                                                      *)
(***************************************************************************)
RequestedConfigurationIsUsed ==
    \A r \in {r \in Requests : results[r] # <<>>} :
        LET overrides == Body(r).overrides IN
          /\ results[r][1].error = "invalidConfig" <=>
                Body(r).text # "blank" /\ ~SimulatorAccepts(overrides)
          /\ \A n \in DOMAIN results[r] :
               results[r][n].trace.run = <<r, n>> =>
                 \A key \in DOMAIN overrides :
                     results[r][n].trace.config[key] = overrides[key]

(***************************************************************************)
(* A program that was written is removed, whichever way its run or the whole *)
(* request ends (the finally clauses).  What is left when a request is over,  *)
(* or between two runs of a comparison, is a file whose own writing failed.  *)
(***************************************************************************)
WriteFailed(r) == \E n \in DOMAIN results[r] : results[r][n].error = "notWritten"
WrittenFilesAreRemoved ==
    \A r \in tempFiles : stage[r] \in {"new", "holding", "answered"} => WriteFailed(r)

(***************************************************************************)
(* Every request received is answered: no error path keeps the lock, and a   *)
(* program that never ends is stopped by its time limit.                     *)
(***************************************************************************)
EveryRequestIsAnswered ==
    \A r \in Requests : stage[r] # "new" ~> stage[r] = "answered"

\* "Simulator finished, but trace.json was not generated." (server/app.py): a run
\* that generated no trace is reported, never answered with another run's.
MissingTraceIsReported ==
    \A r \in Requests : \A n \in DOMAIN results[r] :
        results[r][n].error = "none" => results[r][n].trace.run = <<r, n>>
=============================================================================

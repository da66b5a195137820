----------------------------- MODULE Server_proofs -----------------------------
(* Proofs about the server of Server.tla: any number of requests, any bodies  *)
(* and comparisons of any number of runs.                                    *)
EXTENDS Server, TLAPS

Configs == {architectureConfig(b.directives, b.overrides) : b \in Bodies} \cup {DefaultConfig}
Contents == {"absent", "partial", "whole"}
Runs == (Requests \cup {NoRequest}) \X Nat
Traces == [content : Contents, run : Runs, config : Configs]
Errors == {"none", "badRequest", "invalidConfig", "noSimulator", "notWritten",
           "serverError", "noTrace", "failed", "timeout", "notJSON"}
RunResults == [error : Errors, trace : Traces]
Calls == [body : Bodies, handler : {"run_simulation", "compare_predictors"}]

\* The server's state has the types of app.py.
ServerTypeOK ==
    /\ stage \in [Requests -> Stages]
    /\ DOMAIN call = Requests /\ \A r \in Requests : stage[r] # "new" => call[r] \in Calls
    /\ results \in [Requests -> Seq(RunResults)]
    /\ tempFiles \subseteq Requests
    /\ traceFile \in Traces

\* A thread between its Acquire and its Leave has the lock.
Inside == {"ready", "running", "writing", "failed", "timedOut", "exited", "holding", "leaving"}
LockIsHeld == \A r \in Requests : stage[r] \in Inside => run_lock = r

\* Which stages a handler goes through, and in which of them its file exists.
HandlersPath ==
    \A r \in Requests :
        /\ stage[r] \in {"checked", "cleaning"} => ~Compares(r)
        /\ stage[r] = "holding" => Compares(r)
FilesAreInUse ==
    \A r \in tempFiles :
        \/ stage[r] \in {"leaving", "answered"} /\ WriteFailed(r)
        \/ IF Compares(r)
           THEN stage[r] \in {"ready", "running", "writing", "failed", "timedOut", "exited"}
           ELSE stage[r] \notin {"new", "checked", "holding", "answered"}

\* A run is made for a request the server accepted, and answered once.
Accepted(r) == Body(r).text # "blank" /\ ServerAccepts(Body(r).overrides)
RunsAreAccepted ==
    \A r \in Requests :
        /\ stage[r] = "new" => results[r] = <<>>
        /\ stage[r] \notin {"new", "answered"} => Accepted(r)
        /\ results[r] # <<>> =>
             (results[r][1].error = "invalidConfig" <=>
                Body(r).text # "blank" /\ ~ServerAccepts(Body(r).overrides))

\* A run that wrote its trace, and has not been collected, is the last writer.
WritersAreReturned ==
    \A r \in Requests, n \in Nat : <<r, n>> \in written =>
        \/ /\ n \in DOMAIN results[r]
           /\ results[r][n].error = "none" /\ results[r][n].trace.run = <<r, n>>
        \/ /\ n = Len(results[r]) + 1 /\ stage[r] = "exited"
           /\ traceFile.content = "whole" /\ traceFile.run = <<r, n>>

\* A whole trace shows the configuration of the request whose run wrote it.
ShowsItsRequest(trace) ==
    trace.content = "whole" =>
        \E r \in Requests, n \in Nat \ {0} :
            /\ stage[r] # "new" /\ Accepted(r) /\ trace.run = <<r, n>>
            /\ trace.config = architectureConfig(Body(r).directives, Body(r).overrides)
TracesShowRequests ==
    /\ ShowsItsRequest(traceFile)
    /\ \A r \in Requests : \A n \in DOMAIN results[r] :
         /\ ShowsItsRequest(results[r][n].trace)
         /\ results[r][n].trace.content = "whole" \/ results[r][n].trace = Absent

ServerInv ==
    /\ ServerTypeOK /\ LockIsHeld /\ HandlersPath /\ FilesAreInUse /\ RunsAreAccepted
    /\ WritersAreReturned /\ TracesShowRequests

-----------------------------------------------------------------------------
(* The start                                                                 *)

LEMMA AbsentIsTrace == Absent \in Traces
BY DEF Absent, Traces, Contents, Runs, NoRun, Configs

LEMMA InitServer == ServerInit => ServerInv
<1> SUFFICES ASSUME ServerInit PROVE ServerInv
    OBVIOUS
<1>1. ServerTypeOK
    BY AbsentIsTrace DEF ServerInit, ServerTypeOK, Stages
<1>2. LockIsHeld /\ HandlersPath /\ FilesAreInUse
    BY DEF ServerInit, LockIsHeld, HandlersPath, FilesAreInUse, Inside
<1>3. RunsAreAccepted /\ WritersAreReturned
    BY DEF ServerInit, RunsAreAccepted, WritersAreReturned
<1>4. TracesShowRequests
    BY DEF ServerInit, TracesShowRequests, ShowsItsRequest, Absent
<1> QED
    BY <1>1, <1>2, <1>3, <1>4 DEF ServerInv

-----------------------------------------------------------------------------
(* What a step may do to each part of the invariant                          *)

\* A thread that moves on inside the lock, or stays outside.
LEMMA LockStays ==
    ASSUME ServerInv, NEW r \in Requests, NEW s,
           stage' = [stage EXCEPT ![r] = s], UNCHANGED <<call, run_lock>>,
           s \in Inside => stage[r] \in Inside,
           s \in {"checked", "cleaning"} => ~Compares(r),
           s = "holding" => Compares(r)
    PROVE  LockIsHeld' /\ HandlersPath'
<1>1. /\ stage'[r] = s /\ \A q \in Requests : q # r => stage'[q] = stage[q]
      /\ \A q \in Requests : Compares(q)' <=> Compares(q)
    BY DEF ServerInv, ServerTypeOK, Compares
<1> QED
    BY <1>1 DEF ServerInv, LockIsHeld, HandlersPath

\* A whole trace keeps showing its request: no call is taken back or replaced.
LEMMA TracesStayShown ==
    ASSUME \A q \in Requests : stage[q] # "new" => stage'[q] # "new" /\ call'[q] = call[q],
           NEW t, ShowsItsRequest(t)
    PROVE  ShowsItsRequest(t)'
<1>1. ASSUME NEW q \in Requests, stage[q] # "new", Accepted(q)
      PROVE  stage'[q] # "new" /\ Body(q)' = Body(q) /\ Accepted(q)'
    BY <1>1 DEF Accepted, Body
<1> QED
    BY <1>1 DEF ShowsItsRequest

\* A step that neither answers a run nor touches the trace.
LEMMA QuietMove ==
    ASSUME ServerInv, NEW r \in Requests, NEW s \in Stages \ {"new"},
           stage[r] \notin {"new", "answered", "exited"},
           stage' = [stage EXCEPT ![r] = s],
           UNCHANGED <<call, results, traceFile, written>>
    PROVE  RunsAreAccepted' /\ WritersAreReturned' /\ TracesShowRequests'
<1>1. /\ stage'[r] = s /\ \A q \in Requests : q # r => stage'[q] = stage[q]
      /\ \A q \in Requests : Body(q)' = Body(q) /\ (Accepted(q)' <=> Accepted(q))
    BY DEF ServerInv, ServerTypeOK, Body, Accepted
<1>2. RunsAreAccepted'
    BY <1>1 DEF ServerInv, RunsAreAccepted
<1>3. WritersAreReturned'
    BY <1>1 DEF ServerInv, WritersAreReturned
<1>4. \A q \in Requests : stage[q] # "new" => stage'[q] # "new" /\ call'[q] = call[q]
    BY <1>1
<1>5. TracesShowRequests'
    BY <1>4, TracesStayShown DEF ServerInv, TracesShowRequests
<1> QED
    BY <1>2, <1>3, <1>5

\* Appending to the results of one request.
LEMMA AddedFields ==
    ASSUME ServerTypeOK, NEW r \in Requests, NEW x \in RunResults, Add(r, x)
    PROVE  /\ results' \in [Requests -> Seq(RunResults)]
           /\ \A q \in Requests : q # r => results'[q] = results[q]
           /\ results'[r] # <<>>
           /\ \E m \in Nat :
                /\ m = Len(results[r]) /\ DOMAIN results[r] = 1 .. m
                /\ DOMAIN results'[r] = 1 .. m + 1
                /\ results[r] = <<>> <=> m = 0
                /\ \A n \in 1 .. m : results'[r][n] = results[r][n]
                /\ results'[r][m + 1] = x
<1>1. PICK before \in Seq(RunResults) : before = results[r]
    BY DEF ServerTypeOK
<1>2. results'[r] = Append(before, x) /\ \A q \in Requests : q # r => results'[q] = results[q]
    BY <1>1 DEF Add, ServerTypeOK
<1>3. /\ Append(before, x) \in Seq(RunResults) /\ Append(before, x) # <<>>
      /\ Len(before) \in Nat /\ DOMAIN before = 1 .. Len(before)
      /\ DOMAIN Append(before, x) = 1 .. Len(before) + 1
      /\ \A n \in 1 .. Len(before) : Append(before, x)[n] = before[n]
      /\ Append(before, x)[Len(before) + 1] = x
  <2>1. Len(Append(before, x)) = Len(before) + 1 /\ Len(before) \in Nat
      OBVIOUS
  <2> QED
      BY <2>1
<1>4. before = <<>> <=> Len(before) = 0
    BY <1>3
<1>5. results' \in [Requests -> Seq(RunResults)]
    BY <1>2, <1>3 DEF Add, ServerTypeOK
<1> QED
    BY <1>1, <1>2, <1>3, <1>4, <1>5

\* A step that answers a run of an accepted request.
LEMMA AnsweredRun ==
    ASSUME ServerInv, NEW r \in Requests, NEW x \in RunResults, NEW s \in Stages,
           stage[r] \notin {"new", "answered"}, s # "new",
           stage' = [stage EXCEPT ![r] = s], Add(r, x),
           UNCHANGED <<call, traceFile, written>>,
           x.error # "invalidConfig",
           x.trace = Absent \/ (x.trace.content = "whole" /\ ShowsItsRequest(x.trace)),
           CurrentRun(r) \in written => x.error = "none" /\ x.trace.run = CurrentRun(r)
    PROVE  RunsAreAccepted' /\ WritersAreReturned' /\ TracesShowRequests'
<1>1. /\ stage'[r] = s /\ \A q \in Requests : q # r => stage'[q] = stage[q]
      /\ \A q \in Requests : Body(q)' = Body(q) /\ (Accepted(q)' <=> Accepted(q))
    BY DEF ServerInv, ServerTypeOK, Body, Accepted
<1>2. PICK m \in Nat :
         /\ m = Len(results[r]) /\ DOMAIN results[r] = 1 .. m
         /\ DOMAIN results'[r] = 1 .. m + 1
         /\ results[r] = <<>> <=> m = 0
         /\ \A n \in 1 .. m : results'[r][n] = results[r][n]
         /\ results'[r][m + 1] = x
    BY AddedFields DEF ServerInv
<1>8. results'[r] # <<>> /\ \A q \in Requests : q # r => results'[q] = results[q]
    BY AddedFields DEF ServerInv
<1>3. Accepted(r)
    BY DEF ServerInv, RunsAreAccepted
<1>4. RunsAreAccepted'
  <2>1. results'[r][1].error = "invalidConfig"
            <=> Body(r).text # "blank" /\ ~ServerAccepts(Body(r).overrides)
    <3>1. CASE m = 0
      <4>1. results'[r][1] = x
          BY <1>2, <3>1
      <4> QED
          BY <1>3, <4>1 DEF Accepted
    <3>2. CASE m # 0
      <4>1. results'[r][1] = results[r][1] /\ results[r] # <<>>
          BY <1>2, <3>2
      <4> QED
          BY <4>1 DEF ServerInv, RunsAreAccepted
    <3> QED
        BY <3>1, <3>2
  <2>2. ASSUME NEW q \in Requests, q # r
        PROVE  /\ stage'[q] = "new" => results'[q] = <<>>
               /\ stage'[q] \notin {"new", "answered"} => Accepted(q)'
               /\ results'[q] # <<>> =>
                    (results'[q][1].error = "invalidConfig" <=>
                        Body(q).text # "blank" /\ ~ServerAccepts(Body(q).overrides))
      BY <1>1, <1>8, <2>2 DEF ServerInv, RunsAreAccepted
  <2> QED
      BY <1>1, <1>3, <2>1, <2>2 DEF RunsAreAccepted
<1>5. WritersAreReturned'
  <2> SUFFICES ASSUME NEW q \in Requests, NEW n \in Nat, <<q, n>> \in written
               PROVE  \/ /\ n \in DOMAIN results'[q]
                         /\ results'[q][n].error = "none"
                         /\ results'[q][n].trace.run = <<q, n>>
                      \/ /\ n = Len(results'[q]) + 1 /\ stage'[q] = "exited"
                         /\ traceFile'.content = "whole" /\ traceFile'.run = <<q, n>>
      BY DEF WritersAreReturned
  <2>1. CASE q # r
      BY <1>1, <1>8, <2>1 DEF ServerInv, WritersAreReturned
  <2>2. CASE q = r /\ n \in DOMAIN results[r]
    <3>1. /\ n \in DOMAIN results'[r] /\ results'[r][n] = results[r][n]
          /\ n # m + 1
        BY <1>2, <2>2
    <3> QED
        BY <1>2, <2>2, <3>1 DEF ServerInv, WritersAreReturned
  <2>3. CASE q = r /\ n \notin DOMAIN results[r]
    <3>1. n = m + 1
        BY <1>2, <2>3 DEF ServerInv, WritersAreReturned
    <3>2. n \in DOMAIN results'[r] /\ results'[r][n] = x /\ CurrentRun(r) = <<q, n>>
        BY <1>2, <2>3, <3>1 DEF CurrentRun
    <3> QED
        BY <2>3, <3>2
  <2> QED
      BY <2>1, <2>2, <2>3
<1>6. \A q \in Requests : stage[q] # "new" => stage'[q] # "new" /\ call'[q] = call[q]
    BY <1>1
<1>7. TracesShowRequests'
  <2>1. \A t : ShowsItsRequest(t) => ShowsItsRequest(t)'
      BY <1>6, TracesStayShown
  <2>2. ShowsItsRequest(traceFile)'
      BY <2>1 DEF ServerInv, TracesShowRequests
  <2>3. ASSUME NEW q \in Requests, NEW n \in DOMAIN results'[q]
        PROVE  \E t : /\ t = results'[q][n].trace /\ ShowsItsRequest(t)'
                      /\ t.content = "whole" \/ t = Absent
    <3>1. CASE q = r /\ n = m + 1
      <4>1. ShowsItsRequest(x.trace)
          BY DEF ShowsItsRequest, Absent
      <4> QED
          BY <1>2, <2>1, <3>1, <4>1
    <3>2. CASE ~(q = r /\ n = m + 1)
      <4>1. n \in DOMAIN results[q] /\ results'[q][n] = results[q][n]
          BY <1>2, <1>8, <3>2
      <4>2. /\ ShowsItsRequest(results[q][n].trace)
            /\ results[q][n].trace.content = "whole" \/ results[q][n].trace = Absent
          BY <4>1 DEF ServerInv, TracesShowRequests
      <4> QED
          BY <2>1, <4>1, <4>2
    <3> QED
        BY <3>1, <3>2
  <2> QED
      BY <2>2, <2>3 DEF TracesShowRequests
<1> QED
    BY <1>4, <1>5, <1>7

\* The run of a request inside the lock has the number after its last result's.
LEMMA CurrentRunIsFresh ==
    ASSUME ServerInv, NEW r \in Requests
    PROVE  /\ CurrentRun(r) \in Runs /\ Len(results[r]) \in Nat
           /\ CurrentRun(r) = <<r, Len(results[r]) + 1>>
           /\ stage[r] # "exited" => CurrentRun(r) \notin written
<1>1. results[r] \in Seq(RunResults)
    BY DEF ServerInv, ServerTypeOK
<1>2. Len(results[r]) \in Nat /\ DOMAIN results[r] = 1 .. Len(results[r])
    BY <1>1
<1> QED
    BY <1>2 DEF ServerInv, WritersAreReturned, CurrentRun, Runs

\* What a run may leave in the file.
LEMMA WrittenTraces ==
    ASSUME ServerInv, NEW r \in Requests, stage[r] # "new"
    PROVE  /\ Partial(CurrentRun(r)) \in Traces /\ TraceOf(r) \in Traces
           /\ Partial(CurrentRun(r)).content = "partial"
           /\ Partial(CurrentRun(r)).run = CurrentRun(r)
           /\ TraceOf(r).content = "whole" /\ TraceOf(r).run = CurrentRun(r)
           /\ TraceOf(r).config = architectureConfig(Body(r).directives, Body(r).overrides)
<1>1. CurrentRun(r) \in Runs
    BY CurrentRunIsFresh
<1>2. Body(r) \in Bodies
    BY DEF ServerInv, ServerTypeOK, Calls, Body
<1>3. /\ architectureConfig(Body(r).directives, Body(r).overrides) \in Configs
      /\ DefaultConfig \in Configs
    BY <1>2 DEF Configs
<1> QED
    BY <1>1, <1>3 DEF Partial, TraceOf, Traces, Contents

\* A step of a run's process that changes the file, alone inside the lock.
LEMMA TraceMove ==
    ASSUME ServerInv, NEW r \in Requests, NEW s \in Stages \ {"new"},
           stage[r] \in {"running", "writing"},
           stage' = [stage EXCEPT ![r] = s], UNCHANGED <<call, results>>,
           traceFile' \in {Partial(CurrentRun(r)), TraceOf(r)},
           \/ written' = written
           \/ /\ written' = written \cup {CurrentRun(r)}
              /\ s = "exited" /\ traceFile' = TraceOf(r)
    PROVE  /\ traceFile' \in Traces
           /\ RunsAreAccepted' /\ WritersAreReturned' /\ TracesShowRequests'
<1>1. /\ stage'[r] = s /\ \A q \in Requests : q # r => stage'[q] = stage[q]
      /\ \A q \in Requests : Body(q)' = Body(q) /\ (Accepted(q)' <=> Accepted(q))
    BY DEF ServerInv, ServerTypeOK, Body, Accepted
<1>2. traceFile' \in Traces
    BY WrittenTraces
<1>3. RunsAreAccepted'
    BY <1>1 DEF ServerInv, RunsAreAccepted
<1>4. \A q \in Requests : stage[q] # "exited"
    BY DEF ServerInv, LockIsHeld, Inside
<1>5. ASSUME NEW q \in Requests, NEW n \in Nat, <<q, n>> \in written
      PROVE  /\ n \in DOMAIN results[q]
             /\ results[q][n].error = "none" /\ results[q][n].trace.run = <<q, n>>
    BY <1>4, <1>5 DEF ServerInv, WritersAreReturned
<1>6. ASSUME NEW q \in Requests, NEW n \in Nat, <<q, n>> = CurrentRun(r),
             s = "exited", traceFile' = TraceOf(r)
      PROVE  /\ n = Len(results[q]) + 1 /\ stage'[q] = "exited"
             /\ traceFile'.content = "whole" /\ traceFile'.run = <<q, n>>
    BY <1>1, <1>6, WrittenTraces DEF CurrentRun
<1>7. WritersAreReturned'
    BY <1>5, <1>6 DEF WritersAreReturned
<1>8. \A q \in Requests : stage[q] # "new" => stage'[q] # "new" /\ call'[q] = call[q]
    BY <1>1
<1>9. \A t : ShowsItsRequest(t) => ShowsItsRequest(t)'
    BY <1>8, TracesStayShown
<1>10. ShowsItsRequest(traceFile)'
  <2>1. ShowsItsRequest(TraceOf(r)) /\ ShowsItsRequest(Partial(CurrentRun(r)))
    <3>1. Accepted(r) /\ stage[r] # "new"
        BY DEF ServerInv, RunsAreAccepted
    <3>2. /\ TraceOf(r).run = <<r, Len(results[r]) + 1>>
          /\ Len(results[r]) + 1 \in Nat \ {0}
        BY <3>1, WrittenTraces, CurrentRunIsFresh
    <3> QED
        BY <3>1, <3>2, WrittenTraces DEF ShowsItsRequest
  <2>2. PICK t : t = traceFile' /\ ShowsItsRequest(t)
      BY <2>1
  <2> QED
      BY <1>9, <2>2
<1>11. TracesShowRequests'
    BY <1>9, <1>10 DEF ServerInv, TracesShowRequests
<1> QED
    BY <1>2, <1>3, <1>7, <1>11

-----------------------------------------------------------------------------
(* The handlers' steps                                                       *)

LEMMA ReceiveKeeps ==
    ASSUME ServerInv, NEW r \in Requests, Receive(r) PROVE ServerInv'
<1>1. PICK body \in Bodies, handler \in {"run_simulation", "compare_predictors"} :
         /\ call' = [call EXCEPT ![r] = [body |-> body, handler |-> handler]]
         /\ \/ body.text = "blank" /\ Answer(r, "badRequest")
            \/ /\ body.text # "blank" /\ ~ServerAccepts(body.overrides)
               /\ Answer(r, "invalidConfig")
            \/ /\ body.text # "blank" /\ ServerAccepts(body.overrides)
               /\ IF ~simulatorBuilt THEN Answer(r, "noSimulator")
                  ELSE /\ To(r, IF handler = "run_simulation" THEN "checked" ELSE "waiting")
                       /\ UNCHANGED results
    BY DEF Receive
<1>2. /\ stage[r] = "new" /\ results[r] = <<>>
      /\ UNCHANGED <<run_lock, tempFiles, traceFile, written>>
    BY DEF Receive, ServerInv, RunsAreAccepted
<1>3. /\ call'[r].body = body /\ call'[r].handler = handler /\ call'[r] \in Calls
      /\ DOMAIN call' = Requests
      /\ \A q \in Requests : q # r => call'[q] = call[q]
    BY <1>1 DEF ServerInv, ServerTypeOK, Calls
<1>4. PICK s \in {"checked", "waiting", "answered"} :
         /\ stage' = [stage EXCEPT ![r] = s]
         /\ s = "checked" => handler = "run_simulation"
         /\ s # "answered" =>
              body.text # "blank" /\ ServerAccepts(body.overrides) /\ results' = results
    BY <1>1, <1>2 DEF Answer, To
<1>5. /\ stage'[r] = s /\ \A q \in Requests : q # r => stage'[q] = stage[q]
      /\ s \in Stages /\ s # "new"
    BY <1>4 DEF ServerInv, ServerTypeOK, Stages
<1>6. PICK x \in RunResults :
         /\ x.trace = Absent
         /\ s = "answered" =>
              /\ Add(r, x)
              /\ x.error = "invalidConfig"
                   <=> body.text # "blank" /\ ~ServerAccepts(body.overrides)
  <2>1. \A error \in Errors : /\ Result(error) \in RunResults
                              /\ Result(error).trace = Absent /\ Result(error).error = error
      BY AbsentIsTrace DEF Result, RunResults
  <2>2. CASE s # "answered"
      BY <2>1, <2>2 DEF Errors
  <2>3. CASE s = "answered"
    <3>1. PICK error \in Errors :
             /\ Add(r, Result(error))
             /\ error = "invalidConfig" <=> body.text # "blank" /\ ~ServerAccepts(body.overrides)
        BY <1>1, <1>4, <1>5, <2>3 DEF Answer, To, Errors, ServerInv, ServerTypeOK
    <3> QED
        BY <2>1, <3>1
  <2> QED
      BY <2>2, <2>3
<1>7. /\ results' \in [Requests -> Seq(RunResults)]
      /\ \A q \in Requests : q # r => results'[q] = results[q]
      /\ s # "answered" => results'[r] = <<>>
      /\ s = "answered" => /\ results'[r] # <<>> /\ DOMAIN results'[r] = {1}
                           /\ results'[r][1] = x
  <2>1. CASE s # "answered"
      BY <1>2, <1>4, <2>1 DEF ServerInv, ServerTypeOK
  <2>2. CASE s = "answered"
    <3>1. /\ results' \in [Requests -> Seq(RunResults)]
          /\ \A q \in Requests : q # r => results'[q] = results[q]
          /\ results'[r] # <<>>
          /\ \E m \in Nat : /\ m = Len(results[r])
                            /\ DOMAIN results'[r] = 1 .. m + 1 /\ results'[r][m + 1] = x
        BY <1>6, <2>2, AddedFields DEF ServerInv
    <3>2. Len(results[r]) = 0
        BY <1>2
    <3>3. DOMAIN results'[r] = 1 .. 1 /\ results'[r][1] = x
        BY <3>1, <3>2
    <3> QED
        BY <2>2, <3>1, <3>3
  <2> QED
      BY <2>1, <2>2
<1>8. ServerTypeOK'
    BY <1>2, <1>3, <1>4, <1>5, <1>7 DEF ServerInv, ServerTypeOK
<1>9. LockIsHeld' /\ HandlersPath' /\ FilesAreInUse'
  <2>1. r \notin tempFiles
      BY <1>2 DEF ServerInv, FilesAreInUse
  <2>2. \A q \in Requests : q # r => (Compares(q)' <=> Compares(q))
      BY <1>3 DEF Compares
  <2>3. \A q \in Requests : q # r => (WriteFailed(q)' <=> WriteFailed(q))
      BY <1>7 DEF WriteFailed
  <2>4. FilesAreInUse'
      BY <1>2, <1>5, <2>1, <2>2, <2>3 DEF ServerInv, ServerTypeOK, FilesAreInUse
  <2> QED
      BY <1>2, <1>3, <1>4, <1>5, <2>4 DEF ServerInv, LockIsHeld, HandlersPath, Compares, Inside
<1>10. RunsAreAccepted'
  <2>1. ASSUME NEW q \in Requests, q # r
        PROVE  Body(q)' = Body(q) /\ (Accepted(q)' <=> Accepted(q))
      BY <1>3, <2>1 DEF Body, Accepted
  <2>2. Body(r)' = body /\ (Accepted(r)' <=> body.text # "blank" /\ ServerAccepts(body.overrides))
      BY <1>3 DEF Body, Accepted
  <2> QED
      BY <1>4, <1>5, <1>6, <1>7, <2>1, <2>2 DEF ServerInv, RunsAreAccepted
<1>11. WritersAreReturned'
  <2>1. ASSUME NEW n \in Nat PROVE <<r, n>> \notin written
    <3>1. DOMAIN results[r] = {}
        BY <1>2
    <3> QED
        BY <1>2, <3>1 DEF ServerInv, WritersAreReturned
  <2> QED
      BY <1>2, <1>5, <1>7, <2>1 DEF ServerInv, WritersAreReturned
<1>12. TracesShowRequests'
  <2>1. \A t : ShowsItsRequest(t) => ShowsItsRequest(t)'
      BY <1>2, <1>3, <1>5, TracesStayShown
  <2>2. ShowsItsRequest(Absent)
      BY DEF ShowsItsRequest, Absent
  <2>3. ASSUME NEW q \in Requests, NEW n \in DOMAIN results'[q]
        PROVE  \E t : /\ t = results'[q][n].trace /\ ShowsItsRequest(t)'
                      /\ t.content = "whole" \/ t = Absent
    <3>1. CASE q = r
        BY <1>6, <1>7, <2>1, <2>2, <3>1
    <3>2. CASE q # r
      <4>1. n \in DOMAIN results[q] /\ results'[q][n] = results[q][n]
          BY <1>7, <3>2
      <4> QED
          BY <2>1, <4>1 DEF ServerInv, TracesShowRequests
    <3> QED
        BY <3>1, <3>2
  <2>4. ShowsItsRequest(traceFile)'
      BY <1>2, <2>1 DEF ServerInv, TracesShowRequests
  <2> QED
      BY <2>3, <2>4 DEF TracesShowRequests
<1> QED
    BY <1>8, <1>9, <1>10, <1>11, <1>12 DEF ServerInv

\* A thread that writes its program, asks for the lock, or ends.
LEMMA QuietHandlersKeep ==
    ASSUME ServerInv, NEW r \in Requests,
           WriteProgram(r) \/ Acquire(r) \/ Leave(r) \/ Unlink(r)
    PROVE  ServerInv'
<1>1. /\ UNCHANGED <<call, results, traceFile, written>>
      /\ stage[r] \in {"checked", "holding", "waiting", "leaving", "cleaning"}
    BY DEF WriteProgram, Acquire, Leave, Unlink
<1>2. PICK s \in {"waiting", "ready", "holding", "answered", "cleaning"} :
         stage' = [stage EXCEPT ![r] = s]
    BY DEF WriteProgram, Acquire, Leave, Unlink, To
<1>3. /\ stage'[r] = s /\ \A q \in Requests : q # r => stage'[q] = stage[q]
      /\ s \in Stages \ {"new"} /\ stage' \in [Requests -> Stages]
      /\ \A q \in Requests : Compares(q)' <=> Compares(q)
    BY <1>1, <1>2 DEF ServerInv, ServerTypeOK, Stages, Compares
<1>4. RunsAreAccepted' /\ WritersAreReturned' /\ TracesShowRequests'
    BY <1>1, <1>2, <1>3, QuietMove
<1>5. ServerTypeOK'
  <2>1. tempFiles' \subseteq Requests
      BY DEF WriteProgram, Acquire, Leave, Unlink, ServerInv, ServerTypeOK
  <2> QED
      BY <1>1, <1>2, <1>3, <2>1 DEF ServerInv, ServerTypeOK
<1>6. LockIsHeld' /\ HandlersPath' /\ FilesAreInUse'
  <2>1. CASE WriteProgram(r)
      BY <1>1, <1>3, <2>1 DEF WriteProgram, To, ServerInv, ServerTypeOK, LockIsHeld,
         HandlersPath, FilesAreInUse, WriteFailed, Inside
  <2>2. CASE Acquire(r)
    <3>1. \A q \in Requests : stage[q] \notin Inside
        BY <2>2, NoRequestAssumption DEF Acquire, LockFree, ServerInv, LockIsHeld
    <3> QED
        BY <1>1, <1>3, <2>2, <3>1 DEF Acquire, To, ServerInv, ServerTypeOK, LockIsHeld,
           HandlersPath, FilesAreInUse, WriteFailed, Inside
  <2>3. CASE Leave(r)
    <3>1. \A q \in Requests : q # r => stage[q] \notin Inside
        BY <2>3 DEF Leave, ServerInv, LockIsHeld, Inside
    <3> QED
        BY <1>1, <1>3, <2>3, <3>1 DEF Leave, To, ServerInv, ServerTypeOK, LockIsHeld,
           HandlersPath, FilesAreInUse, WriteFailed, Inside
  <2>4. CASE Unlink(r)
      BY <1>1, <1>3, <2>4 DEF Unlink, To, ServerInv, ServerTypeOK, LockIsHeld,
         HandlersPath, FilesAreInUse, WriteFailed, Inside
  <2> QED
      BY <2>1, <2>2, <2>3, <2>4
<1> QED
    BY <1>4, <1>5, <1>6 DEF ServerInv

\* A program that could not be written: the request is over, its file may be left.
LEMMA FailedWriteKeeps ==
    ASSUME ServerInv, NEW r \in Requests, WriteProgramFails(r) PROVE ServerInv'
<1> DEFINE x == Result("notWritten")
<1> DEFINE s == IF stage[r] = "checked" THEN "answered" ELSE "leaving"
<1>1. /\ stage[r] \in {"checked", "holding"} /\ tempFiles' \in {tempFiles, tempFiles \cup {r}}
      /\ Add(r, x) /\ stage' = [stage EXCEPT ![r] = s]
      /\ UNCHANGED <<call, run_lock, traceFile, written>>
    BY DEF WriteProgramFails, To
<1>2. x \in RunResults /\ x.error = "notWritten" /\ x.trace = Absent
    BY AbsentIsTrace DEF Result, RunResults, Errors
<1>3. s \in {"answered", "leaving"} /\ (s = "leaving" <=> stage[r] # "checked")
    OBVIOUS
<1> HIDE DEF x, s
<1>4. RunsAreAccepted' /\ WritersAreReturned' /\ TracesShowRequests'
  <2>1. CurrentRun(r) \notin written
      BY <1>1, CurrentRunIsFresh
  <2>2. s \in Stages /\ s # "new"
      BY <1>3 DEF Stages
  <2> QED
      BY <1>1, <1>2, <2>1, <2>2, AnsweredRun
<1>5. LockIsHeld' /\ HandlersPath'
    BY <1>1, <1>3, LockStays DEF Inside
<1>6. /\ results' \in [Requests -> Seq(RunResults)]
      /\ \A q \in Requests : q # r => results'[q] = results[q]
      /\ \E n \in DOMAIN results'[r] : results'[r][n] = x
  <2>1. /\ results' \in [Requests -> Seq(RunResults)]
        /\ \A q \in Requests : q # r => results'[q] = results[q]
      BY <1>1, <1>2, AddedFields DEF ServerInv
  <2>2. PICK m \in Nat : DOMAIN results'[r] = 1 .. m + 1 /\ results'[r][m + 1] = x
      BY <1>1, <1>2, AddedFields DEF ServerInv
  <2>3. m + 1 \in 1 .. m + 1
      OBVIOUS
  <2> QED
      BY <2>1, <2>2, <2>3
<1>7. /\ stage' \in [Requests -> Stages] /\ stage'[r] = s
      /\ \A q \in Requests : q # r => stage'[q] = stage[q]
    BY <1>1, <1>3 DEF ServerInv, ServerTypeOK, Stages
<1>8. FilesAreInUse'
  <2>1. WriteFailed(r)'
      BY <1>2, <1>6 DEF WriteFailed
  <2>2. \A q \in Requests : Compares(q)' <=> Compares(q)
      BY <1>1 DEF Compares
  <2>3. \A q \in Requests : q # r => (WriteFailed(q)' <=> WriteFailed(q))
      BY <1>6 DEF WriteFailed
  <2> QED
      BY <1>1, <1>3, <1>7, <2>1, <2>2, <2>3 DEF ServerInv, ServerTypeOK, FilesAreInUse
<1>9. ServerTypeOK'
    BY <1>1, <1>6, <1>7 DEF ServerInv, ServerTypeOK
<1> QED
    BY <1>4, <1>5, <1>8, <1>9 DEF ServerInv

\* What a run is answered with, once its process has ended.
LEMMA RunResultFields ==
    ASSUME ServerInv, NEW r \in Requests, stage[r] \in {"failed", "timedOut", "exited"}
    PROVE  /\ RunResult(r) \in RunResults /\ RunResult(r).error # "invalidConfig"
           /\ \/ RunResult(r).trace = Absent
              \/ /\ RunResult(r).trace.content = "whole"
                 /\ ShowsItsRequest(RunResult(r).trace)
           /\ CurrentRun(r) \in written =>
                RunResult(r).error = "none" /\ RunResult(r).trace.run = CurrentRun(r)
           /\ RunResult(r).error = "none" =>
                stage[r] = "exited" /\ RunResult(r).trace = traceFile
<1>1. \A error \in Errors : /\ Result(error) \in RunResults
                            /\ Result(error).trace = Absent /\ Result(error).error = error
    BY AbsentIsTrace DEF Result, RunResults
<1>2. traceFile \in Traces /\ traceFile.content \in Contents /\ ShowsItsRequest(traceFile)
    BY DEF ServerInv, ServerTypeOK, Traces, TracesShowRequests
<1>3. CASE stage[r] = "exited" /\ traceFile.content = "whole"
  <2>1. RunResult(r) = [error |-> "none", trace |-> traceFile]
      BY <1>3 DEF RunResult
  <2>2. CurrentRun(r) \in written => traceFile.run = CurrentRun(r)
    <3>1. /\ CurrentRun(r) = <<r, Len(results[r]) + 1>> /\ Len(results[r]) + 1 \in Nat
          /\ Len(results[r]) + 1 \notin DOMAIN results[r]
      <4>1. results[r] \in Seq(RunResults)
          BY DEF ServerInv, ServerTypeOK
      <4> QED
          BY <4>1, CurrentRunIsFresh
    <3> QED
        BY <3>1 DEF ServerInv, WritersAreReturned
  <2> QED
      BY <1>2, <1>3, <2>1, <2>2 DEF RunResults, Errors
<1>4. CASE ~(stage[r] = "exited" /\ traceFile.content = "whole")
  <2>1. RunResult(r) \in {Result("failed"), Result("timeout"), Result("noTrace"),
                          Result("notJSON")}
      BY <1>2, <1>4 DEF RunResult, Contents
  <2>2. CurrentRun(r) \notin written
    <3>1. /\ CurrentRun(r) = <<r, Len(results[r]) + 1>> /\ Len(results[r]) + 1 \in Nat
          /\ Len(results[r]) + 1 \notin DOMAIN results[r]
      <4>1. results[r] \in Seq(RunResults)
          BY DEF ServerInv, ServerTypeOK
      <4> QED
          BY <4>1, CurrentRunIsFresh
    <3> QED
        BY <1>4, <3>1 DEF ServerInv, WritersAreReturned
  <2> QED
      BY <1>1, <2>1, <2>2 DEF Errors
<1> QED
    BY <1>3, <1>4

LEMMA CollectKeeps ==
    ASSUME ServerInv, NEW r \in Requests, Collect(r) PROVE ServerInv'
<1> DEFINE s == IF Compares(r) /\ Len(results[r]) + 1 < Predictors THEN "holding" ELSE "leaving"
<1>1. /\ stage[r] \in {"failed", "timedOut", "exited"}
      /\ Add(r, RunResult(r)) /\ tempFiles' = FilesAfterRun(r)
      /\ stage' = [stage EXCEPT ![r] = s]
      /\ UNCHANGED <<call, run_lock, traceFile, written>>
    BY DEF Collect, To
<1>2. s \in {"holding", "leaving"} /\ (s = "holding" => Compares(r))
    OBVIOUS
<1> HIDE DEF s
<1>3. RunsAreAccepted' /\ WritersAreReturned' /\ TracesShowRequests'
    BY <1>1, <1>2, RunResultFields, AnsweredRun DEF Stages
<1>4. LockIsHeld' /\ HandlersPath'
    BY <1>1, <1>2, LockStays DEF Inside
<1>5. FilesAreInUse'
  <2>1. /\ \A q \in Requests : q # r => results'[q] = results[q]
        /\ \A q \in Requests : q # r => stage'[q] = stage[q]
        /\ \A q \in Requests : Compares(q)' <=> Compares(q)
      BY <1>1, RunResultFields, AddedFields DEF ServerInv, ServerTypeOK, Compares
  <2>2. \A q \in Requests : q # r => (WriteFailed(q)' <=> WriteFailed(q))
      BY <2>1 DEF WriteFailed
  <2>3. stage'[r] \in {"holding", "leaving"} /\ (r \in tempFiles' => ~Compares(r))
      BY <1>1, <1>2 DEF FilesAfterRun, ServerInv, ServerTypeOK
  <2>4. tempFiles' \subseteq tempFiles /\ (stage'[r] = "holding" => Compares(r))
      BY <1>1, <1>2 DEF FilesAfterRun, ServerInv, ServerTypeOK
  <2> QED
      BY <2>1, <2>2, <2>3, <2>4 DEF ServerInv, ServerTypeOK, FilesAreInUse
<1>6. ServerTypeOK'
  <2>1. results' \in [Requests -> Seq(RunResults)]
      BY <1>1, RunResultFields, AddedFields DEF ServerInv
  <2>2. stage' \in [Requests -> Stages] /\ \A q \in Requests : stage'[q] # "new" => stage[q] # "new"
      BY <1>1, <1>2 DEF ServerInv, ServerTypeOK, Stages
  <2>3. tempFiles' \subseteq Requests
      BY <1>1 DEF FilesAfterRun, ServerInv, ServerTypeOK
  <2> QED
      BY <1>1, <2>1, <2>2, <2>3 DEF ServerInv, ServerTypeOK
<1> QED
    BY <1>3, <1>4, <1>5, <1>6 DEF ServerInv

LEMMA StartSimulatorKeeps ==
    ASSUME ServerInv, NEW r \in Requests, StartSimulator(r) PROVE ServerInv'
<1>1. stage[r] = "ready" /\ UNCHANGED <<call, run_lock, traceFile, written>>
    BY DEF StartSimulator
<1>2. CASE simulatorBuilt
  <2>1. stage' = [stage EXCEPT ![r] = "running"] /\ UNCHANGED <<results, tempFiles>>
      BY <1>2 DEF StartSimulator, To
  <2>2. "running" \in Stages
      BY DEF Stages
  <2>3. RunsAreAccepted' /\ WritersAreReturned' /\ TracesShowRequests'
      BY <1>1, <2>1, <2>2, QuietMove
  <2>4. LockIsHeld' /\ HandlersPath'
      BY <1>1, <2>1, LockStays DEF Inside
  <2>5. FilesAreInUse' /\ ServerTypeOK'
      BY <1>1, <2>1, <2>2 DEF ServerInv, ServerTypeOK, FilesAreInUse, WriteFailed, Compares
  <2> QED
      BY <2>3, <2>4, <2>5 DEF ServerInv
<1>3. CASE ~simulatorBuilt
  <2> DEFINE x == Result(IF Compares(r) THEN "serverError" ELSE "noTrace")
  <2>1. /\ stage' = [stage EXCEPT ![r] = "leaving"] /\ Add(r, x)
        /\ tempFiles' = FilesAfterRun(r)
      BY <1>3 DEF StartSimulator, To
  <2>2. x \in RunResults /\ x.error # "invalidConfig" /\ x.trace = Absent
      BY AbsentIsTrace DEF Result, RunResults, Errors
  <2> HIDE DEF x
  <2>3. "leaving" \in Stages
      BY DEF Stages
  <2>4. CurrentRun(r) \notin written
      BY <1>1, CurrentRunIsFresh
  <2>5. RunsAreAccepted' /\ WritersAreReturned' /\ TracesShowRequests'
      BY <1>1, <2>1, <2>2, <2>3, <2>4, AnsweredRun
  <2>6. LockIsHeld' /\ HandlersPath'
      BY <1>1, <2>1, LockStays DEF Inside
  <2>7. results' \in [Requests -> Seq(RunResults)]
      BY <2>1, <2>2, AddedFields DEF ServerInv
  <2>8. FilesAreInUse'
    <3>1. /\ \A q \in Requests : q # r => results'[q] = results[q]
          /\ \A q \in Requests : q # r => stage'[q] = stage[q]
          /\ \A q \in Requests : Compares(q)' <=> Compares(q)
        BY <1>1, <2>1, <2>2, AddedFields DEF ServerInv, ServerTypeOK, Compares
    <3>2. \A q \in Requests : q # r => (WriteFailed(q)' <=> WriteFailed(q))
        BY <3>1 DEF WriteFailed
    <3>3. stage'[r] = "leaving" /\ (r \in tempFiles' => ~Compares(r))
        BY <2>1 DEF FilesAfterRun, ServerInv, ServerTypeOK
    <3>4. tempFiles' \subseteq tempFiles
        BY <2>1 DEF FilesAfterRun
    <3> QED
        BY <3>1, <3>2, <3>3, <3>4 DEF ServerInv, ServerTypeOK, FilesAreInUse
  <2>9. stage' \in [Requests -> Stages] /\ tempFiles' \subseteq Requests
      BY <2>1, <2>3 DEF FilesAfterRun, ServerInv, ServerTypeOK
  <2>10. ServerTypeOK'
      BY <1>1, <2>1, <2>7, <2>9 DEF ServerInv, ServerTypeOK
  <2> QED
      BY <2>5, <2>6, <2>8, <2>10 DEF ServerInv
<1> QED
    BY <1>2, <1>3

-----------------------------------------------------------------------------
(* The processes' steps                                                      *)

LEMMA SimulateKeeps ==
    ASSUME ServerInv, NEW r \in Requests, Simulate(r) PROVE ServerInv'
<1>1. /\ stage[r] \in {"running", "writing"}
      /\ UNCHANGED <<call, results, run_lock, tempFiles>>
    BY DEF Simulate, Fail, OpenTrace, CannotOpenTrace, WriteTrace, WriteFails, Timeout,
       FinishesLoop
<1>2. PICK s \in {"failed", "writing", "exited", "timedOut"} :
         /\ stage' = [stage EXCEPT ![r] = s]
         /\ \/ UNCHANGED <<traceFile, written>>
            \/ /\ traceFile' \in {Partial(CurrentRun(r)), TraceOf(r)}
               /\ \/ written' = written
                  \/ /\ written' = written \cup {CurrentRun(r)}
                     /\ s = "exited" /\ traceFile' = TraceOf(r)
    BY DEF Simulate, Fail, OpenTrace, CannotOpenTrace, WriteTrace, WriteFails, Timeout, To
<1>3. s \in Stages \ {"new"} /\ stage' \in [Requests -> Stages]
    BY <1>2 DEF ServerInv, ServerTypeOK, Stages
<1>4. /\ traceFile' \in Traces
      /\ RunsAreAccepted' /\ WritersAreReturned' /\ TracesShowRequests'
    BY <1>1, <1>2, <1>3, QuietMove, TraceMove DEF ServerInv, ServerTypeOK
<1>5. LockIsHeld' /\ HandlersPath'
    BY <1>1, <1>2, LockStays DEF Inside
<1>6. FilesAreInUse'
  <2>1. \A q \in Requests : (Compares(q)' <=> Compares(q)) /\ (WriteFailed(q)' <=> WriteFailed(q))
      BY <1>1 DEF Compares, WriteFailed
  <2>2. /\ stage'[r] = s /\ \A q \in Requests : q # r => stage'[q] = stage[q]
      BY <1>2 DEF ServerInv, ServerTypeOK
  <2> QED
      BY <1>1, <1>2, <2>1, <2>2 DEF ServerInv, ServerTypeOK, FilesAreInUse
<1>7. ServerTypeOK'
    BY <1>1, <1>2, <1>3, <1>4 DEF ServerInv, ServerTypeOK
<1> QED
    BY <1>4, <1>5, <1>6, <1>7 DEF ServerInv

LEMMA ServerSteps == ServerInv /\ [ServerNext]_serverVars => ServerInv'
<1> SUFFICES ASSUME ServerInv, [ServerNext]_serverVars PROVE ServerInv'
    OBVIOUS
<1>1. CASE \/ Rebuild \/ UNCHANGED serverVars
  <2>1. UNCHANGED <<stage, call, results, run_lock, tempFiles, traceFile, written>>
      BY <1>1 DEF Rebuild, serverVars
  <2>2. ServerTypeOK' /\ LockIsHeld' /\ HandlersPath' /\ FilesAreInUse'
      BY <2>1 DEF ServerInv, ServerTypeOK, LockIsHeld, HandlersPath, FilesAreInUse,
         WriteFailed, Compares
  <2>3. RunsAreAccepted'
      BY <2>1 DEF ServerInv, RunsAreAccepted, Accepted, Body
  <2>4. WritersAreReturned'
      BY <2>1 DEF ServerInv, WritersAreReturned
  <2>5. TracesShowRequests'
      BY <2>1, TracesStayShown DEF ServerInv, TracesShowRequests
  <2> QED
      BY <2>2, <2>3, <2>4, <2>5 DEF ServerInv
<1>2. ASSUME NEW r \in Requests, Receive(r) \/ Handle(r) \/ Simulate(r) PROVE ServerInv'
    BY <1>2, ReceiveKeeps, QuietHandlersKeep, FailedWriteKeeps, CollectKeeps,
       StartSimulatorKeeps, SimulateKeeps
    DEF Handle
<1> QED
    BY <1>1, <1>2 DEF ServerNext

-----------------------------------------------------------------------------
(* Theorems                                                                  *)

(***************************************************************************)
(* For any number of threads, of runs in a comparison and of bodies, and     *)
(* however their steps interleave: a run that wrote its trace is answered    *)
(* with that trace (run_lock, subprocess.run, the reading of trace.json).    *)
(***************************************************************************)
THEOREM TracesReturned == ServerSpec => []WrittenTracesAreReturned
<1>1. ServerInv => WrittenTracesAreReturned
  <2> SUFFICES ASSUME ServerInv, NEW r \in Requests, NEW n \in DOMAIN results[r],
                      <<r, n>> \in written
               PROVE  results[r][n].error = "none" /\ results[r][n].trace.run = <<r, n>>
      BY DEF WrittenTracesAreReturned
  <2>1. results[r] \in Seq(RunResults)
      BY DEF ServerInv, ServerTypeOK
  <2>2. n \in Nat /\ n # Len(results[r]) + 1
      BY <2>1
  <2> QED
      BY <2>2 DEF ServerInv, WritersAreReturned
<1> QED
    BY <1>1, InitServer, ServerSteps, PTL DEF ServerSpec

(***************************************************************************)
(* Whatever the program's directives and the request's overrides are: the    *)
(* server rejects exactly what the simulator would have, and a trace shows   *)
(* the overrides that were asked for (ARCHITECTURE_CONFIG_RANGES,            *)
(* configRanges, main).                                                      *)
(***************************************************************************)
THEOREM ConfigurationUsed == ServerSpec => []RequestedConfigurationIsUsed
<1>1. \A overrides : ServerAccepts(overrides) <=> SimulatorAccepts(overrides)
  <2>1. ARCHITECTURE_CONFIG_RANGES = configRanges
      BY DEF ARCHITECTURE_CONFIG_RANGES, configRanges, RsCapacities, UnitCounts,
         PipelineDepths, OpLatencies, L1DKeys, Keys
  <2> QED
      BY <2>1 DEF ServerAccepts, SimulatorAccepts
<1>2. ServerInv => RequestedConfigurationIsUsed
  <2> SUFFICES ASSUME ServerInv, NEW r \in Requests, results[r] # <<>>
               PROVE  /\ results[r][1].error = "invalidConfig" <=>
                            Body(r).text # "blank" /\ ~SimulatorAccepts(Body(r).overrides)
                      /\ \A n \in DOMAIN results[r] :
                           results[r][n].trace.run = <<r, n>> =>
                             \A key \in DOMAIN Body(r).overrides :
                                 results[r][n].trace.config[key] = Body(r).overrides[key]
      BY DEF RequestedConfigurationIsUsed
  <2>1. results[r][1].error = "invalidConfig" <=>
            Body(r).text # "blank" /\ ~SimulatorAccepts(Body(r).overrides)
      BY <1>1 DEF ServerInv, RunsAreAccepted
  <2>2. ASSUME NEW n \in DOMAIN results[r], results[r][n].trace.run = <<r, n>>,
               NEW key \in DOMAIN Body(r).overrides
        PROVE  results[r][n].trace.config[key] = Body(r).overrides[key]
    <3>1. results[r][n].trace # Absent
        BY <2>2, NoRequestAssumption DEF Absent, NoRun
    <3>2. results[r][n].trace.content = "whole" /\ ShowsItsRequest(results[r][n].trace)
        BY <3>1 DEF ServerInv, TracesShowRequests
    <3>3. /\ Accepted(r)
          /\ results[r][n].trace.config
                = architectureConfig(Body(r).directives, Body(r).overrides)
        BY <2>2, <3>2 DEF ShowsItsRequest
    <3>4. key \in Keys
        BY <3>3 DEF Accepted, ServerAccepts, InRange
    <3> QED
        BY <3>3, <3>4 DEF architectureConfig
  <2> QED
      BY <2>1, <2>2
<1> QED
    BY <1>2, InitServer, ServerSteps, PTL DEF ServerSpec

(***************************************************************************)
(* A program that was written is gone when its request is answered, and      *)
(* between two runs of a comparison, whichever way each of them ended: the   *)
(* file of a failed write is the only one that app.py leaves.                *)
(***************************************************************************)
THEOREM FilesRemoved == ServerSpec => []WrittenFilesAreRemoved
<1>1. ServerInv => WrittenFilesAreRemoved
    BY DEF ServerInv, ServerTypeOK, FilesAreInUse, WrittenFilesAreRemoved
<1> QED
    BY <1>1, InitServer, ServerSteps, PTL DEF ServerSpec

-----------------------------------------------------------------------------
(* A missing trace                                                           *)

\* From the opening of the file to the reading of the trace it is the run's own.
TraceIsOwn ==
    \A r \in Requests : stage[r] \in {"writing", "exited"} => traceFile.run = CurrentRun(r)
AnswersAreOwn ==
    \A r \in Requests : \A n \in DOMAIN results[r] :
        results[r][n].error = "none" => results[r][n].trace.run = <<r, n>>

OwnTraceInv == ServerInv /\ TraceIsOwn /\ AnswersAreOwn

LEMMA OwnTraceSteps ==
    ASSUME OwnTraceInv, NEW r \in Requests, Receive(r) \/ Handle(r) \/ Simulate(r),
           ~CannotOpenTrace(r)
    PROVE  TraceIsOwn' /\ AnswersAreOwn'
<1> USE DEF OwnTraceInv
<1>1. CASE Collect(r)
  <2>1. /\ stage[r] \in {"failed", "timedOut", "exited"} /\ Add(r, RunResult(r))
        /\ UNCHANGED traceFile
        /\ stage' = [stage EXCEPT ![r] = stage'[r]] /\ stage'[r] \in {"holding", "leaving"}
        /\ \A q \in Requests : q # r => stage'[q] = stage[q]
      BY <1>1 DEF Collect, To, ServerInv, ServerTypeOK
  <2>2. RunResult(r) \in RunResults
        /\ (RunResult(r).error = "none" => RunResult(r).trace.run = CurrentRun(r))
      BY <2>1, RunResultFields DEF TraceIsOwn
  <2>3. /\ \A q \in Requests : q # r => results'[q] = results[q]
        /\ \E m \in Nat :
             /\ m = Len(results[r]) /\ DOMAIN results[r] = 1 .. m
             /\ DOMAIN results'[r] = 1 .. m + 1
             /\ \A n \in 1 .. m : results'[r][n] = results[r][n]
             /\ results'[r][m + 1] = RunResult(r)
      BY <2>1, <2>2, AddedFields DEF ServerInv
  <2>4. TraceIsOwn'
      BY <2>1, <2>3 DEF TraceIsOwn, CurrentRun
  <2>5. AnswersAreOwn'
    <3> SUFFICES ASSUME NEW q \in Requests, NEW n \in DOMAIN results'[q],
                        results'[q][n].error = "none"
                 PROVE  results'[q][n].trace.run = <<q, n>>
        BY DEF AnswersAreOwn
    <3>1. CASE n \in DOMAIN results[q]
        BY <2>3, <3>1 DEF AnswersAreOwn
    <3>2. CASE n \notin DOMAIN results[q]
        BY <2>2, <2>3, <3>2 DEF CurrentRun
    <3> QED
        BY <3>1, <3>2
  <2> QED
      BY <2>4, <2>5
<1>2. CASE Simulate(r)
  <2>1. /\ stage[r] \in {"running", "writing"} /\ results' = results
        /\ stage' = [stage EXCEPT ![r] = stage'[r]]
        /\ \A q \in Requests : q # r => stage'[q] = stage[q] /\ stage[q] \notin {"writing", "exited"}
    <3>1. stage[r] \in {"running", "writing"} /\ results' = results
        BY <1>2 DEF Simulate, Fail, OpenTrace, CannotOpenTrace, WriteTrace, WriteFails, Timeout,
           FinishesLoop
    <3>2. \A q \in Requests : q # r => stage'[q] = stage[q]
        BY <1>2 DEF Simulate, Fail, OpenTrace, CannotOpenTrace, WriteTrace, WriteFails, Timeout,
           To, ServerInv, ServerTypeOK
    <3>3. stage' = [stage EXCEPT ![r] = stage'[r]]
        BY <1>2 DEF Simulate, Fail, OpenTrace, CannotOpenTrace, WriteTrace, WriteFails, Timeout,
           To, ServerInv, ServerTypeOK
    <3> QED
        BY <3>1, <3>2, <3>3 DEF ServerInv, LockIsHeld, Inside
  <2>2. stage'[r] \in {"writing", "exited"} => traceFile'.run = CurrentRun(r)
      BY <1>2, <2>1, WrittenTraces DEF Simulate, Fail, OpenTrace, WriteTrace, WriteFails,
         Timeout, To, TraceIsOwn, ServerInv, ServerTypeOK
  <2> QED
      BY <2>1, <2>2 DEF TraceIsOwn, AnswersAreOwn, CurrentRun
<1>3. CASE Receive(r)
  <2>1. /\ stage[r] = "new" /\ results[r] = <<>> /\ traceFile' = traceFile
        /\ stage'[r] \notin {"writing", "exited"}
        /\ \A q \in Requests : q # r => stage'[q] = stage[q]
      BY <1>3 DEF Receive, Answer, To, ServerInv, ServerTypeOK, RunsAreAccepted
  <2>2. results' = results
        \/ \E error \in Errors \ {"none"} : Add(r, Result(error))
      BY <1>3 DEF Receive, Answer, Errors
  <2>3. \A error \in Errors : Result(error) \in RunResults /\ Result(error).error = error
      BY AbsentIsTrace DEF Result, RunResults
  <2>4. CASE results' = results
      BY <2>1, <2>4 DEF TraceIsOwn, AnswersAreOwn, CurrentRun
  <2>5. ASSUME NEW error \in Errors \ {"none"}, Add(r, Result(error))
        PROVE  TraceIsOwn' /\ AnswersAreOwn'
    <3>1. /\ \A q \in Requests : q # r => results'[q] = results[q]
          /\ \E m \in Nat :
               /\ m = Len(results[r]) /\ DOMAIN results'[r] = 1 .. m + 1
               /\ results'[r][m + 1] = Result(error)
        BY <2>3, <2>5, AddedFields DEF ServerInv
    <3>2. DOMAIN results'[r] = 1 .. 1 /\ results'[r][1] = Result(error)
        BY <2>1, <3>1
    <3>3. \A n \in DOMAIN results'[r] : results'[r][n].error # "none"
        BY <2>3, <2>5, <3>2
    <3> QED
        BY <2>1, <3>1, <3>3 DEF TraceIsOwn, AnswersAreOwn, CurrentRun
  <2> QED
      BY <2>2, <2>4, <2>5
<1>4. CASE StartSimulator(r) \/ WriteProgramFails(r)
  <2>1. /\ traceFile' = traceFile /\ stage'[r] \notin {"writing", "exited"}
        /\ \A q \in Requests : q # r => stage'[q] = stage[q]
      BY <1>4 DEF StartSimulator, WriteProgramFails, To, ServerInv, ServerTypeOK
  <2>2. results' = results
        \/ \E error \in Errors \ {"none"} : Add(r, Result(error))
      BY <1>4 DEF StartSimulator, WriteProgramFails, Errors
  <2>3. \A error \in Errors : Result(error) \in RunResults /\ Result(error).error = error
      BY AbsentIsTrace DEF Result, RunResults
  <2>4. CASE results' = results
      BY <2>1, <2>4 DEF TraceIsOwn, AnswersAreOwn, CurrentRun
  <2>5. ASSUME NEW error \in Errors \ {"none"}, Add(r, Result(error))
        PROVE  TraceIsOwn' /\ AnswersAreOwn'
    <3>1. /\ \A q \in Requests : q # r => results'[q] = results[q]
          /\ \E m \in Nat :
               /\ DOMAIN results[r] = 1 .. m /\ DOMAIN results'[r] = 1 .. m + 1
               /\ \A n \in 1 .. m : results'[r][n] = results[r][n]
               /\ results'[r][m + 1] = Result(error)
        BY <2>3, <2>5, AddedFields DEF ServerInv
    <3>2. ASSUME NEW n \in DOMAIN results'[r], results'[r][n].error = "none"
          PROVE  results'[r][n].trace.run = <<r, n>>
        BY <2>3, <2>5, <3>1, <3>2 DEF AnswersAreOwn
    <3> QED
        BY <2>1, <3>1, <3>2 DEF TraceIsOwn, AnswersAreOwn, CurrentRun
  <2> QED
      BY <2>2, <2>4, <2>5
<1>5. CASE WriteProgram(r) \/ Acquire(r) \/ Leave(r) \/ Unlink(r)
  <2>1. /\ UNCHANGED <<results, traceFile>> /\ stage'[r] \notin {"writing", "exited"}
        /\ \A q \in Requests : q # r => stage'[q] = stage[q]
      BY <1>5 DEF WriteProgram, Acquire, Leave, Unlink, To, ServerInv, ServerTypeOK
  <2> QED
      BY <2>1 DEF TraceIsOwn, AnswersAreOwn, CurrentRun
<1> QED
    BY <1>1, <1>2, <1>3, <1>4, <1>5 DEF Handle

(***************************************************************************)
(* The one way to an answer that shows another run's trace is the one of     *)
(* MissingTraceIsReported's counterexample: as long as the simulator can      *)
(* open trace.json, a run that generated no trace is reported, even if        *)
(* writing it fails, the binary is replaced or runs are killed half-way.      *)
(***************************************************************************)
THEOREM ReportedWhenOpened ==
    ServerSpec /\ [][\A r \in Requests : ~CannotOpenTrace(r)]_serverVars
        => []MissingTraceIsReported
<1>1. ServerInit => OwnTraceInv
  <2>1. ServerInit => TraceIsOwn /\ AnswersAreOwn
      BY DEF ServerInit, TraceIsOwn, AnswersAreOwn
  <2> QED
      BY <2>1, InitServer DEF OwnTraceInv
<1>2. OwnTraceInv /\ [ServerNext]_serverVars
         /\ [\A r \in Requests : ~CannotOpenTrace(r)]_serverVars => OwnTraceInv'
  <2> SUFFICES ASSUME OwnTraceInv, [ServerNext]_serverVars,
                      [\A r \in Requests : ~CannotOpenTrace(r)]_serverVars
               PROVE  OwnTraceInv'
      OBVIOUS
  <2>1. ServerInv'
      BY ServerSteps DEF OwnTraceInv
  <2>2. CASE Rebuild \/ UNCHANGED serverVars
    <3>1. UNCHANGED <<stage, results, traceFile>>
        BY <2>2 DEF Rebuild, serverVars
    <3>2. TraceIsOwn' /\ AnswersAreOwn'
        BY <3>1 DEF OwnTraceInv, TraceIsOwn, AnswersAreOwn, CurrentRun
    <3> QED
        BY <2>1, <3>2 DEF OwnTraceInv
  <2>3. CASE ~UNCHANGED serverVars /\ \E r \in Requests : Receive(r) \/ Handle(r) \/ Simulate(r)
      BY <2>1, <2>3, OwnTraceSteps DEF OwnTraceInv
  <2> QED
      BY <2>2, <2>3 DEF ServerNext
<1>3. OwnTraceInv => MissingTraceIsReported
    BY DEF OwnTraceInv, AnswersAreOwn, MissingTraceIsReported
<1> QED
    BY <1>1, <1>2, <1>3, PTL DEF ServerSpec
=============================================================================

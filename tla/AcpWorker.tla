------------------------------ MODULE AcpWorker ------------------------------
(***************************************************************************)
(* AcpWorker of src/acp/execution-pool.ts: one agent process that keeps a  *)
(* session prepared for the next run, and serves one run at a time, with   *)
(* the connection it talks over and the agent at its other end.            *)
(*                                                                         *)
(* The agent (external) works on the requests it was sent, emits text for  *)
(* the sessions whose prompt it works on, and answers in any order or not  *)
(* at all. A promise that settles runs its continuations at once: an       *)
(* action is an event and all the code that follows up to the next await.  *)
(***************************************************************************)
EXTENDS AcpConnection

CONSTANTS
  MaxRuns,         \* opts.maxRequests, a bound on the runs of the worker
  MaxOptions       \* bound: session options set before a prompt

ASSUME WorkerConstants == MaxRuns \in Nat /\ MaxOptions \in Nat /\ Sessions = 1..(MaxRuns + 1)

VARIABLES
  init,       \* how far #initialize is: a method, "ready" or "failed"
  broken,     \* broken
  prepared,   \* the session of #prepared, 0 when it is undefined
  settled,    \* #prepared has settled
  flag,       \* #preparedReady
  requested,  \* sessions asked for so far
  dirs,       \* session workspaces on disk
  runs,       \* requestCount
  run,        \* the run in progress
  prompted,   \* [Sessions -> number of runs that prompted on it]
  lapsed      \* an aborted run ended because its prompt timed out

workerVars == <<init, broken, prepared, settled, flag, requested, dirs>>
vars == <<connVars, workerVars, runs, run, prompted, lapsed>>

\* output: the sessions whose text reached the caller of the run.
Run == [phase : {"none", "taking", "configuring", "prompting"}, session : Sessions \cup {0},
        aborted : BOOLEAN, options : 0..MaxOptions, output : SUBSET Sessions]
NoRun == [phase |-> "none", session |-> 0, aborted |-> FALSE, options |-> 0, output |-> {}]
Running == run.phase # "none"

\* The worker's parts agree: the prepared session is announced only when it is
\* there, requests are awaited only by who is waiting for them, and the session
\* workspaces on disk are the prepared session's and the current run's.
TypeOK ==
  /\ ConnTypeOK
  /\ init \in {"initialize", "authenticate", "session/new", "ready", "failed"}
  /\ broken \in BOOLEAN /\ settled \in BOOLEAN /\ flag \in BOOLEAN
  /\ prepared \in Sessions \cup {0} /\ requested \in 0..Cardinality(Sessions)
  /\ runs \in 0..MaxRuns /\ run \in Run /\ lapsed \in BOOLEAN
  /\ prompted \in [Sessions -> 0..MaxRuns]
  /\ flag => (settled /\ prepared # 0)
  /\ dirs \subseteq {prepared, run.session} \ {0}

Init ==
  /\ ConnInit /\ init = "initialize" /\ broken = FALSE
  /\ prepared = 0 /\ settled = FALSE /\ flag = FALSE /\ requested = 0 /\ dirs = {}
  /\ runs = 0 /\ run = NoRun /\ prompted = [s \in Sessions |-> 0] /\ lapsed = FALSE

-----------------------------------------------------------------------------
\* The worker asks the agent for qs; ps and ws are the requests pending and in
\* work after the event that led here.
Sends(ps, ws, qs) == pending' = ps \cup Sendable(qs) /\ working' = ws \cup Sendable(qs)

\* #startPreparing and #prepareSession up to its request, on the workspaces ds.
StartPreparing(ds) ==
  /\ requested' = requested + 1 /\ prepared' = requested + 1
  /\ settled' = FALSE /\ flag' = FALSE /\ dirs' = ds \cup {requested + 1}
NewSession == Ask("session/new", requested + 1)

\* ready() starts #initialize.
Start ==
  /\ init = "initialize" /\ ~closed /\ ~broken /\ pending = {}
  /\ Sends(pending, working, {Ask("initialize", 0)})
  /\ UNCHANGED <<cancelled, closed, exited, workerVars, runs, run, prompted, lapsed>>

\* #initialize: initialize, authenticate unless that is skipped, and the first
\* prepared session.
InitializeStep(q) ==
  /\ q.method = init /\ q.session = 0 /\ q \in pending \cap working
  /\ \/ /\ init = "initialize" /\ init' = "authenticate"
        /\ Sends(pending \ {q}, working \ {q}, {Ask("authenticate", 0)})
        /\ UNCHANGED <<prepared, settled, flag, requested, dirs>>
     \/ /\ init' = "session/new" /\ StartPreparing(dirs)
        /\ Sends(pending \ {q}, working \ {q}, {NewSession})
  /\ UNCHANGED <<cancelled, closed, exited, broken, runs, run, prompted, lapsed>>

\* A request of #initialize fails: the worker is broken.
InitializeFails(q) ==
  /\ q.method = init /\ q.session = 0 /\ (Answered(q) \/ TimedOut(q))
  /\ init' = "failed" /\ broken' = TRUE
  /\ UNCHANGED <<cancelled, closed, exited, prepared, settled, flag, requested, dirs, runs, run, prompted, lapsed>>

\* Mutant: the session taken stays the prepared one.
TakeShared(r, s, ps, ws) ==
  /\ run' = [r EXCEPT !.phase = "prompting", !.session = s]
  /\ Sends(ps, ws, {Ask("session/prompt", s)})
  /\ prompted' = [prompted EXCEPT ![s] = @ + 1]
  /\ settled' = TRUE /\ UNCHANGED <<prepared, flag, requested, dirs, cancelled>>

\* Run r once #takePrepared has returned session s: the next one is prepared; an
\* abort ends the run, a model is set, or the prompt is sent.
Take(r, s, ps, ws) ==
  \/ /\ r.aborted /\ run' = NoRun
     /\ StartPreparing(dirs \ {s}) /\ Sends(ps, ws, {NewSession})
     /\ Cancels(s) /\ UNCHANGED prompted
  \/ /\ ~r.aborted /\ MaxOptions > 0
     /\ run' = [r EXCEPT !.phase = "configuring", !.session = s, !.options = 1]
     /\ StartPreparing(dirs) /\ Sends(ps, ws, {NewSession, Ask("session/set_config_option", s)})
     /\ UNCHANGED <<prompted, cancelled>>
  \/ /\ ~r.aborted
     /\ run' = [r EXCEPT !.phase = "prompting", !.session = s]
     /\ StartPreparing(dirs) /\ Sends(ps, ws, {NewSession, Ask("session/prompt", s)})
     /\ prompted' = [prompted EXCEPT ![s] = @ + 1] /\ UNCHANGED cancelled

\* run(), on a worker the pool takes for healthy; it does not look at the
\* connection. The prepared session is taken, or awaited; without a connection
\* the run fails and the worker is broken.
RunStarts ==
  LET r == [NoRun EXCEPT !.phase = "taking"] IN
  /\ init = "ready" /\ ~broken /\ ~Running /\ runs < MaxRuns /\ runs' = runs + 1
  /\ \/ /\ ~closed /\ settled /\ Take(r, prepared, pending, working) /\ UNCHANGED broken
     \/ /\ ~closed /\ ~settled /\ run' = r
        /\ UNCHANGED <<pending, working, cancelled, prepared, settled, flag, requested, dirs, broken, prompted>>
     \/ /\ closed /\ broken' = TRUE /\ prepared' = 0 /\ flag' = FALSE /\ dirs' = dirs \ {prepared}
        /\ UNCHANGED <<pending, working, cancelled, settled, requested, run, prompted>>
  /\ UNCHANGED <<closed, exited, init, lapsed>>

\* The prepared session is there: #initialize is done, a waiting run takes it.
PreparedArrives ==
  LET q == Ask("session/new", prepared) IN
  /\ q \in pending \cap working
  /\ init' = "ready"
  /\ IF run.phase = "taking"
     THEN Take(run, prepared, pending \ {q}, working \ {q})
     ELSE /\ settled' = TRUE /\ flag' = TRUE
          /\ Sends(pending \ {q}, working \ {q}, {})
          /\ UNCHANGED <<cancelled, prepared, requested, dirs, run, prompted>>
  /\ UNCHANGED <<closed, exited, broken, runs, lapsed>>

\* Mutant: the worker is not told that its next session cannot be had.
PreparedLost ==
  /\ LET q == Ask("session/new", prepared) IN Answered(q) \/ TimedOut(q)
  /\ settled' = TRUE /\ flag' = FALSE /\ dirs' = dirs \ {prepared}
  /\ UNCHANGED <<cancelled, closed, exited, broken, init, prepared, requested, runs, run, prompted, lapsed>>

\* It cannot be had: its workspace goes, the worker is broken, and so is a run
\* that waits for it.
PreparedFails ==
  LET q == Ask("session/new", prepared) IN
  /\ Answered(q) \/ TimedOut(q)
  /\ broken' = TRUE /\ settled' = TRUE /\ flag' = FALSE /\ dirs' = dirs \ {prepared}
  /\ init' = IF init = "ready" THEN init ELSE "failed"
  /\ IF run.phase = "taking" THEN prepared' = 0 /\ run' = NoRun ELSE UNCHANGED <<prepared, run>>
  /\ UNCHANGED <<cancelled, closed, exited, requested, runs, prompted, lapsed>>

\* The finally of run(): the session is cancelled and its workspace removed. Its
\* #startPreparing finds the session that Take asked for.
EndRun(b, ps, ws) ==
  /\ broken' = b /\ run' = NoRun /\ Cancels(run.session) /\ Sends(ps, ws, {})
  /\ dirs' = dirs \ {run.session}
  /\ UNCHANGED <<prepared, settled, flag, requested>>

\* The catch of run(): a failure breaks the worker unless the caller aborted.
FailRun(ps, ws) == EndRun(broken \/ ~run.aborted, ps, ws) /\ UNCHANGED prompted

\* A session option is set: one more, or the prompt, also when the caller left.
OptionSet ==
  LET q == Ask("session/set_config_option", run.session) IN
  /\ run.phase = "configuring" /\ q \in pending \cap working
  /\ \/ /\ run.options < MaxOptions /\ run' = [run EXCEPT !.options = @ + 1]
        /\ UNCHANGED <<pending, working, prompted>>
     \/ /\ run' = [run EXCEPT !.phase = "prompting"]
        /\ Sends(pending \ {q}, working \ {q}, {Ask("session/prompt", run.session)})
        /\ prompted' = [prompted EXCEPT ![run.session] = @ + 1]
  /\ UNCHANGED <<cancelled, closed, exited, workerVars, runs, lapsed>>

\* The agent has answered the prompt.
PromptAnswered ==
  LET q == Ask("session/prompt", run.session) IN
  /\ run.phase = "prompting" /\ q \in pending \cap working
  /\ \/ EndRun(broken, pending \ {q}, working \ {q}) /\ UNCHANGED prompted
     \/ FailRun(pending \ {q}, working \ {q})
  /\ UNCHANGED <<closed, exited, init, runs, lapsed>>

\* A request of the run gets an error (configuring) or times out.
RunFails ==
  LET q == Ask(IF run.phase = "prompting" THEN "session/prompt" ELSE "session/set_config_option", run.session) IN
  /\ run.session # 0 /\ q \in pending
  /\ \/ FailRun(pending \ {q}, working) /\ lapsed' = (lapsed \/ (run.aborted /\ run.phase = "prompting"))
     \/ q \in working /\ run.phase = "configuring" /\ FailRun(pending \ {q}, working \ {q}) /\ UNCHANGED lapsed
  /\ UNCHANGED <<closed, exited, init, runs>>

\* Mutant: an abort ends the run without waiting for the agent's answer.
AbortEnds ==
  /\ Running /\ ~run.aborted /\ run.session # 0
  /\ EndRun(broken, pending \ {Ask("session/prompt", run.session)}, working)
  /\ UNCHANGED <<closed, exited, init, runs, prompted, lapsed>>

\* The caller's signal: text is no longer passed on and the session is
\* cancelled; the run goes on until the agent answers.
Abort ==
  /\ Running /\ ~run.aborted /\ run' = [run EXCEPT !.aborted = TRUE]
  /\ Cancels(run.session)
  /\ UNCHANGED <<pending, working, closed, exited, workerVars, runs, prompted, lapsed>>

\* session/update with text: whatever its session, it goes to the current run.
Chunk ==
  /\ ~exited /\ Running /\ ~run.aborted
  /\ \E q \in working : /\ q.method = "session/prompt"
                        /\ run' = [run EXCEPT !.output = @ \cup {q.session}]
  /\ UNCHANGED <<connVars, workerVars, runs, prompted, lapsed>>

\* Mutant: the requests are forgotten and nobody is told.
AllForgotten(closing) == UNCHANGED <<broken, init, run, prepared, settled, flag, dirs>>

\* All pending requests fail: initialisation, the session on its way, the run.
AllFail(closing) ==
  LET waits == prepared # 0 /\ ~settled IN
  /\ broken' = (closing \/ broken \/ waits \/ Running \/ init # "ready")
  /\ init' = IF init = "ready" THEN init ELSE "failed"
  /\ run' = NoRun
  /\ prepared' = IF run.phase = "taking" THEN 0 ELSE prepared
  /\ settled' = (settled \/ waits) /\ flag' = (flag /\ ~waits)
  /\ dirs' = IF closing THEN {} ELSE dirs \ {run.session, IF waits THEN prepared ELSE 0}

\* The process exits.
ProcessExits ==
  /\ ~exited /\ ChildGone /\ AllFail(FALSE)
  /\ UNCHANGED <<cancelled, requested, runs, prompted, lapsed>>

\* close(): the worker is broken, its connection closed, its directory removed.
WorkerCloses ==
  /\ ~(closed /\ broken /\ dirs = {}) /\ CloseConnection
  /\ AllFail(TRUE) /\ UNCHANGED <<working, cancelled, exited, requested, runs, prompted, lapsed>>

Next ==
  \/ Start \/ RunStarts \/ PreparedArrives \/ PreparedFails \/ OptionSet \/ PromptAnswered
  \/ RunFails \/ Abort \/ Chunk \/ ProcessExits \/ WorkerCloses
  \/ \E q \in pending : InitializeStep(q) \/ InitializeFails(q)
  \/ AnswerIgnored /\ UNCHANGED <<workerVars, runs, run, prompted, lapsed>>

Spec == Init /\ [][Next]_vars

\* Timers fire.
Fairness == WF_vars(PreparedFails) /\ WF_vars(RunFails)
FairSpec == Spec /\ Fairness

-----------------------------------------------------------------------------
\* Text of one run never reaches the caller of another, as long as no aborted
\* run was given up while the agent still worked on its prompt.
OwnOutput == ~lapsed => run.output \subseteq {run.session}

\* A session serves one prompt at most: no run sees the history of another.
OneRunPerSession == \A s \in Sessions : prompted[s] <= 1

\* A run ends, whatever the agent does.
RunsSettle == Running ~> ~Running

\* A worker that waits for work gets its next session, or is given up.
GetsPrepared == (init = "ready" /\ ~Running) ~> (flag \/ broken \/ closed \/ Running)
=============================================================================

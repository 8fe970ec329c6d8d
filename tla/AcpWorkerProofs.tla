--------------------------- MODULE AcpWorkerProofs ---------------------------
(***************************************************************************)
(* Theorems about AcpWorker, for any number of runs and session options,   *)
(* and whatever the agent answers, in whatever order, or never.            *)
(***************************************************************************)
EXTENDS AcpWorker, FiniteSetTheorems, TLAPS

\* Sessions are asked for one by one, one for each run and one ahead; requests
\* about a session are about one that was asked for.
Asked ==
  /\ requested \in Nat /\ runs \in 0..MaxRuns
  /\ requested <= runs + 1 /\ (run.phase = "taking" => requested <= runs)
  /\ pending \subseteq Request /\ working \subseteq Request
  /\ \A q \in pending \cup working :
       q.method \in {"session/new", "session/set_config_option", "session/prompt"} =>
         q.session # 0 /\ q.session <= requested

\* The prepared session is the one asked for last; a healthy worker has one.
Prepares ==
  /\ init \in {"initialize", "authenticate", "session/new", "ready", "failed"}
  /\ broken \in BOOLEAN /\ settled \in BOOLEAN /\ flag \in BOOLEAN
  /\ prepared \in {0, requested}
  /\ init = "ready" => broken \/ prepared # 0
  /\ init \in {"initialize", "authenticate"} => requested = 0
  /\ init \in {"initialize", "authenticate", "session/new"} => run = NoRun
  /\ flag => settled /\ prepared # 0
  /\ run.phase = "taking" => ~settled
  /\ dirs \subseteq {prepared, run.session} \ {0}

\* A run has its session once it has taken it.
Runs ==
  /\ run \in Run
  /\ run.phase \in {"none", "taking"} <=> run.session = 0
  /\ run.session # 0 => run.session < requested

\* Sessions that no run has prompted yet: those that are still to be taken, and
\* that of a run which is being configured.
Prompts ==
  /\ prompted \in [Sessions -> {0, 1}]
  /\ \A s \in Sessions : s >= requested => prompted[s] = 0
  /\ run.phase = "configuring" => prompted[run.session] = 0

\* The agent works on the prompt of the current run alone, unless an aborted run
\* was given up, or the worker was.
Works ==
  \A q \in working :
    q.method = "session/prompt" =>
      \/ lapsed \/ (broken /\ ~Running)
      \/ run.phase = "prompting" /\ q.session = run.session

WorkerInv ==
  /\ Asked /\ Prepares /\ Runs /\ Prompts /\ Works /\ OwnOutput
  /\ cancelled \subseteq Sessions /\ closed \in BOOLEAN /\ exited \in BOOLEAN /\ lapsed \in BOOLEAN

-----------------------------------------------------------------------------
\* What is sent is a request for the agent, about a session there is.
LEMMA SentWell ==
  ASSUME NEW ps, NEW ws, NEW qs, NEW n \in Nat, ps \subseteq Request, ws \subseteq Request, qs \subseteq Request,
         Sends(ps, ws, qs),
         \A q \in ps \cup ws \cup qs :
           q.method \in {"session/new", "session/set_config_option", "session/prompt"} =>
             q.session # 0 /\ q.session <= n
  PROVE  /\ pending' \subseteq Request /\ working' \subseteq Request
         /\ working' \subseteq ws \cup qs
         /\ \A q \in pending' \cup working' :
              q.method \in {"session/new", "session/set_config_option", "session/prompt"} =>
                q.session # 0 /\ q.session <= n
BY DEF Sends, Sendable

\* A request is told by its method and its session.
LEMMA AskProps ==
  ASSUME NEW m \in Methods, NEW s \in Sessions \cup {0}
  PROVE  Ask(m, s) \in Request /\ Ask(m, s).method = m /\ Ask(m, s).session = s
BY DEF Ask, Request

\* The state in which no run is in progress.
LEMMA NoRunProps ==
  /\ NoRun \in Run /\ NoRun.phase = "none" /\ NoRun.session = 0 /\ NoRun.output = {}
  /\ NoRun.aborted = FALSE /\ NoRun.options = 0
<1>1. 0 \in 0..MaxOptions
  BY WorkerConstants
<1> QED
  BY <1>1 DEF NoRun, Run

\* The invariant holds of a new worker.
LEMMA WorkerInit == Init => WorkerInv
<1> SUFFICES ASSUME Init PROVE WorkerInv
  OBVIOUS
<1>1. Asked /\ Runs
  BY NoRunProps, WorkerConstants DEF Init, ConnInit, Asked, Runs
<1>2. Prepares
  BY NoRunProps DEF Init, Prepares
<1>3. Prompts /\ Works /\ OwnOutput
  BY NoRunProps DEF Init, ConnInit, Prompts, Works, OwnOutput
<1> QED
  BY <1>1, <1>2, <1>3 DEF Init, ConnInit, WorkerInv

\* The next session is there to be asked for.
LEMMA NextSession ==
  ASSUME WorkerInv, requested <= MaxRuns
  PROVE  requested + 1 \in Sessions /\ NewSession \in Request /\ NewSession.method = "session/new"
         /\ NewSession.session = requested + 1
<1>1. requested + 1 \in Sessions
  BY WorkerConstants DEF WorkerInv, Asked
<1> QED
  BY <1>1, AskProps DEF NewSession, Methods

\* A run takes session s.
LEMMA TakeStep ==
  ASSUME WorkerInv, NEW r \in Run, NEW ps \in SUBSET pending, NEW ws \in SUBSET working,
         r.phase = "taking", r.session = 0, lapsed \/ r.output = {},
         prepared # 0, run.phase \in {"none", "taking"}, requested <= runs', runs' \in 0..MaxRuns,
         Take(r, prepared, ps, ws), ~broken \/ run.phase = "taking",
         broken' = broken, lapsed' = lapsed, init' = "ready", closed' = closed, exited' = exited
  PROVE  WorkerInv'
<1>1. /\ requested \in Nat /\ requested <= MaxRuns /\ MaxRuns \in Nat /\ prepared = requested
      /\ prepared \in Sessions /\ pending \subseteq Request /\ working \subseteq Request
      /\ dirs \subseteq {prepared} /\ prompted \in [Sessions -> {0, 1}] /\ prompted[prepared] = 0
      /\ broken \in BOOLEAN /\ runs' \in Nat /\ MaxOptions \in Nat
  BY WorkerConstants DEF WorkerInv, Asked, Prepares, Runs, Prompts
<1>2. /\ requested + 1 \in Sessions /\ NewSession \in Request /\ NewSession.method = "session/new"
      /\ NewSession.session = requested + 1
  BY <1>1, NextSession
<1>3. \A q \in working : q.method = "session/prompt" => lapsed
  BY DEF WorkerInv, Works, Running
<1>4. PICK qs \in SUBSET {NewSession, Ask("session/set_config_option", prepared), Ask("session/prompt", prepared)} :
        /\ Sends(ps, ws, qs)
        /\ Ask("session/prompt", prepared) \in qs => run'.phase = "prompting" /\ run'.session = prepared
  <2>1. \A m \in Methods : Ask(m, prepared) \in Request /\ Ask(m, prepared).method = m
    BY <1>1, AskProps
  <2>2. Ask("session/prompt", prepared) # NewSession /\ Ask("session/prompt", prepared) # Ask("session/set_config_option", prepared)
    BY <1>2, <2>1 DEF Methods
  <2>3. CASE Sends(ps, ws, {NewSession})
    BY <2>2, <2>3
  <2>4. CASE Sends(ps, ws, {NewSession, Ask("session/set_config_option", prepared)})
    BY <2>2, <2>4
  <2>5. CASE /\ Sends(ps, ws, {NewSession, Ask("session/prompt", prepared)})
             /\ run' = [r EXCEPT !.phase = "prompting", !.session = prepared]
    <3>1. run'.phase = "prompting" /\ run'.session = prepared
      BY <2>5 DEF Run
    <3> QED
      BY <2>5, <3>1
  <2> QED
    BY <2>3, <2>4, <2>5 DEF Take
<1>5. /\ pending' \subseteq Request /\ working' \subseteq Request /\ working' \subseteq ws \cup qs
      /\ \A q \in pending' \cup working' :
           q.method \in {"session/new", "session/set_config_option", "session/prompt"} =>
             q.session # 0 /\ q.session <= requested + 1
  <2>1. \A m \in Methods : /\ Ask(m, prepared) \in Request /\ Ask(m, prepared).session = prepared
    BY <1>1, AskProps
  <2>2. qs \subseteq Request /\ \A q \in qs : q.session \in {prepared, requested + 1}
    BY <1>2, <2>1 DEF Methods
  <2>3. ASSUME NEW q \in ps \cup ws \cup qs,
               q.method \in {"session/new", "session/set_config_option", "session/prompt"}
        PROVE  q.session # 0 /\ q.session <= requested + 1
    <3>1. CASE q \in qs
      BY <1>1, <2>2, <3>1
    <3>2. CASE q \in pending \cup working
      <4>1. q.session \in Nat
        BY <1>1, <3>2, WorkerConstants DEF Request
      <4> QED
        BY <1>1, <2>3, <3>2, <4>1 DEF WorkerInv, Asked
    <3> QED
      BY <2>3, <3>1, <3>2
  <2> QED
    BY <1>1, <1>4, <2>2, <2>3, SentWell
<1>6. /\ requested' = requested + 1 /\ prepared' = requested + 1 /\ settled' = FALSE /\ flag' = FALSE
  BY DEF Take, StartPreparing
<1>7. cancelled' \subseteq Sessions
  BY <1>1 DEF WorkerInv, Take, Cancels
<1>8. /\ run' \in Run /\ run'.phase # "taking" /\ (lapsed \/ run'.output = {})
      /\ (run'.phase = "none" /\ run'.session = 0) \/ (run'.phase \in {"configuring", "prompting"} /\ run'.session = prepared)
      /\ dirs' \subseteq {prepared', run'.session} \ {0}
      /\ prompted' = prompted \/ (run'.phase = "prompting" /\ prompted' = [prompted EXCEPT ![prepared] = @ + 1])
  <2>1. CASE run' = NoRun /\ StartPreparing(dirs \ {prepared}) /\ UNCHANGED prompted
    BY <1>1, <2>1, NoRunProps DEF StartPreparing
  <2>2. CASE /\ run' = [r EXCEPT !.phase = "configuring", !.session = prepared, !.options = 1]
             /\ MaxOptions > 0 /\ StartPreparing(dirs) /\ UNCHANGED prompted
    <3>1. 1 \in 0..MaxOptions
      BY <1>1, <2>2
    <3>2. run' \in Run /\ run'.phase = "configuring" /\ run'.session = prepared /\ run'.output = r.output
      BY <1>1, <2>2, <3>1 DEF Run
    <3>3. dirs' \subseteq {prepared', run'.session} \ {0}
      BY <1>1, <2>2, <3>2 DEF StartPreparing
    <3> QED
      BY <2>2, <3>2, <3>3
  <2>3. CASE /\ run' = [r EXCEPT !.phase = "prompting", !.session = prepared]
             /\ StartPreparing(dirs) /\ prompted' = [prompted EXCEPT ![prepared] = @ + 1]
    <3>1. run' \in Run /\ run'.phase = "prompting" /\ run'.session = prepared /\ run'.output = r.output
      BY <1>1, <2>3 DEF Run
    <3>2. dirs' \subseteq {prepared', run'.session} \ {0}
      BY <1>1, <2>3, <3>1 DEF StartPreparing
    <3> QED
      BY <2>3, <3>1, <3>2
  <2> QED
    BY <2>1, <2>2, <2>3 DEF Take
<1>9. Asked'
  <2>1. requested' \in Nat /\ requested' <= runs' + 1
    <3>1. requested \in Nat /\ runs' \in Nat /\ requested' = requested + 1 /\ requested <= runs'
      BY <1>1, <1>6
    <3>2. requested' \in Nat
      BY <3>1
    <3>3. \A a, b \in Nat : a <= b => a + 1 <= b + 1
      OBVIOUS
    <3>4. requested + 1 <= runs' + 1
      BY <3>1, <3>3
    <3> QED
      BY <3>1, <3>2, <3>4
  <2>3. run'.phase # "taking"
    BY <1>8
  <2>2. /\ pending' \subseteq Request /\ working' \subseteq Request
        /\ \A q \in pending' \cup working' :
             q.method \in {"session/new", "session/set_config_option", "session/prompt"} =>
               q.session # 0 /\ q.session <= requested'
    BY <1>5, <1>6
  <2> QED
    BY <2>1, <2>2, <2>3 DEF Asked
<1>10. Prepares'
  <2>1. prepared' \in {0, requested'} /\ prepared' # 0 /\ ~flag' /\ run'.phase # "taking"
    BY <1>1, <1>6, <1>8
  <2> QED
    BY <1>1, <1>6, <1>8, <2>1 DEF Prepares
<1>11. Runs'
  BY <1>1, <1>6, <1>8 DEF Runs
<1>12. Prompts'
  <2>1. \A s \in Sessions : s \in Nat
    BY WorkerConstants
  <2>2. \A s \in Sessions : s >= requested => prompted[s] = 0
    BY DEF WorkerInv, Prompts
  <2>3. CASE prompted' = prompted
    BY <1>1, <1>6, <1>8, <2>1, <2>2, <2>3 DEF Prompts
  <2>4. CASE run'.phase = "prompting" /\ prompted' = [prompted EXCEPT ![prepared] = @ + 1]
    <3>1. /\ prompted' \in [Sessions -> {0, 1}]
          /\ \A s \in Sessions : s # prepared => prompted'[s] = prompted[s]
      BY <1>1, <2>4
    <3>2. \A s \in Sessions : s >= requested' => prompted'[s] = 0
      BY <1>1, <1>6, <2>1, <2>2, <3>1
    <3>3. run'.phase # "configuring"
      BY <2>4
    <3> QED
      BY <3>1, <3>2, <3>3 DEF Prompts
  <2> QED
    BY <1>8, <2>3, <2>4
<1>13. Works'
  <2>1. ASSUME NEW q \in working', q.method = "session/prompt"
        PROVE  lapsed \/ (run'.phase = "prompting" /\ q.session = run'.session)
    <3>1. CASE q \in working
      BY <1>3, <2>1, <3>1
    <3>2. CASE q \in qs
      <4>1. q = Ask("session/prompt", prepared)
        BY <1>1, <1>2, <2>1, <3>2, AskProps DEF Methods
      <4> QED
        BY <1>1, <1>4, <3>2, <4>1, AskProps DEF Methods
    <3> QED
      BY <1>5, <2>1, <3>1, <3>2
  <2> QED
    BY <2>1 DEF Works
<1>14. OwnOutput'
  BY <1>8 DEF OwnOutput
<1> QED
  BY <1>7, <1>9, <1>10, <1>11, <1>12, <1>13, <1>14 DEF WorkerInv

-----------------------------------------------------------------------------
(***************************************************************************)
(* Every action preserves the invariant.                                   *)
(***************************************************************************)
\* A request of #initialize is answered: the next one, or a session, is asked for.
LEMMA InitializeStepStep ==
  ASSUME WorkerInv, NEW q \in pending, InitializeStep(q)
  PROVE  WorkerInv'
<1>1. /\ q \in Request /\ q.session = 0 /\ q.method = init /\ q.method \in Methods /\ 0 \in Sessions \cup {0}
      /\ pending \subseteq Request /\ working \subseteq Request
  BY DEF WorkerInv, Asked, InitializeStep, Request
<1>2. /\ init \in {"initialize", "authenticate"} /\ run = NoRun /\ requested = 0 /\ runs \in 0..MaxRuns
      /\ dirs = {} /\ MaxRuns \in Nat
  BY <1>1, NoRunProps, WorkerConstants DEF WorkerInv, Asked, Prepares, Methods
<1>3. UNCHANGED <<cancelled, closed, exited, broken, runs, run, prompted, lapsed>>
  BY DEF InitializeStep
<1>4. CASE /\ init' = "authenticate" /\ Sends(pending \ {q}, working \ {q}, {Ask("authenticate", 0)})
           /\ UNCHANGED <<prepared, settled, flag, requested, dirs>>
  <2>1. Ask("authenticate", 0) \in Request /\ Ask("authenticate", 0).method = "authenticate"
    BY AskProps DEF Methods
  <2>2. /\ pending' \subseteq Request /\ working' \subseteq Request
        /\ working' \subseteq (working \ {q}) \cup {Ask("authenticate", 0)}
        /\ \A x \in pending' \cup working' :
             x.method \in {"session/new", "session/set_config_option", "session/prompt"} =>
               x.session # 0 /\ x.session <= requested
    BY <1>1, <1>2, <1>4, <2>1, SentWell DEF WorkerInv, Asked
  <2>3. Asked' /\ Prepares' /\ Runs' /\ Prompts' /\ OwnOutput'
    BY <1>2, <1>3, <1>4, <2>2 DEF WorkerInv, Asked, Prepares, Runs, Prompts, OwnOutput
  <2>4. Works'
    BY <1>3, <2>1, <2>2 DEF WorkerInv, Works, Running
  <2> QED
    BY <1>3, <2>3, <2>4 DEF WorkerInv
<1>5. CASE /\ init' = "session/new" /\ StartPreparing(dirs)
           /\ Sends(pending \ {q}, working \ {q}, {NewSession})
  <2>1. /\ requested + 1 \in Sessions /\ NewSession \in Request /\ NewSession.method = "session/new"
        /\ NewSession.session = requested + 1 /\ requested + 1 = 1
    BY <1>2, NextSession
  <2>2. /\ requested' = 1 /\ prepared' = 1 /\ settled' = FALSE /\ flag' = FALSE /\ dirs' = {1}
    BY <1>2, <1>5 DEF StartPreparing
  <2>3. \A x \in pending \cup working \cup {NewSession} :
          x.method \in {"session/new", "session/set_config_option", "session/prompt"} => x.session # 0 /\ x.session <= 1
    <3>1. \A x \in pending \cup working : x.method \notin {"session/new", "session/set_config_option", "session/prompt"}
      <4>1. \A x \in pending \cup working : x.session \in Nat
        BY <1>1, WorkerConstants DEF Request
      <4> QED
        BY <1>2, <4>1 DEF WorkerInv, Asked
    <3> QED
      BY <2>1, <3>1
  <2>4. /\ pending' \subseteq Request /\ working' \subseteq Request
        /\ working' \subseteq (working \ {q}) \cup {NewSession}
        /\ \A x \in pending' \cup working' :
             x.method \in {"session/new", "session/set_config_option", "session/prompt"} =>
               x.session # 0 /\ x.session <= 1
    BY <1>1, <1>5, <2>1, <2>3, SentWell
  <2>5. Asked'
    BY <1>2, <1>3, <2>2, <2>4, NoRunProps DEF Asked
  <2>6. Prepares' /\ Runs' /\ OwnOutput'
    <3>1. run' = NoRun /\ broken' = broken /\ lapsed' = lapsed /\ init' = "session/new"
      BY <1>2, <1>3, <1>5
    <3>2. broken' \in BOOLEAN
      BY <3>1 DEF WorkerInv, Prepares
    <3>3. Prepares'
      <4>1. dirs' \subseteq {prepared', run'.session} \ {0} /\ prepared' \in {0, requested'} /\ run'.phase = "none"
        BY <2>2, <3>1, NoRunProps
      <4> QED
        BY <2>2, <3>1, <3>2, <4>1 DEF Prepares
    <3> QED
      BY <2>2, <3>1, <3>3, NoRunProps DEF Runs, OwnOutput
  <2>7. Prompts'
    <3>1. \A s \in Sessions : s >= 1 /\ s >= 0
      BY WorkerConstants
    <3> QED
      BY <1>2, <1>3, <2>2, <3>1, NoRunProps DEF WorkerInv, Prompts
  <2>8. Works'
    BY <1>3, <2>1, <2>4 DEF WorkerInv, Works, Running
  <2> QED
    BY <1>3, <2>5, <2>6, <2>7, <2>8 DEF WorkerInv
<1> QED
  BY <1>4, <1>5 DEF InitializeStep

\* Fewer requests are pending or in work, and nothing else has changed but the
\* health of the worker.
LEMMA LessAsked ==
  ASSUME WorkerInv, pending' \subseteq pending, working' \subseteq working,
         UNCHANGED <<cancelled, runs, run, prompted, lapsed, requested, prepared, settled, flag, dirs>>,
         broken' \in {broken, TRUE}, init' \in {init, "failed"}, closed' \in BOOLEAN, exited' \in BOOLEAN
  PROVE  WorkerInv'
<1>1. Asked' /\ Runs' /\ Prompts' /\ OwnOutput'
  BY DEF WorkerInv, Asked, Runs, Prompts, OwnOutput
<1>2. Prepares'
  BY DEF WorkerInv, Prepares
<1>3. Works'
  <2>1. ASSUME NEW q \in working', q.method = "session/prompt"
        PROVE  lapsed \/ (broken' = TRUE /\ run.phase = "none")
                 \/ (run.phase = "prompting" /\ q.session = run.session)
    BY <2>1 DEF WorkerInv, Works, Running, Prepares
  <2> QED
    BY <2>1 DEF Works, Running
<1> QED
  BY <1>1, <1>2, <1>3 DEF WorkerInv

\* The agent is asked to initialise.
LEMMA StartStep ==
  ASSUME WorkerInv, Start
  PROVE  WorkerInv'
<1>1. Ask("initialize", 0) \in Request /\ Ask("initialize", 0).method = "initialize"
  BY AskProps DEF Methods
<1>2. /\ pending' \subseteq Request /\ working' \subseteq Request
      /\ working' \subseteq working \cup {Ask("initialize", 0)}
      /\ \A q \in pending' \cup working' :
           q.method \in {"session/new", "session/set_config_option", "session/prompt"} =>
             q.session # 0 /\ q.session <= requested
  BY <1>1, SentWell DEF WorkerInv, Asked, Start
<1>3. Asked' /\ Prepares' /\ Runs' /\ Prompts' /\ OwnOutput'
  BY <1>2 DEF WorkerInv, Asked, Prepares, Runs, Prompts, OwnOutput, Start, workerVars
<1>4. Works'
  BY <1>1, <1>2 DEF WorkerInv, Works, Running, Start, workerVars
<1> QED
  BY <1>3, <1>4 DEF WorkerInv, Start

\* A request of #initialize fails.
LEMMA InitializeFailsStep ==
  ASSUME WorkerInv, NEW q \in pending, InitializeFails(q)
  PROVE  WorkerInv'
<1>1. /\ pending' \subseteq pending /\ working' \subseteq working /\ closed' \in BOOLEAN /\ exited' \in BOOLEAN
      /\ UNCHANGED <<cancelled, runs, run, prompted, lapsed, requested, prepared, settled, flag, dirs>>
      /\ broken' = TRUE /\ init' = "failed"
  BY DEF InitializeFails, Answered, TimedOut, WorkerInv
<1> QED
  BY <1>1, LessAsked

\* An answer that comes late is dropped.
LEMMA AnswerIgnoredStep ==
  ASSUME WorkerInv, AnswerIgnored, UNCHANGED <<workerVars, runs, run, prompted, lapsed>>
  PROVE  WorkerInv'
<1>1. /\ pending' = pending /\ working' \subseteq working /\ closed' = closed /\ exited' = exited
      /\ UNCHANGED <<cancelled, runs, run, prompted, lapsed, requested, prepared, settled, flag, dirs, broken, init>>
  BY DEF AnswerIgnored, workerVars
<1>2. Asked' /\ Runs' /\ Prompts' /\ OwnOutput' /\ Prepares'
  BY <1>1 DEF WorkerInv, Asked, Runs, Prompts, OwnOutput, Prepares
<1>3. Works'
  BY <1>1 DEF WorkerInv, Works, Running
<1> QED
  BY <1>1, <1>2, <1>3 DEF WorkerInv

\* run() takes the prepared session, waits for it, or fails for want of a connection.
LEMMA RunStartsStep ==
  ASSUME WorkerInv, RunStarts
  PROVE  WorkerInv'
<1> DEFINE r == [NoRun EXCEPT !.phase = "taking"]
<1>1. r \in Run /\ r.phase = "taking" /\ r.session = 0 /\ r.output = {}
  BY NoRunProps DEF Run
<1>2. /\ init = "ready" /\ ~broken /\ run.phase = "none" /\ runs < MaxRuns /\ runs' = runs + 1
      /\ UNCHANGED <<closed, exited, init, lapsed>>
  BY DEF RunStarts, Running
<1>3. /\ prepared # 0 /\ prepared = requested /\ requested \in Nat /\ runs \in 0..MaxRuns /\ requested <= runs + 1
      /\ MaxRuns \in Nat /\ run.session = 0 /\ runs' \in 0..MaxRuns /\ dirs \subseteq {prepared}
  BY <1>2, WorkerConstants DEF WorkerInv, Asked, Prepares, Runs
<1>4. \A q \in working : q.method = "session/prompt" => lapsed
  BY <1>2 DEF WorkerInv, Works, Running
<1> HIDE DEF r
<1>5. CASE Take(r, prepared, pending, working) /\ UNCHANGED broken
  BY <1>1, <1>2, <1>3, <1>5, TakeStep
<1>6. CASE /\ run' = r /\ ~settled
           /\ UNCHANGED <<pending, working, cancelled, prepared, settled, flag, requested, dirs, broken, prompted>>
  <2>1. Asked'
    BY <1>1, <1>2, <1>3, <1>6 DEF WorkerInv, Asked
  <2>2. Prepares' /\ Runs' /\ Prompts' /\ OwnOutput'
    BY <1>1, <1>2, <1>3, <1>6 DEF WorkerInv, Prepares, Runs, Prompts, OwnOutput
  <2>3. Works'
    BY <1>2, <1>4, <1>6 DEF Works
  <2> QED
    BY <1>2, <1>6, <2>1, <2>2, <2>3 DEF WorkerInv
<1>7. CASE /\ broken' = TRUE /\ prepared' = 0 /\ flag' = FALSE /\ dirs' = dirs \ {prepared}
           /\ UNCHANGED <<pending, working, cancelled, settled, requested, run, prompted>>
  <2>1. Asked'
    BY <1>2, <1>3, <1>7 DEF WorkerInv, Asked
  <2>2. Prepares' /\ Runs' /\ Prompts' /\ OwnOutput'
    BY <1>2, <1>3, <1>7 DEF WorkerInv, Prepares, Runs, Prompts, OwnOutput
  <2>3. Works'
    BY <1>2, <1>4, <1>7 DEF Works
  <2> QED
    BY <1>2, <1>7, <2>1, <2>2, <2>3 DEF WorkerInv
<1> QED
  BY <1>5, <1>6, <1>7 DEF RunStarts, r

\* The prepared session arrives; a run that waits takes it.
LEMMA PreparedArrivesStep ==
  ASSUME WorkerInv, PreparedArrives
  PROVE  WorkerInv'
<1> DEFINE q == Ask("session/new", prepared)
<1>1. q \in pending /\ q \in working /\ q \in Request /\ pending \subseteq Request /\ working \subseteq Request
  BY DEF PreparedArrives, WorkerInv, Asked
<1>2. q.method = "session/new" /\ q.session = prepared
  BY DEF Ask
<1> HIDE DEF q
<1>3. prepared # 0 /\ prepared = requested /\ UNCHANGED <<closed, exited, broken, runs, lapsed>> /\ init' = "ready"
  BY <1>1, <1>2 DEF PreparedArrives, WorkerInv, Asked, Prepares
<1>4. CASE run.phase = "taking"
  <2>1. Take(run, prepared, pending \ {q}, working \ {q})
    BY <1>4 DEF PreparedArrives, q
  <2>2. run \in Run /\ run.session = 0 /\ requested <= runs /\ runs' \in 0..MaxRuns
    BY <1>3, <1>4 DEF WorkerInv, Asked, Runs
  <2>3. lapsed \/ run.output = {}
    <3>1. run.output \subseteq Sessions /\ 0 \notin Sessions
      BY <2>2, WorkerConstants DEF Run
    <3> QED
      BY <2>2, <3>1 DEF WorkerInv, OwnOutput
  <2> QED
    BY <1>3, <1>4, <2>1, <2>2, <2>3, TakeStep
<1>5. CASE run.phase # "taking"
  <2>1. /\ settled' = TRUE /\ flag' = TRUE /\ Sends(pending \ {q}, working \ {q}, {})
        /\ UNCHANGED <<cancelled, prepared, requested, dirs, run, prompted>>
    BY <1>5 DEF PreparedArrives, q
  <2>2. pending' \subseteq pending /\ working' \subseteq working
    BY <2>1 DEF Sends, Sendable
  <2>3. Asked' /\ Prepares' /\ Runs' /\ Prompts' /\ OwnOutput'
    BY <1>3, <1>5, <2>1, <2>2 DEF WorkerInv, Asked, Prepares, Runs, Prompts, OwnOutput
  <2>4. Works'
    BY <1>3, <2>1, <2>2 DEF WorkerInv, Works, Running
  <2> QED
    BY <1>3, <2>1, <2>3, <2>4 DEF WorkerInv
<1> QED
  BY <1>4, <1>5

\* The prepared session cannot be had.
LEMMA PreparedFailsStep ==
  ASSUME WorkerInv, PreparedFails
  PROVE  WorkerInv'
<1>1. /\ pending' \subseteq pending /\ working' \subseteq working
      /\ broken' = TRUE /\ settled' = TRUE /\ flag' = FALSE /\ dirs' = dirs \ {prepared}
      /\ init' \in {init, "failed"} /\ UNCHANGED <<cancelled, closed, exited, requested, runs, prompted, lapsed>>
      /\ IF run.phase = "taking" THEN prepared' = 0 /\ run' = NoRun ELSE UNCHANGED <<prepared, run>>
  BY DEF PreparedFails, Answered, TimedOut
<1>2. CASE run.phase = "taking"
  <2>1. /\ run.session = 0 /\ run' = NoRun /\ prepared' = 0
        /\ init \notin {"initialize", "authenticate", "session/new"}
    BY <1>1, <1>2, NoRunProps DEF WorkerInv, Runs, Prepares
  <2>2. Asked' /\ Runs' /\ Prompts' /\ OwnOutput'
    BY <1>1, <2>1, NoRunProps DEF WorkerInv, Asked, Runs, Prompts, OwnOutput
  <2>3. Prepares'
    BY <1>1, <2>1, NoRunProps DEF WorkerInv, Prepares
  <2>4. Works'
    BY <1>1, <1>2, <2>1, NoRunProps DEF WorkerInv, Works, Running
  <2> QED
    BY <1>1, <2>2, <2>3, <2>4 DEF WorkerInv
<1>3. CASE run.phase # "taking"
  <2>1. UNCHANGED <<prepared, run>>
    BY <1>1, <1>3
  <2>2. Asked' /\ Runs' /\ Prompts' /\ OwnOutput'
    BY <1>1, <2>1 DEF WorkerInv, Asked, Runs, Prompts, OwnOutput
  <2>3. Prepares'
    BY <1>1, <1>3, <2>1 DEF WorkerInv, Prepares
  <2>4. Works'
    <3>1. ASSUME NEW q \in working', q.method = "session/prompt"
          PROVE  lapsed \/ run.phase = "none" \/ (run.phase = "prompting" /\ q.session = run.session)
      BY <1>1, <3>1 DEF WorkerInv, Works, Running
    <3> QED
      BY <1>1, <2>1, <3>1 DEF Works, Running
  <2> QED
    BY <1>1, <2>2, <2>3, <2>4 DEF WorkerInv
<1> QED
  BY <1>2, <1>3

\* A run that has a session ends: with the answer to its prompt, broken, given up
\* by its caller, or before it prompted.
LEMMA EndRunStep ==
  ASSUME WorkerInv, NEW b \in {broken, TRUE}, NEW q \in Request, NEW ws \in SUBSET working,
         EndRun(b, pending \ {q}, ws), run.session # 0, lapsed' \in BOOLEAN, lapsed => lapsed',
         b = TRUE \/ lapsed' \/ run.phase # "prompting" \/ Ask("session/prompt", run.session) \notin ws,
         UNCHANGED <<prompted, closed, exited, init, runs>>
  PROVE  WorkerInv'
<1>1. /\ run.phase \notin {"none", "taking"} /\ run.session < requested /\ run.session \in Sessions
      /\ run' = NoRun /\ broken' = b /\ pending' = pending \ {q} /\ working' = ws
      /\ dirs' = dirs \ {run.session} /\ UNCHANGED <<prepared, settled, flag, requested>>
      /\ Cancels(run.session)
  BY DEF WorkerInv, Runs, Run, EndRun, Sends, Sendable
<1>2. Asked' /\ Runs' /\ Prompts' /\ OwnOutput'
  BY <1>1, NoRunProps DEF WorkerInv, Asked, Runs, Prompts, OwnOutput
<1>3. Prepares'
  <2>1. broken' \in BOOLEAN /\ (broken => broken')
    BY <1>1 DEF WorkerInv, Prepares
  <2> QED
    BY <1>1, <2>1, NoRunProps DEF WorkerInv, Prepares
<1>4. Works'
  <2>1. ASSUME NEW x \in ws, x.method = "session/prompt"
        PROVE  lapsed' \/ b = TRUE
    <3>1. lapsed \/ (run.phase = "prompting" /\ x.session = run.session)
      BY <1>1, <2>1 DEF WorkerInv, Works, Running
    <3>2. CASE x.session = run.session /\ run.phase = "prompting"
      <4>1. x = Ask("session/prompt", run.session)
        BY <2>1, <3>2 DEF WorkerInv, Asked, Request, Ask
      <4> QED
        BY <2>1, <3>2, <4>1
    <3> QED
      BY <3>1, <3>2
  <2> QED
    BY <1>1, <2>1, NoRunProps DEF Works, Running
<1>5. cancelled' \subseteq Sessions
  BY <1>1 DEF WorkerInv, Cancels
<1> QED
  BY <1>2, <1>3, <1>4, <1>5 DEF WorkerInv

\* An option of the run's session is set: one more is, or the run prompts.
LEMMA OptionSetStep ==
  ASSUME WorkerInv, OptionSet
  PROVE  WorkerInv'
<1> DEFINE q == Ask("session/set_config_option", run.session)
           p == Ask("session/prompt", run.session)
<1>1. /\ run \in Run /\ run.phase = "configuring" /\ run.session \in Sessions /\ run.session < requested
      /\ prompted \in [Sessions -> {0, 1}] /\ prompted[run.session] = 0 /\ requested \in Nat
  BY DEF OptionSet, WorkerInv, Runs, Run, Prompts, Asked
<1>2. /\ UNCHANGED <<cancelled, closed, exited, runs, lapsed, init, broken, prepared, settled, flag, requested, dirs>>
  BY DEF OptionSet, workerVars
<1>3. p \in Request /\ p.method = "session/prompt" /\ p.session = run.session
  BY <1>1, AskProps DEF Methods
<1>4. \A s \in Sessions : s \in Nat
  BY WorkerConstants
<1>5. \/ /\ run.options < MaxOptions /\ run' = [run EXCEPT !.options = @ + 1]
         /\ UNCHANGED <<pending, working, prompted>>
      \/ /\ run' = [run EXCEPT !.phase = "prompting"] /\ Sends(pending \ {q}, working \ {q}, {p})
         /\ prompted' = [prompted EXCEPT ![run.session] = @ + 1]
  BY DEF OptionSet
<1> HIDE DEF q, p
<1>6. init \notin {"initialize", "authenticate", "session/new"}
  BY <1>1, NoRunProps DEF WorkerInv, Prepares
<1>7. CASE /\ run.options < MaxOptions /\ run' = [run EXCEPT !.options = @ + 1]
           /\ UNCHANGED <<pending, working, prompted>>
  <2>1. run.options + 1 \in 0..MaxOptions
    BY <1>1, <1>7, WorkerConstants DEF Run
  <2>2. /\ run' \in Run /\ run'.phase = "configuring" /\ run'.session = run.session /\ run'.output = run.output
    BY <1>1, <1>7, <2>1 DEF Run
  <2>3. Asked' /\ Runs' /\ Prompts' /\ OwnOutput'
    BY <1>1, <1>2, <1>7, <2>2 DEF WorkerInv, Asked, Runs, Prompts, OwnOutput
  <2>4. Prepares'
    BY <1>1, <1>2, <1>6, <2>2 DEF WorkerInv, Prepares
  <2>5. Works'
    BY <1>1, <1>2, <1>7, <2>2 DEF WorkerInv, Works, Running
  <2> QED
    BY <1>2, <2>3, <2>4, <2>5 DEF WorkerInv
<1>8. CASE /\ run' = [run EXCEPT !.phase = "prompting"] /\ Sends(pending \ {q}, working \ {q}, {p})
           /\ prompted' = [prompted EXCEPT ![run.session] = @ + 1]
  <2>1. /\ run' \in Run /\ run'.phase = "prompting" /\ run'.session = run.session /\ run'.output = run.output
    BY <1>1, <1>8 DEF Run
  <2>2. /\ pending' \subseteq Request /\ working' \subseteq Request /\ working' \subseteq (working \ {q}) \cup {p}
        /\ \A x \in pending' \cup working' :
             x.method \in {"session/new", "session/set_config_option", "session/prompt"} =>
               x.session # 0 /\ x.session <= requested
    <3>1. run.session # 0 /\ run.session <= requested
      BY <1>1, <1>4, WorkerConstants
    <3> QED
      BY <1>1, <1>3, <1>8, <3>1, SentWell DEF WorkerInv, Asked
  <2>3. Asked'
    BY <1>2, <2>1, <2>2 DEF WorkerInv, Asked
  <2>4. Runs' /\ OwnOutput'
    BY <1>1, <1>2, <2>1 DEF WorkerInv, Runs, OwnOutput
  <2>5. Prepares'
    BY <1>1, <1>2, <1>6, <2>1 DEF WorkerInv, Prepares
  <2>6. Prompts'
    <3>1. /\ prompted' \in [Sessions -> {0, 1}]
          /\ \A s \in Sessions : s # run.session => prompted'[s] = prompted[s]
      BY <1>1, <1>8
    <3>2. \A s \in Sessions : s >= requested => s # run.session /\ prompted[s] = 0
      BY <1>1, <1>4 DEF WorkerInv, Prompts
    <3> QED
      BY <1>2, <2>1, <3>1, <3>2 DEF Prompts
  <2>7. Works'
    <3>1. ASSUME NEW x \in working', x.method = "session/prompt"
          PROVE  lapsed \/ x.session = run.session
      <4>1. CASE x \in working
        BY <1>1, <3>1, <4>1 DEF WorkerInv, Works, Running
      <4> QED
        BY <1>3, <2>2, <3>1, <4>1
    <3> QED
      BY <1>2, <2>1, <3>1 DEF Works
  <2> QED
    BY <1>2, <2>3, <2>4, <2>5, <2>6, <2>7 DEF WorkerInv
<1> QED
  BY <1>5, <1>7, <1>8

\* The agent has answered the run's prompt.
LEMMA PromptAnsweredStep ==
  ASSUME WorkerInv, PromptAnswered
  PROVE  WorkerInv'
<1> DEFINE q == Ask("session/prompt", run.session)
<1>1. /\ run.phase = "prompting" /\ q \in pending /\ UNCHANGED <<prompted, closed, exited, init, runs, lapsed>>
      /\ \E b \in {broken, TRUE} : EndRun(b, pending \ {q}, working \ {q})
  <2>1. (broken \/ ~run.aborted) \in {broken, TRUE}
    BY DEF WorkerInv, Prepares, Runs, Run
  <2> QED
    BY <2>1 DEF PromptAnswered, FailRun
<1>2. PICK b \in {broken, TRUE} : EndRun(b, pending \ {q}, working \ {q})
  BY <1>1
<1>3. /\ run.session # 0 /\ q \in Request /\ lapsed' \in BOOLEAN /\ (lapsed => lapsed')
      /\ working \ {q} \in SUBSET working /\ q \notin working \ {q}
  BY <1>1 DEF WorkerInv, Runs, Asked
<1>4. UNCHANGED <<prompted, closed, exited, init, runs>>
  BY <1>1
<1> QED
  BY <1>2, <1>3, <1>4, EndRunStep

\* A request of the run fails.
LEMMA RunFailsStep ==
  ASSUME WorkerInv, RunFails
  PROVE  WorkerInv'
<1>1. PICK q \in pending :
        /\ run.session # 0
        /\ \/ FailRun(pending \ {q}, working) /\ lapsed' = (lapsed \/ (run.aborted /\ run.phase = "prompting"))
           \/ q \in working /\ run.phase = "configuring" /\ FailRun(pending \ {q}, working \ {q}) /\ UNCHANGED lapsed
        /\ UNCHANGED <<closed, exited, init, runs>>
  BY DEF RunFails
<1> DEFINE b == broken \/ ~run.aborted
<1>2. b \in {broken, TRUE} /\ run.aborted \in BOOLEAN /\ lapsed \in BOOLEAN /\ q \in Request
  BY DEF WorkerInv, Prepares, Runs, Run, Asked
<1>3. CASE FailRun(pending \ {q}, working) /\ lapsed' = (lapsed \/ (run.aborted /\ run.phase = "prompting"))
  <2>1. lapsed' \in BOOLEAN /\ (lapsed => lapsed') /\ (b = TRUE \/ lapsed' \/ run.phase # "prompting")
    BY <1>2, <1>3
  <2>2. EndRun(b, pending \ {q}, working) /\ UNCHANGED prompted
    BY <1>3 DEF FailRun
  <2> QED
    BY <1>1, <1>2, <2>1, <2>2, EndRunStep
<1>4. CASE run.phase = "configuring" /\ FailRun(pending \ {q}, working \ {q}) /\ UNCHANGED lapsed
  <2>1. EndRun(b, pending \ {q}, working \ {q}) /\ UNCHANGED prompted
    BY <1>4 DEF FailRun
  <2>2. lapsed' \in BOOLEAN /\ (lapsed => lapsed') /\ working \ {q} \in SUBSET working
        /\ run.phase # "prompting"
    BY <1>2, <1>4
  <2> QED
    BY <1>1, <1>2, <2>1, <2>2, EndRunStep
<1> QED
  BY <1>1, <1>3, <1>4

\* The caller aborts the run.
LEMMA AbortStep ==
  ASSUME WorkerInv, Abort
  PROVE  WorkerInv'
<1>1. /\ run \in Run /\ run.phase # "none" /\ run.session \in Sessions \cup {0}
      /\ run' = [run EXCEPT !.aborted = TRUE] /\ Cancels(run.session)
      /\ UNCHANGED <<pending, working, closed, exited, runs, prompted, lapsed>>
      /\ UNCHANGED <<init, broken, prepared, settled, flag, requested, dirs>>
  BY DEF Abort, Running, WorkerInv, Runs, Run, workerVars
<1>2. /\ run' \in Run /\ run'.phase = run.phase /\ run'.session = run.session /\ run'.output = run.output
  BY <1>1 DEF Run
<1>3. Asked' /\ Runs' /\ Prompts' /\ OwnOutput'
  BY <1>1, <1>2 DEF WorkerInv, Asked, Runs, Prompts, OwnOutput
<1>4. Prepares'
  BY <1>1, <1>2, NoRunProps DEF WorkerInv, Prepares
<1>5. Works'
  BY <1>1, <1>2 DEF WorkerInv, Works, Running
<1>6. cancelled' \subseteq Sessions
  BY <1>1 DEF WorkerInv, Cancels
<1> QED
  BY <1>1, <1>3, <1>4, <1>5, <1>6 DEF WorkerInv

\* Text comes from the agent: it works on the prompt of the current run alone,
\* unless an aborted run was given up.
LEMMA ChunkStep ==
  ASSUME WorkerInv, Chunk
  PROVE  WorkerInv'
<1>1. PICK q \in working : q.method = "session/prompt" /\ run' = [run EXCEPT !.output = @ \cup {q.session}]
  BY DEF Chunk
<1>2. /\ run \in Run /\ run.phase # "none" /\ q.session \in Sessions
      /\ UNCHANGED <<pending, working, cancelled, closed, exited, runs, prompted, lapsed>>
      /\ UNCHANGED <<init, broken, prepared, settled, flag, requested, dirs>>
  BY <1>1 DEF Chunk, Running, WorkerInv, Runs, Asked, Request, workerVars, connVars
<1>3. lapsed \/ q.session = run.session
  BY <1>1, <1>2 DEF WorkerInv, Works, Running
<1>4. /\ run' \in Run /\ run'.phase = run.phase /\ run'.session = run.session
      /\ run'.output = run.output \cup {q.session}
  BY <1>1, <1>2 DEF Run
<1>5. OwnOutput'
  BY <1>2, <1>3, <1>4 DEF WorkerInv, OwnOutput
<1>6. Asked' /\ Runs' /\ Prompts'
  BY <1>2, <1>4 DEF WorkerInv, Asked, Runs, Prompts
<1>7. Prepares'
  BY <1>2, <1>4, NoRunProps DEF WorkerInv, Prepares
<1>8. Works'
  BY <1>2, <1>4 DEF WorkerInv, Works, Running
<1> QED
  BY <1>2, <1>5, <1>6, <1>7, <1>8 DEF WorkerInv

\* All requests fail: the agent is gone, or the worker is closed.
LEMMA AllFailStep ==
  ASSUME WorkerInv, NEW closing \in BOOLEAN, AllFail(closing),
         pending' = {}, working' \subseteq working, working' = {} \/ closing,
         closed' \in BOOLEAN, exited' \in BOOLEAN, UNCHANGED <<cancelled, requested, runs, prompted, lapsed>>
  PROVE  WorkerInv'
<1> DEFINE waits == prepared # 0 /\ ~settled
<1>1. /\ run' = NoRun /\ prepared' = IF run.phase = "taking" THEN 0 ELSE prepared
      /\ init' = IF init = "ready" THEN init ELSE "failed"
      /\ broken' = (closing \/ broken \/ waits \/ Running \/ init # "ready")
      /\ settled' = (settled \/ waits) /\ flag' = (flag /\ ~waits)
      /\ dirs' = IF closing THEN {} ELSE dirs \ {run.session, IF waits THEN prepared ELSE 0}
  BY DEF AllFail
<1>2. broken' \in BOOLEAN /\ settled' \in BOOLEAN /\ flag' \in BOOLEAN
  BY <1>1 DEF WorkerInv, Prepares
<1>3. Asked' /\ Runs' /\ Prompts' /\ OwnOutput'
  BY <1>1, NoRunProps DEF WorkerInv, Asked, Runs, Prompts, OwnOutput
<1>4. Works'
  BY <1>1, NoRunProps DEF Works, Running
<1>5. init' \in {"ready", "failed"} /\ prepared' \in {0, requested'}
  BY <1>1 DEF WorkerInv, Prepares
<1>6. init' = "ready" => broken' \/ prepared' # 0
  BY <1>1 DEF WorkerInv, Prepares, Running
<1>7. flag' => settled' /\ prepared' # 0
  BY <1>1 DEF WorkerInv, Prepares
<1>8. dirs' \subseteq {prepared', run'.session} \ {0}
  <2>1. dirs \subseteq {prepared, run.session} \ {0} /\ (run.phase = "taking" => ~settled)
    BY DEF WorkerInv, Prepares
  <2> QED
    BY <1>1, <2>1, NoRunProps
<1>9. Prepares'
  BY <1>1, <1>2, <1>5, <1>6, <1>7, <1>8, NoRunProps DEF Prepares
<1> QED
  BY <1>3, <1>4, <1>9 DEF WorkerInv

\* The agent's process exits.
LEMMA ProcessExitsStep ==
  ASSUME WorkerInv, ProcessExits
  PROVE  WorkerInv'
BY AllFailStep DEF ProcessExits, ChildGone

\* The pool closes the worker.
LEMMA WorkerClosesStep ==
  ASSUME WorkerInv, WorkerCloses
  PROVE  WorkerInv'
<1>1. exited' \in BOOLEAN
  BY DEF WorkerInv, WorkerCloses
<1> QED
  BY <1>1, AllFailStep DEF WorkerCloses, CloseConnection

\* Every step preserves the invariant.
LEMMA WorkerNext ==
  ASSUME WorkerInv, [Next]_vars
  PROVE  WorkerInv'
<1>1. CASE UNCHANGED vars
  <2>1. /\ UNCHANGED <<pending, working, cancelled, closed, exited, runs, run, prompted, lapsed>>
        /\ UNCHANGED <<init, broken, prepared, settled, flag, requested, dirs>>
    BY <1>1 DEF vars, connVars, workerVars
  <2> QED
    BY <2>1 DEF WorkerInv, Asked, Prepares, Runs, Prompts, Works, Running, OwnOutput
<1>2. CASE Start \/ RunStarts \/ PreparedArrives \/ PreparedFails \/ OptionSet
  BY <1>2, StartStep, RunStartsStep, PreparedArrivesStep, PreparedFailsStep, OptionSetStep
<1>3. CASE PromptAnswered \/ RunFails \/ Abort \/ Chunk \/ ProcessExits \/ WorkerCloses
  BY <1>3, PromptAnsweredStep, RunFailsStep, AbortStep, ChunkStep, ProcessExitsStep, WorkerClosesStep
<1>4. CASE \E q \in pending : InitializeStep(q) \/ InitializeFails(q)
  BY <1>4, InitializeStepStep, InitializeFailsStep
<1>5. CASE AnswerIgnored /\ UNCHANGED <<workerVars, runs, run, prompted, lapsed>>
  BY <1>5, AnswerIgnoredStep
<1> QED
  BY <1>1, <1>2, <1>3, <1>4, <1>5 DEF Next

-----------------------------------------------------------------------------
\* The invariant of a worker, its connection and its agent.
THEOREM WorkerInvariant == Spec => []WorkerInv
<1>1. Init => WorkerInv
  BY WorkerInit
<1>2. WorkerInv /\ [Next]_vars => WorkerInv'
  BY WorkerNext
<1> QED
  BY <1>1, <1>2, PTL DEF Spec

\* The worker's parts agree: the prepared session is announced only when it is
\* there, and the workspaces on disk are the prepared session's and the run's.
THEOREM WorkerTypes == Spec => []TypeOK
<1>1. WorkerInv => TypeOK
  <2> SUFFICES ASSUME WorkerInv PROVE TypeOK
    OBVIOUS
  <2>1. Cardinality(Sessions) = MaxRuns + 1
    BY WorkerConstants, FS_Interval
  <2>2. requested \in 0..Cardinality(Sessions) /\ prepared \in Sessions \cup {0}
    BY <2>1, WorkerConstants DEF WorkerInv, Asked, Prepares
  <2>3. prompted \in [Sessions -> 0..MaxRuns]
    BY WorkerConstants DEF WorkerInv, Prompts, Asked
  <2> QED
    BY <2>2, <2>3 DEF WorkerInv, TypeOK, ConnTypeOK, Asked, Prepares, Runs
<1> QED
  BY <1>1, WorkerInvariant, PTL

\* A session of the agent serves one prompt at most: no run of a worker sees what
\* another one asked.
THEOREM SessionsServeOneRun == Spec => []OneRunPerSession
<1>1. WorkerInv => OneRunPerSession
  BY DEF WorkerInv, Prompts, OneRunPerSession
<1> QED
  BY <1>1, WorkerInvariant, PTL

\* Text of one run never reaches the caller of another, although the worker does
\* not look at the session of an update, unless an aborted run was given up while
\* the agent still worked on its prompt.
THEOREM TextStaysOwn == Spec => []OwnOutput
<1>1. WorkerInv => OwnOutput
  BY DEF WorkerInv
<1> QED
  BY <1>1, WorkerInvariant, PTL
=============================================================================

------------------------------- MODULE Requests -------------------------------
(* The three protocol handlers (src/protocols/handlers) on requests that       *)
(* keep no turn open: from the arrival to the end of the response, the account *)
(* counters, the temporary workspace, the repairs of stateless tool output,    *)
(* the client leaving and the shutdown of the gateway.  A run ends and its     *)
(* handler answers in one step: only microtasks lie between.                   *)
EXTENDS Accounts, AgentRuns

CONSTANTS Requests,   \* requests, each served once
          Kinds,      \* [api, stream, isolated, stateless, lane]
          Configs,    \* [acp, pools, rotating]
          MaxRepairs  \* config.statelessRepairRetries

ASSUME RequestsAssumption ==
  /\ IsFiniteSet(Requests) /\ MaxRepairs \in Nat
  /\ Kinds \subseteq [api : {"chat", "responses", "messages"}, stream : BOOLEAN, isolated : BOOLEAN,
                     stateless : BOOLEAN, lane : {"interactive", "batch"}]

VARIABLES config, gateway, req, accounts

vars == <<config, gateway, req, accounts>>

Fresh(k) == [kind |-> k, phase |-> "idle", account |-> NoAccount, gone |-> FALSE,
             head |-> "none", text |-> {}, last |-> "none", ended |-> FALSE,
             status |-> "none", workspace |-> FALSE, attempt |-> 0, run |-> NoRun]

Init ==
  /\ config \in Configs
  /\ gateway = "up"
  /\ req \in [Requests -> {Fresh(k) : k \in {k \in Kinds : k.stateless => config.acp}}]
  /\ accounts = FreshPool

Up == gateway # "down"

Becomes(r, q) == req' = [req EXCEPT ![r] = q]

-------------------------------------------------------------------------------
(* The answer                                                                  *)

Over(q) == [q EXCEPT !.phase = "done"]

End(q) == [q EXCEPT !.phase = "done", !.ended = TRUE]

Json(q, status) ==
  [End(q) EXCEPT !.head = IF @ = "none" THEN "json" ELSE @, !.status = status]

\* Mutant: the ACP stream of a run that throws is ended in silence, as the
\* stream of the CLI is.
CutShort(q, e) == End(StartStream(q))

\* The catch branch of the ACP streams: the error event, and the marker after it.
Report(q, e) == End(Write(q, e))

\* What the three catch branches share.
Thrown(q, o, e) ==
  IF q.gone THEN End(q)
  ELSE IF o = "queue" /\ q.head = "none" THEN Json(q, "busy") ELSE Report(q, e)

\* The ACP streams.  Chat and responses close with "[DONE]" after their last or
\* their error event, written also to a client that has left.
ChatStream(q, o) ==
  IF o \in {"queue", "threw"} THEN Thrown(q, o, "[DONE]")
  ELSE IF o = "failed" /\ ~q.gone THEN End(Write(Write(q, "error"), "[DONE]"))
  ELSE End(Write(Write(q, "stop"), "[DONE]"))

ResponsesStream(q, o) ==
  IF o \in {"queue", "threw"} THEN Thrown(q, o, "[DONE]")
  ELSE IF o = "failed" /\ ~q.gone THEN End(Write(Write(q, "error"), "[DONE]"))
  ELSE End(Write(Write(q, "response.completed"), "[DONE]"))

\* Messages close with their last or their error event, and write nothing to a
\* client that has left.
MessagesStream(q, o) ==
  IF o \in {"queue", "threw"} THEN Thrown(q, o, "error")
  ELSE IF q.gone THEN End(q)
  ELSE End(Write(q, IF o = "ok" THEN "message_stop" ELSE "error"))

\* The streams of the CLI handlers: the parser of the CLI's lines has closed
\* them, or nothing has.
CliStream(q, o) ==
  IF o \in {"queue", "threw"} /\ ~q.gone THEN End(StartStream(q)) ELSE End(q)

StreamAnswer(q, o) ==
  IF ~config.acp THEN CliStream(q, o)
  ELSE CASE q.kind.api = "chat"      -> ChatStream(q, o)
         [] q.kind.api = "responses" -> ResponsesStream(q, o)
         [] q.kind.api = "messages"  -> MessagesStream(q, o)

\* The repair of an unusable tool output: a new workspace and a run of its own.
Repair(q, workspaceFails) ==
  IF q.attempt >= MaxRepairs \/ (workspaceFails /\ ~q.gone) THEN Json(q, "exhausted")
  ELSE IF q.gone THEN Over(q)
  ELSE StartRun(config, [q EXCEPT !.attempt = @ + 1, !.workspace = q.kind.isolated])

Usable(q) ==
  [Json(q, "ok") EXCEPT !.text = @ \cup (IF q.run.emitted THEN {q.run.number} ELSE {})]

\* The end of a repair: a client that left gets nothing, a full queue is
\* reported, anything else is one more attempt.
RepairAnswer(q, o, usable, workspaceFails) ==
  IF o = "ok" /\ usable THEN Usable(q)
  ELSE IF o \in {"queue", "threw"} /\ q.gone THEN Over(q)
  ELSE IF o = "queue" THEN Json(q, "busy") ELSE Repair(q, workspaceFails)

\* The end of a run whose answer is one JSON body; what is no error of the queue
\* is thrown on to the router, which answers with 500.
SyncAnswer(q, o, usable, workspaceFails) ==
  IF q.attempt > 0 THEN RepairAnswer(q, o, usable, workspaceFails)
  ELSE IF o = "ok" THEN IF usable \/ ~q.kind.stateless THEN Usable(q) ELSE Repair(q, workspaceFails)
  ELSE IF o = "queue" THEN IF q.gone THEN Over(q) ELSE Json(q, "busy")
  ELSE Json(q, IF o = "failed" THEN "failed" ELSE "crashed")

\* Mutant: a repair that throws returns without reporting its end.
TallyOpen(p, q, n, o) ==
  LET e == IF o = "threw" /\ q.attempt > 0 THEN p ELSE ReportEnd(p, q.account)
  IN  IF n.phase = "run" THEN ReportStart(e, q.account) ELSE e

\* What the accounts are told of the run of q that ended with o and left n.
\* A stream whose client left counts neither way; a body counts as it was sent.
Tally(p, q, n, o) ==
  LET e == ReportEnd(p, q.account)
      failed == IF q.kind.stream THEN ~q.gone /\ o # "ok"
                ELSE n.status \in {"failed", "exhausted"}
                       \/ (n.status = "busy" /\ q.attempt = 0)
      passed == IF q.kind.stream THEN ~q.gone /\ o = "ok" ELSE n.status = "ok"
  IN  IF n.phase = "run" THEN ReportStart(e, q.account)
      ELSE IF passed THEN Counted(e, q.account, "success")
      ELSE IF failed THEN Counted(e, q.account, "errors") ELSE e

\* Mutant: cleanupRun is called before the run is awaited, not in the finally.
CleanupMissed(q, o) == [q EXCEPT !.workspace = @ /\ o = "threw"]

\* The finally of runAgentSync and runAgentStream.
CleanupRun(q, o) == [q EXCEPT !.workspace = FALSE]

\* The run of r, now q, settles: cleanupRun, then the handler's continuation.
Settle(r, q, o) ==
  \E usable, workspaceFails, limited \in BOOLEAN :
    LET c == CleanupRun(q, o)
        n == IF q.kind.stream THEN StreamAnswer(c, o)
             ELSE SyncAnswer(c, o, usable, workspaceFails)
        p == Tally(accounts, q, n, o)
    IN  /\ Becomes(r, n)
        /\ accounts' = IF limited /\ o \in {"ok", "failed"}
                       THEN ReportRateLimit(p, q.account) ELSE p
        /\ UNCHANGED <<config, gateway>>

-------------------------------------------------------------------------------
(* The request                                                                 *)

\* The router takes the request and waits for its body and the model catalogue.
Arrives(r) ==
  /\ gateway = "up" /\ req[r].phase = "idle"
  /\ Becomes(r, [req[r] EXCEPT !.phase = "read"])
  /\ UNCHANGED <<config, gateway, accounts>>

\* Refused before any run: the key, the route, the tools, the effort, the mode
\* or the workspace.
Refused(r) ==
  /\ Up /\ req[r].phase = "read"
  /\ Becomes(r, Json(req[r], "refused"))
  /\ UNCHANGED <<config, gateway, accounts>>

\* The prompt does not fit the command line: the workspace is made by then, and
\* nothing removes it.
PromptRefused(r) ==
  /\ Up /\ req[r].phase = "read"
  /\ Becomes(r, [Json(req[r], "refused") EXCEPT !.workspace = req[r].kind.isolated])
  /\ UNCHANGED <<config, gateway, accounts>>

Begins(r) ==
  /\ Up /\ req[r].phase = "read"
  /\ LET a == IF config.rotating THEN NextAccount(accounts) ELSE NoAccount
         q == [req[r] EXCEPT !.phase = "run", !.account = a, !.workspace = @ \/ req[r].kind.isolated]
     IN  /\ Becomes(r, StartRun(config, q))
         /\ accounts' = ReportStart(Taken(accounts, a), a)
  /\ UNCHANGED <<config, gateway>>

On(r, path) == Up /\ req[r].phase = "run" /\ req[r].run.path = path

PoolAcquired(r) ==
  /\ On(r, "pool") /\ ~req[r].run.started /\ ~req[r].gone
  /\ Becomes(r, Acquire(req[r]))
  /\ UNCHANGED <<config, gateway, accounts>>

Emits(r) ==
  /\ Up /\ req[r].phase = "run" /\ req[r].run.started /\ ~req[r].run.parsed
  /\ req[r].run.path = "oneshot" => req[r].run.step = "prompt"
  /\ Becomes(r, Emit(req[r]))
  /\ UNCHANGED <<config, gateway, accounts>>

PoolReturns(r) ==
  On(r, "pool") /\ req[r].run.started /\ Settle(r, req[r], "ok")

\* The queue refuses only before a worker was taken; any other failure may come
\* at any time, the closing of the pool among them.
PoolThrows(r) ==
  /\ On(r, "pool")
  /\ \E queueError \in BOOLEAN :
       /\ queueError => ~req[r].run.started
       /\ IF FallsBack(req[r], queueError)
          THEN /\ Becomes(r, CompatibilityRun(req[r]))
               /\ UNCHANGED <<config, gateway, accounts>>
          ELSE Settle(r, req[r], IF queueError THEN "queue" ELSE "threw")

\* initialize, authenticate, session/new and the options of the session have
\* been answered one after the other: the prompt is sent.
OneShotSetUp(r) ==
  /\ On(r, "oneshot") /\ req[r].run.step = "setup"
  /\ Becomes(r, [req[r] EXCEPT !.run.step = "prompt"])
  /\ UNCHANGED <<config, gateway, accounts>>

OneShotPrompted(r) ==
  /\ On(r, "oneshot") /\ req[r].run.step = "prompt"
  /\ Settle(r, OneShotFinish(req[r]), "ok")

\* An error answer, a late one, no session, an unknown model: finish(1).
OneShotBreaks(r) ==
  On(r, "oneshot") /\ Settle(r, OneShotFinish(req[r]), "failed")

\* A process closes with code 0 or another, whether or not it was asked to.
ChildCloses(r) ==
  /\ Up /\ req[r].phase = "run" /\ req[r].run.child \in Running \cup {"killed"}
  /\ \E o \in {"ok", "failed"} : Settle(r, [req[r] EXCEPT !.run.child = "gone"], o)

\* The process could not be started.
SpawnFails(r) ==
  /\ Up /\ req[r].phase = "run" /\ req[r].run.child \in Running
  /\ req[r].run.step = "setup" /\ ~req[r].run.emitted /\ ~req[r].run.parsed
  /\ Settle(r, [req[r] EXCEPT !.run.child = "gone"], "threw")

CliResult(r) ==
  /\ On(r, "cli") /\ ~req[r].run.parsed /\ req[r].kind.stream
  /\ Becomes(r, ParseResult(config, req[r]))
  /\ UNCHANGED <<config, gateway, accounts>>

\* Mutant: the CLI that takes too long is asked to stop instead of killed.
TimesOutGently(r) ==
  \/ On(r, "oneshot") /\ Settle(r, OneShotFinish(req[r]), "failed")
  \/ /\ On(r, "cli") /\ req[r].run.child = "alive"
     /\ Becomes(r, [req[r] EXCEPT !.run.child = "term"])
     /\ UNCHANGED <<config, gateway, accounts>>

\* The run's own timer: the one-shot client answers 124, the CLI is killed and
\* its close awaited.
TimesOut(r) ==
  \/ On(r, "oneshot") /\ Settle(r, OneShotFinish(req[r]), "failed")
  \/ /\ On(r, "cli") /\ req[r].run.child \in Running
     /\ Becomes(r, [req[r] EXCEPT !.run.child = "killed"])
     /\ UNCHANGED <<config, gateway, accounts>>

\* The response closes before its end: abortOnClientDisconnect.
ClientLeaves(r) ==
  /\ Up /\ req[r].phase \in {"read", "run"} /\ ~req[r].gone
  /\ Becomes(r, Abort(req[r]))
  /\ UNCHANGED <<config, gateway, accounts>>

AccountRecovers ==
  /\ Up /\ accounts.limited # <<>>
  /\ accounts' = Recovered(accounts)
  /\ UNCHANGED <<config, gateway, req>>

\* A signal: the pools close, every tracked child is told to stop.
Shutdown ==
  /\ gateway = "up" /\ gateway' = "closing"
  /\ req' = [r \in Requests |-> KillTracked(req[r])]
  /\ UNCHANGED <<config, accounts>>

\* The connections have been closed, so every open response has seen its client
\* leave: the process exits, waiting for no child.
Exit ==
  /\ gateway = "closing" /\ gateway' = "down"
  /\ \A r \in Requests : req[r].phase \in {"read", "run"} => req[r].gone
  /\ UNCHANGED <<config, req, accounts>>

PoolSettles(r) == PoolReturns(r) \/ PoolThrows(r)

RunSteps(r) ==
  \/ PoolAcquired(r) \/ Emits(r) \/ PoolSettles(r) \/ CliResult(r)
  \/ OneShotSetUp(r) \/ OneShotPrompted(r) \/ OneShotBreaks(r)
  \/ ChildCloses(r) \/ SpawnFails(r) \/ TimesOut(r)

Next ==
  \/ \E r \in Requests :
       Arrives(r) \/ Refused(r) \/ PromptRefused(r) \/ Begins(r) \/ RunSteps(r) \/ ClientLeaves(r)
  \/ AccountRecovers \/ Shutdown \/ Exit

Spec == Init /\ [][Next]_vars

\* The pool settles every call (ExecutionPool), the timer of a run fires, a
\* killed process closes.
Fairness ==
  \A r \in Requests :
    /\ WF_vars(PoolSettles(r)) /\ WF_vars(TimesOut(r))
    /\ WF_vars(req[r].run.child = "killed" /\ ChildCloses(r))

FairSpec == Spec /\ Fairness

-------------------------------------------------------------------------------
(* Properties                                                                  *)

\* accounts.ts:106: activeRequests, from which the next account is chosen, is
\* the number of runs in progress on the account, on every path out of a run.
ActiveAccounted ==
  \A a \in Accounts :
    accounts.count["active"][a] =
      Cardinality({r \in Requests : req[r].phase = "run" /\ req[r].account = a})

\* executor.ts:522: a response never mixes the text of two runs, whichever
\* failed, was retried with the CLI or was repaired.
OneSource == \A r \in Requests : Cardinality(req[r].text) <= 1

\* openai-chat.ts:849, anthropic-messages.ts:836: no ACP stream ends, while its
\* client reads, without what tells the client that it has ended.
StreamsClosed ==
  \A r \in Requests : LET q == req[r] IN
    config.acp /\ q.head = "sse" /\ q.ended /\ ~q.gone =>
      q.last \in IF q.kind.api = "messages" THEN {"message_stop", "error"} ELSE {"[DONE]"}

\* executor.ts:464: the temporary workspace is there while a process may work in
\* it and is removed once the request is done.  The refusals of a prompt too
\* long for the command line are left out: they leave the directory behind.
WorkspaceLifetime ==
  \A r \in Requests :
    req[r].kind.isolated /\ req[r].status # "refused" =>
      /\ req[r].run.child \in Running => req[r].workspace
      /\ req[r].phase = "done" => ~req[r].workspace

\* server.ts:86: when the gateway exits, no agent process is left that was never
\* told to stop, also not one that the closing of the pool made a request spawn.
NoAgentUntold ==
  gateway = "down" => \A r \in Requests : req[r].run.child # "alive"

\* Every run ends its request, whatever the agent does, unless the gateway exits.
RequestsEnd ==
  \A r \in Requests : req[r].phase = "run" ~> (req[r].phase = "done" \/ gateway = "down")
===============================================================================

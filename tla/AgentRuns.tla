------------------------------- MODULE AgentRuns -------------------------------
(* One execution of the agent for a request, as src/provider/executor.ts       *)
(* chooses it: a run on the ACP worker pool, a one-shot ACP process            *)
(* (src/acp/session-client.ts) or a CLI process                                *)
(* (src/runtime/subprocess.ts), and what it writes to the response.  The       *)
(* pool is known here by its outcomes only; ExecutionPool models it.           *)
EXTENDS Naturals

NoRun == [number |-> 0, path |-> "none", step |-> "none", started |-> FALSE,
          emitted |-> FALSE, parsed |-> FALSE, child |-> "none", tracked |-> FALSE]

Running == {"alive", "term"}

\* The lane whose pool serves the request; repairs always ask for "batch".
Lane(q) == IF q.attempt > 0 THEN "batch" ELSE q.kind.lane

\* shouldUsePooledAcp and the branches around it: a lane that has a pool never
\* uses the one-shot mode, also when its request cannot be pooled.
PathOf(cfg, q) ==
  IF ~cfg.acp THEN "cli"
  ELSE IF Lane(q) \notin cfg.pools THEN "oneshot"
  ELSE IF q.kind.isolated /\ ~cfg.rotating THEN "pool" ELSE "cli"

\* startStream: the event-stream headers, once.
StartStream(q) == [q EXCEPT !.head = IF @ = "none" THEN "sse" ELSE @]

\* onStarted, which only streams pass.
OnStarted(q) == IF q.kind.stream THEN StartStream(q) ELSE q

\* A child whose client has left already is told to stop at once.
Spawn(q, path) ==
  OnStarted([q EXCEPT !.run =
    [NoRun EXCEPT !.number = q.run.number + 1, !.path = path, !.step = "setup",
                  !.started = TRUE, !.tracked = TRUE,
                  !.child = IF q.gone THEN "term" ELSE "alive"]])

\* runCliCompatibilitySync and runCliCompatibilityStream: what a pooled run that
\* failed is followed by.
CompatibilityRun(q) == Spawn(q, "cli")

EnterPool(q) ==
  [q EXCEPT !.run = [NoRun EXCEPT !.number = q.run.number + 1, !.path = "pool"]]

StartRun(cfg, q) ==
  IF PathOf(cfg, q) = "pool" THEN EnterPool(q) ELSE Spawn(q, PathOf(cfg, q))

\* onAcquired: a worker took the run.
Acquire(q) == OnStarted([q EXCEPT !.run.started = TRUE])

\* An event is written unless the response has ended; `last` is the latest.
Write(q, e) == [StartStream(q) EXCEPT !.last = e]

\* Text of the agent: streamed at once, or kept for the answer.
Emit(q) ==
  LET heard == [q EXCEPT !.run.emitted = TRUE]
  IN  IF q.kind.stream
      THEN [Write(heard, "text") EXCEPT !.text = @ \cup {q.run.number}]
      ELSE heard

\* The line of the CLI that announces its result: its stream parser is done, and
\* the CLI handlers close the events with it.
ParseResult(cfg, q) ==
  LET parsed == [q EXCEPT !.run.parsed = TRUE]
  IN  IF cfg.acp THEN parsed
      ELSE Write(parsed, IF q.kind.api = "messages" THEN "message_stop" ELSE "[DONE]")

\* Mutant: a stream falls back although it has shown text of the pooled run.
FallsBackAlways(q, queueError) == ~q.gone /\ ~queueError

\* A pooled run that failed is tried once more with the CLI, except when its
\* client left, the queue refused it, or a stream has shown part of it.
FallsBack(q, queueError) ==
  ~q.gone /\ ~queueError /\ ~(q.kind.stream /\ q.run.emitted)

\* finish(): the group of the one-shot process is killed whatever it was doing.
OneShotFinish(q) == [q EXCEPT !.run.child = "killed"]

\* Mutant: the listener for the abort signal is not registered.
DeafAbort(q) == [q EXCEPT !.gone = TRUE]

\* The client is gone: the process is told to stop, the pooled run is cancelled.
Abort(q) ==
  [q EXCEPT !.gone = TRUE, !.run.child = IF @ = "alive" THEN "term" ELSE @]

\* killAllChildProcesses, which then forgets them all.
KillTracked(q) ==
  [q EXCEPT !.run.tracked = FALSE,
            !.run.child = IF q.run.tracked /\ @ = "alive" THEN "term" ELSE @]
================================================================================

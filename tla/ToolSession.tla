---------------------------- MODULE ToolSession ----------------------------
(***************************************************************************)
(* AcpToolSession of src/acp/tool-turn.ts: one tool turn, from the start   *)
(* of its prompt through any number of batches of tool calls to its close. *)
(*                                                                         *)
(* A turn is a record and every method a function on that record.  The     *)
(* synchronous part of close(), up to the first await that waits for input *)
(* or output, is CloseTurn; what follows those awaits is CloseDone.        *)
(***************************************************************************)
EXTENDS ExternalTools

CONSTANTS
  maxParallelToolCalls,  \* opts.maxParallelToolCalls
  requireToolCall        \* opts.requireToolCall

ASSUME TurnOptions ==
  /\ maxParallelToolCalls \in Nat \ {0} /\ requireToolCall \in BOOLEAN

Turn ==
  [state    : {"none", "binding", "opening", "open", "closing", "closed"},
   conn     : {"none", "own", "lease", "keep", "reused", "dropped"},
   prompt   : {"none", "running", "ok", "failed"},
   timer    : {"none", "active", "parked"},
   batch    : {"idle", "watching", "armed", "awaiting", "ending"},
   outcome  : {"none", "tool_calls", "completed", "error"},
   terminal : BOOLEAN,
   timedOut : BOOLEAN,
   calls    : [CallIds -> CallState]]

NoTurn ==
  [state |-> "none", conn |-> "none", prompt |-> "none", timer |-> "none",
   batch |-> "idle", outcome |-> "none", terminal |-> FALSE,
   timedOut |-> FALSE, calls |-> NoCalls]

IsClosed(t) == t.state \in {"closing", "closed"}

\* start(), first await: the bridge binds its port.
StartTurn(t, conn) == [t EXCEPT !.state = "binding", !.conn = conn]

\* #enterActive and #enterParked: one timer at a time.
EnterActive(t) == [t EXCEPT !.timer = "active", !.timedOut = FALSE]

\* Mutant: a parked turn has no timer.
ParkForever(t) == [t EXCEPT !.timer = "none"]

EnterParked(t) == [t EXCEPT !.timer = "parked"]

\* start(), the end: the session is set up and its prompt sent.
PromptSent(t) == EnterActive([t EXCEPT !.state = "open", !.prompt = "running"])

\* close(): idempotent.  "keep" is a lease to be released as reusable.
CloseTurn(t, reusable) ==
  IF IsClosed(t) THEN t
  ELSE [t EXCEPT !.state = "closing", !.timer = "none",
                 !.calls = RejectAll(@),
                 !.conn = IF @ = "lease" /\ reusable THEN "keep" ELSE @]

\* Mutant: a leased connection is good for another turn however this one ended.
CloseReusing(t, alive) ==
  [t EXCEPT !.state = "closed",
            !.conn = IF @ \in {"lease", "keep"} /\ alive THEN "reused" ELSE "dropped",
            !.prompt = IF @ = "running" THEN "failed" ELSE @]

\* Mutant: the prompt of a killed connection stays open.
CloseUnanswered(t, alive) ==
  [t EXCEPT !.state = "closed", !.conn = "dropped"]

\* close() after its awaits.  A connection that is killed fails its prompt.
CloseDone(t, alive) ==
  LET reusable == t.conn = "keep" \/ (t.conn = "lease" /\ t.terminal)
      conn == IF reusable /\ alive THEN "reused" ELSE "dropped"
  IN
  [t EXCEPT !.state = "closed", !.conn = conn,
            !.prompt = IF @ = "running" /\ conn = "dropped" THEN "failed" ELSE @]

\* The call listener of #waitForToolBatch arms its idle timer.
CallArrives(t) ==
  [t EXCEPT !.calls = CallTool(@), !.batch = IF @ = "watching" THEN "armed" ELSE @]

\* collect(), up to the race of the prompt and the batch of calls.
BeginCollect(t) ==
  IF t.state # "open" THEN [t EXCEPT !.outcome = "error"]
  ELSE [t EXCEPT !.batch = IF Pending(t.calls) # {} THEN "armed" ELSE "watching"]

\* A collect that closes the turn ends with that close, or at once if the turn
\* was closed already.
EndWith(t, outcome) ==
  [CloseTurn(t, FALSE) EXCEPT !.outcome = outcome,
                              !.batch = IF IsClosed(t) THEN "idle" ELSE "ending"]

\* The batch wins the race.  Calls rejected meanwhile leave the prompt to await.
BatchWins(t) ==
  IF Pending(t.calls) = {} THEN [t EXCEPT !.batch = "awaiting"]
  ELSE IF Cardinality(Pending(t.calls)) > maxParallelToolCalls
  THEN EndWith(t, "error")
  ELSE EnterParked([t EXCEPT !.calls = MarkExposed(@), !.batch = "idle",
                             !.outcome = "tool_calls"])

\* The prompt wins, or has been awaited.
PromptWins(t) ==
  IF t.prompt = "failed" \/ (requireToolCall /\ TotalCalls(t.calls) = 0)
  THEN EndWith(t, "error")
  ELSE EndWith([t EXCEPT !.terminal = TRUE], "completed")

\* resume() of outputs the registry has checked.
ResumeTurn(t, outputs) ==
  LET active == EnterActive(t) IN
  BeginCollect([active EXCEPT !.calls = ResolveOutputs(@, outputs)])

\* The timer of either kind closes the turn.
TimerCloses(t) ==
  CloseTurn([t EXCEPT !.timedOut = (t.timer = "active")], FALSE)

CollectDone(t) == t.batch = "idle" /\ t.outcome # "none"
PromptSettled(t) ==
  t.batch \in {"watching", "armed", "awaiting"} /\ t.prompt \in {"ok", "failed"}
=============================================================================

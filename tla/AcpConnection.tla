---------------------------- MODULE AcpConnection ----------------------------
(***************************************************************************)
(* AcpConnection of src/acp/transport.ts: JSON-RPC requests to one agent   *)
(* process over its standard input and output.                             *)
(*                                                                         *)
(* A request is its method and the session it is about. Ids are left out:  *)
(* every request gets an id of its own, and no two requests of the same    *)
(* method and session are ever outstanding at once.                        *)
(***************************************************************************)
EXTENDS Naturals, FiniteSets

CONSTANT Sessions    \* sessions the agent may open, used in their order

VARIABLES
  pending,    \* #pending: the requests somebody awaits
  working,    \* requests the agent has and has not answered
  cancelled,  \* sessions whose cancellation the agent was told
  closed,     \* #closed
  exited      \* the child's "close" event has come

connVars == <<pending, working, cancelled, closed, exited>>

Methods == {"initialize", "authenticate", "session/new", "session/set_config_option", "session/prompt"}
Request == [method : Methods, session : Sessions \cup {0}]
Ask(method, s) == [method |-> method, session |-> s]

ConnTypeOK ==
  /\ pending \subseteq Request /\ working \subseteq Request
  /\ cancelled \subseteq Sessions /\ closed \in BOOLEAN /\ exited \in BOOLEAN

ConnInit == pending = {} /\ working = {} /\ cancelled = {} /\ closed = FALSE /\ exited = FALSE

\* request(): refused when the connection is closed. It returns the requests
\* that reach the agent, so that a caller can send several in one step.
Sendable(qs) == IF closed THEN {} ELSE qs

\* The agent answers a request that is still awaited: the waiter gets a result
\* or an error.
Answered(q) == q \in working \cap pending /\ pending' = pending \ {q} /\ working' = working \ {q}

\* An answer to a request that timed out is dropped.
AnswerIgnored ==
  /\ \E q \in working \ pending : working' = working \ {q}
  /\ ~exited /\ UNCHANGED <<pending, cancelled, closed, exited>>

\* The request's timer fires, or its write fails: the waiter is rejected, the
\* agent may go on with it.
TimedOut(q) == q \in pending /\ pending' = pending \ {q} /\ UNCHANGED working

\* notify("session/cancel"), dropped when the connection is closed.
Cancels(s) == cancelled' = IF closed THEN cancelled ELSE cancelled \cup ({s} \ {0})

\* close(): at most once; the pending requests fail, the process tree is killed.
CloseConnection == closed' = TRUE /\ pending' = {}

\* The child's "close" event: all pending requests fail.
ChildGone == exited' = TRUE /\ closed' = TRUE /\ pending' = {} /\ working' = {}
=============================================================================

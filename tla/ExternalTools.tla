--------------------------- MODULE ExternalTools ---------------------------
(***************************************************************************)
(* ExternalToolAdapter of src/acp/external-tools.ts: the private MCP       *)
(* server of one tool turn.  Each tools/call of the agent is parked until  *)
(* the client of the gateway returns its output; parked calls are shown to *)
(* the client in batches.                                                  *)
(*                                                                         *)
(* The state of an adapter is a function from call numbers to the state of *)
(* the call, so every operation is a function on such a function; it is    *)
(* part of the turn's record in ToolSession.                               *)
(***************************************************************************)
EXTENDS Integers, FiniteSets

CONSTANT MaxCalls  \* bound: tools/call requests the agent makes in one turn

ASSUME CallsAreBounded == MaxCalls \in Nat

CallIds == 1..MaxCalls
CallState == {"none", "parked", "exposed", "resolved", "rejected"}

NoCalls == [i \in CallIds |-> "none"]

\* #pending: what has() finds and pendingCalls() lists.
Pending(calls) == {i \in CallIds : calls[i] \in {"parked", "exposed"}}

TotalCalls(calls) == Cardinality({i \in CallIds : calls[i] # "none"})

\* The tools/call handler: a known tool of an open bridge gets the next id and
\* is parked (an unknown tool or a closed bridge is refused, nothing changes).
NextCall(calls) == TotalCalls(calls) + 1
CallTool(calls) == [calls EXCEPT ![NextCall(calls)] = "parked"]

\* markExposed() of all that is pending.
MarkExposed(calls) ==
  [i \in CallIds |-> IF i \in Pending(calls) THEN "exposed" ELSE calls[i]]

\* resolveOutputs(): all outputs name pending calls, or nothing is resolved.
ResolveOutputs(calls, outputs) ==
  [i \in CallIds |->
     IF outputs \subseteq Pending(calls) /\ i \in outputs THEN "resolved" ELSE calls[i]]

\* Mutant: the calls the client has seen stay open.
RejectParked(calls) ==
  [i \in CallIds |-> IF calls[i] = "parked" THEN "rejected" ELSE calls[i]]

\* rejectAll(), from close() of the adapter or of the turn.
RejectAll(calls) ==
  [i \in CallIds |-> IF i \in Pending(calls) THEN "rejected" ELSE calls[i]]
=============================================================================

----------------------------- MODULE ToolTurns -----------------------------
(***************************************************************************)
(* Tool turns end to end: the tool-start and tool-resume branches of the   *)
(* three protocol handlers and startAgentToolSession of                    *)
(* src/provider/executor.ts, over the registry, the turns and their tool   *)
(* calls.  The agent, the client's connection, the timers and the tool     *)
(* pool (an acquisition that succeeds or fails) act at any time.           *)
(*                                                                         *)
(* One action is one macrotask or one microtask continuation; the latter   *)
(* run first, which every macrotask states with Quiet.                     *)
(***************************************************************************)
EXTENDS TurnRegistry

CONSTANTS
  Resumes,   \* the requests that return tool outputs
  AskerOf,   \* [Resumes -> Owners]
  Apis       \* the handlers in use, of "chat", "responses" and "anthropic"

Requests == Starts \cup Resumes

ASSUME RequestConstants ==
  /\ Starts \cap Resumes = {} /\ IsFiniteSet(Resumes)
  /\ AskerOf \in [Resumes -> Owners] /\ Apis \subseteq {"chat", "responses", "anthropic"}

VARIABLES
  stage,      \* where the handler of each request stands
  api,        \* [Starts -> Apis]: the handler that made each record
  stateless,  \* the start requests in stateless mode: no record, no parking
  asked,      \* [Resumes -> the turn and the calls its outputs are for]
  aborted,    \* the requests whose client went away
  answer,     \* [Requests -> what the client was told]
  down        \* closeAll() has run

handlerVars == <<stage, api, stateless, asked, aborted, answer, down>>
vars == <<turn, registryVars, line, handlerVars>>

Nothing == [turn |-> "none", outputs |-> {}]

Init ==
  /\ InitRegistry
  /\ stage = [r \in Requests |-> "new"] /\ answer = [r \in Requests |-> "none"]
  /\ stateless = {} /\ aborted = {} /\ down = FALSE
  /\ asked = [r \in Resumes |-> Nothing] /\ api = [q \in Starts |-> "none"]

-----------------------------------------------------------------------------
TurnOf(r) == IF r \in Starts THEN r ELSE asked[r].turn
Admissible(s, r) == Holds(s, r) /\ stage[r] = "queued"

\* No microtask waits.
Quiet ==
  \A s \in Starts :
    /\ ~CollectDone(turn[s]) /\ ~PromptSettled(turn[s])
    /\ \A r \in Resumes : ~Admissible(s, r)

SetTurn(s, t) == turn' = [turn EXCEPT ![s] = t]
Ends(r, what) ==
  /\ stage' = [stage EXCEPT ![r] = "done"] /\ answer' = [answer EXCEPT ![r] = what]
Enters(r, st) == stage' = [stage EXCEPT ![r] = st]

\* Mutant: the error path of the handler forgets the reservation.
FailsReserved(q) == Ends(q, "error") /\ UNCHANGED registryVars

\* The catch block of a tool start that never had a turn to collect from.
Fails(q) ==
  /\ Ends(q, "error")
  /\ reservations' = reservations \ {q} /\ UNCHANGED <<records, aliases>>

\* startAgentToolSession: a stateful turn reserves its place first.
BeginStateful(q) ==
  /\ Quiet /\ stage[q] = "new"
  /\ \E a \in Apis : api' = [api EXCEPT ![q] = a]
  /\ \/ Reserve(q) /\ Enters(q, "acquiring") /\ UNCHANGED answer
     \/ RefuseReservation(q) /\ Ends(q, "refused")
  /\ UNCHANGED <<turn, line, stateless, asked, aborted, down>>

BeginStateless(q) ==
  /\ Quiet /\ stage[q] = "new"
  /\ Enters(q, "acquiring") /\ stateless' = stateless \cup {q}
  /\ UNCHANGED <<turn, registryVars, line, api, asked, aborted, answer, down>>

\* A leased connection of the tool pool, or one of its own; start() begins, though
\* the client may have gone since the connection was there.
Acquired(q) ==
  /\ Quiet /\ stage[q] = "acquiring"
  /\ \E conn \in {"own", "lease"} : SetTurn(q, StartTurn(NoTurn, conn))
  /\ Enters(q, "starting")
  /\ UNCHANGED <<registryVars, line, api, stateless, asked, aborted, answer, down>>

AcquireFails(q) ==
  /\ Quiet /\ stage[q] = "acquiring"
  /\ Fails(q)
  /\ UNCHANGED <<turn, line, api, stateless, asked, aborted, down>>

\* The bridge is bound, or fails to bind, which start() leaves without a close().
\* With a lease and a client that has gone, it throws before it notes the lease,
\* and its close() does not release it.
BridgeBound(q) ==
  /\ Quiet /\ stage[q] = "starting" /\ turn[q].state = "binding"
  /\ \/ SetTurn(q, [turn[q] EXCEPT !.state = "closed"]) /\ Fails(q)
     \/ /\ ~(turn[q].conn = "lease" /\ q \in aborted)
        /\ SetTurn(q, [turn[q] EXCEPT !.state = "opening"])
        /\ UNCHANGED <<registryVars, stage, answer>>
  /\ UNCHANGED <<line, api, stateless, asked, aborted, down>>

\* start() succeeds; the handler makes the record and collects.  A turn closed
\* meanwhile is collected from all the same, and a reservation that closeAll()
\* has cleared makes createRecord() close the turn.
Opened(q) ==
  /\ Quiet /\ stage[q] = "starting" /\ turn[q].state \in {"opening", "closing", "closed"}
  /\ ~(turn[q].conn = "own" /\ q \in aborted)
  /\ LET t == IF IsClosed(turn[q]) THEN turn[q] ELSE PromptSent(turn[q]) IN
     \/ /\ q \in stateless \/ CreateRecord(q)
        /\ q \in stateless => UNCHANGED registryVars
        /\ SetTurn(q, BeginCollect(t)) /\ Enqueue(q, q)
        /\ Enters(q, "collecting") /\ UNCHANGED answer
     \/ /\ q \notin stateless /\ q \notin reservations
        /\ SetTurn(q, CloseTurn(t, FALSE)) /\ Fails(q) /\ UNCHANGED line
  /\ UNCHANGED <<api, stateless, asked, aborted, down>>

\* start() fails: it closes the turn, unless the turn is closed, and throws.
OpenFails(q) ==
  /\ Quiet /\ stage[q] = "starting" /\ turn[q].state \in {"opening", "closing", "closed"}
  /\ SetTurn(q, CloseTurn(turn[q], FALSE))
  /\ IF IsClosed(turn[q]) THEN Fails(q)
     ELSE Enters(q, "failing") /\ UNCHANGED <<registryVars, answer>>
  /\ UNCHANGED <<line, api, stateless, asked, aborted, down>>

-----------------------------------------------------------------------------
\* The outputs a client may send: of calls it has been shown, old ones too.
Shown(s) == {i \in CallIds : turn[s].calls[i] \in {"exposed", "resolved", "rejected"}}

Found(r, s, handler, outputs) ==
  api[s] = handler /\ OwnerOf[s] = AskerOf[r] /\ FindByCallIds(s, outputs)

Resumed(r, s, outputs, found) ==
  /\ Quiet /\ stage[r] = "new"
  /\ records' = Swept /\ aliases' = aliases \cap Swept /\ UNCHANGED reservations
  /\ asked' = [asked EXCEPT ![r] = [turn |-> s, outputs |-> outputs]]
  /\ \/ found /\ Enqueue(s, r) /\ Enters(r, "queued") /\ UNCHANGED answer
     \/ ~found /\ Ends(r, "refused") /\ UNCHANGED line
  /\ UNCHANGED <<turn, api, stateless, aborted, down>>

\* The resume branch of handleChatCompletions.
ResumeChat(r, s, outputs) == Resumed(r, s, outputs, Found(r, s, "chat", outputs))

\* ... of handleAnthropicMessages.
ResumeMessages(r, s, outputs) ==
  Resumed(r, s, outputs, Found(r, s, "anthropic", outputs))

\* ... of handleResponses, which finds the turn by previous_response_id.
ResumeResponses(r, s, outputs) ==
  Resumed(r, s, outputs,
    /\ FindByResponseId(s) /\ api[s] = "responses" /\ OwnerOf[s] = AskerOf[r]
    /\ outputs \subseteq Pending(turn[s].calls))

\* resume() with the mutex.
Admitted(r) ==
  /\ r \in Resumes /\ stage[r] = "queued"
  /\ LET s == asked[r].turn IN
     /\ Holds(s, r)
     /\ \/ /\ Expired(s, asked[r].outputs)
           /\ Ends(r, "refused") /\ PassOn(s) /\ UNCHANGED turn
        \/ /\ ~Expired(s, asked[r].outputs)
           /\ SetTurn(s, ResumeTurn(turn[s], asked[r].outputs))
           /\ Enters(r, "collecting") /\ UNCHANGED <<line, answer>>
  /\ UNCHANGED <<registryVars, api, stateless, asked, aborted, down>>

\* collect() or resume() of the turn returns or throws: the registry's finally,
\* the mutex, then the handler of the request.  A response that shows calls is
\* named by its id; a stateless turn is closed, its connection good for another.
Collected(s) ==
  /\ CollectDone(turn[s])
  /\ LET r == Head(line[s])
         outcome == turn[s].outcome
         t == [turn[s] EXCEPT !.outcome = "none"]
         closing == r \in stateless /\ ~IsClosed(t)
     IN
     /\ SetTurn(s, IF closing THEN CloseTurn(t, TRUE) ELSE t)
     /\ records' = records \ Unregistered(s) /\ UNCHANGED reservations
     /\ aliases' = (aliases \ Unregistered(s)) \cup
          (IF api[s] = "responses" /\ outcome = "tool_calls" /\ r \notin stateless
           THEN {s} ELSE {})
     /\ stage' = [stage EXCEPT ![r] = IF closing THEN "closing" ELSE "done"]
     /\ answer' = [answer EXCEPT ![r] = outcome]
  /\ PassOn(s)
  /\ UNCHANGED <<api, stateless, asked, aborted, down>>

\* collect(): the prompt has settled.
PromptRaces(s) ==
  /\ PromptSettled(turn[s])
  /\ SetTurn(s, PromptWins(turn[s]))
  /\ UNCHANGED <<registryVars, line, handlerVars>>

\* The batch timer of TOOL_BATCH_IDLE_MS fires.
BatchFires(s) ==
  /\ Quiet /\ turn[s].batch = "armed"
  /\ SetTurn(s, BatchWins(turn[s]))
  /\ UNCHANGED <<registryVars, line, handlerVars>>

\* The active timeout or the parked TTL fires.
TurnExpires(s) ==
  /\ Quiet /\ turn[s].timer # "none"
  /\ SetTurn(s, TimerCloses(turn[s]))
  /\ UNCHANGED <<registryVars, line, handlerVars>>

\* close() gets to its end, and who waited for it goes on.
CloseFinishes(s) ==
  /\ Quiet /\ turn[s].state = "closing"
  /\ \E alive \in BOOLEAN :
       LET t == CloseDone(turn[s], alive) IN
       SetTurn(s, [t EXCEPT !.batch = IF @ = "ending" THEN "idle" ELSE @])
  /\ \/ stage[s] = "failing" /\ Fails(s)
     \/ stage[s] = "closing" /\ Enters(s, "done") /\ UNCHANGED <<registryVars, answer>>
     \/ stage[s] \notin {"failing", "closing"} /\ UNCHANGED <<registryVars, stage, answer>>
  /\ UNCHANGED <<line, api, stateless, asked, aborted, down>>

-----------------------------------------------------------------------------
AgentCalls(s) ==
  /\ Quiet /\ turn[s].state = "open" /\ turn[s].prompt = "running"
  /\ TotalCalls(turn[s].calls) < MaxCalls
  /\ SetTurn(s, CallArrives(turn[s]))
  /\ UNCHANGED <<registryVars, line, handlerVars>>

\* The prompt is answered, or the connection is lost.
AgentEnds(s) ==
  /\ Quiet /\ turn[s].prompt = "running" /\ turn[s].state \in {"open", "closing"}
  /\ \E result \in {"ok", "failed"} : SetTurn(s, [turn[s] EXCEPT !.prompt = result])
  /\ UNCHANGED <<registryVars, line, handlerVars>>

\* abortOnClientDisconnect: the handlers listen once there is a turn to close,
\* start() with a lease does while it opens.
ClientLeaves(r) ==
  /\ Quiet /\ stage[r] \in {"acquiring", "starting", "collecting", "queued"}
  /\ r \notin aborted /\ aborted' = aborted \cup {r}
  /\ LET s == TurnOf(r)
         listening ==
           \/ stage[r] \in {"collecting", "queued"}
           \/ turn[s].state = "opening" /\ turn[s].conn = "lease"
     IN turn' = [turn EXCEPT ![s] = IF listening THEN CloseTurn(@, FALSE) ELSE @]
  /\ UNCHANGED <<registryVars, line, stage, api, stateless, asked, answer, down>>

\* Shutdown of the gateway.
CloseAll ==
  /\ Quiet /\ ~down /\ down' = TRUE
  /\ CloseAllTurns
  /\ UNCHANGED <<line, stage, api, stateless, asked, aborted, answer>>

Resuming ==
  \E r \in Resumes, s \in Starts : \E outputs \in SUBSET Shown(s) \ {{}} :
    ResumeChat(r, s, outputs) \/ ResumeMessages(r, s, outputs) \/ ResumeResponses(r, s, outputs)

Starting(q) ==
  \/ Acquired(q) \/ AcquireFails(q) \/ BridgeBound(q) \/ Opened(q) \/ OpenFails(q)

Continues(s) ==
  PromptRaces(s) \/ BatchFires(s) \/ TurnExpires(s) \/ CloseFinishes(s) \/ Collected(s)

Next ==
  \/ \E q \in Starts : BeginStateful(q) \/ BeginStateless(q) \/ Starting(q)
  \/ \E s \in Starts : Continues(s) \/ AgentCalls(s) \/ AgentEnds(s)
  \/ Resuming
  \/ \E r \in Resumes : Admitted(r)
  \/ \E r \in Requests : ClientLeaves(r)
  \/ CloseAll

\* The event loop runs what is due, timers fire, an acquisition and a start end
\* (their requests have timeouts).  Nothing is assumed of agents and clients.
Fairness ==
  /\ \A q \in Starts : WF_vars(Starting(q))
  /\ \A s \in Starts :
       /\ WF_vars(PromptRaces(s) \/ Collected(s)) /\ WF_vars(BatchFires(s))
       /\ WF_vars(TurnExpires(s)) /\ WF_vars(CloseFinishes(s))
  /\ \A r \in Resumes : WF_vars(Admitted(r))

Spec == Init /\ [][Next]_vars /\ Fairness

-----------------------------------------------------------------------------
\* The limits hold for turns that are parked and turns that are starting
\* together, although a turn is registered long after its limit was tested
\* (ToolSessionRegistry.reserve, createRecord).
CapsHold ==
  /\ Cardinality(records) + Cardinality(reservations) <= maxGlobal
  /\ \A o \in Owners :
       Cardinality(OwnedBy(records, o)) + Cardinality(OwnedBy(reservations, o)) <= maxPerOwner

\* A place is held only for a request that is still starting its turn: no way
\* out of a tool start leaks its reservation.
ReservationsAccounted ==
  \A q \in reservations : q \notin stateless /\ stage[q] \in {"acquiring", "starting", "failing"}

\* A turn is never left behind: while it is open a request works on it, or it
\* is parked, registered and its timer runs.
OpenTurnsGuarded ==
  \A s \in Starts :
    turn[s].state = "open" =>
      \/ turn[s].timer = "active" /\ line[s] # <<>>
      \/ turn[s].timer = "parked" /\ (s \in records \/ line[s] # <<>> \/ down)

\* What a client can still answer it can still find: shown calls that wait
\* belong to a registered turn, unless the gateway has shut down.
ShownCallsFindable ==
  \A s \in Starts \ stateless :
    (\E i \in CallIds : turn[s].calls[i] = "exposed") => s \in records \/ down

\* A connection goes back to the tool pool only when nothing the client was
\* shown can reach it again; and a turn that is over has given its connection
\* back, unless start() ended before it noted the lease (tool-turn.ts:99, :120),
\* which is before the prompt: no later failure, timeout or abort keeps a lease.
ConnectionsGivenBack ==
  \A s \in Starts :
    /\ turn[s].conn = "reused" => s \in stateless \/ turn[s].terminal
    /\ turn[s].state = "closed" /\ turn[s].prompt # "none" => turn[s].conn \in {"reused", "dropped"}

\* Every request for a tool turn is answered, through expiry, disconnects,
\* failed agents and shutdown.
RequestsSettle ==
  \A r \in Requests : stage[r] # "new" ~> stage[r] = "done"

\* No call of the agent waits for ever: it gets an output or an error.
CallsSettle ==
  \A s \in Starts, i \in CallIds :
    turn[s].calls[i] = "parked" ~> turn[s].calls[i] \in {"resolved", "rejected"}
=============================================================================

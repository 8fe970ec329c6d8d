-------------------------- MODULE ToolTurnsProofs --------------------------
(***************************************************************************)
(* Theorems about ToolTurns, for every number of requests, owners, calls   *)
(* and every pair of limits.                                               *)
(***************************************************************************)
EXTENDS ToolTurns, FiniteSetTheorems, SequenceTheorems, TLAPS

Stage == {"new", "acquiring", "starting", "failing", "queued", "collecting",
          "closing", "done"}

\* The stages in which a place may be reserved, and those past the start.
Holding == {"acquiring", "starting", "failing"}
Late == {"queued", "collecting", "closing", "done"}

\* The types of the state.
TypeOK ==
  /\ turn \in [Starts -> Turn]
  /\ records \subseteq Starts /\ reservations \subseteq Starts /\ stateless \subseteq Starts
  /\ line \in [Starts -> Seq(Requests)]
  /\ stage \in [Requests -> Stage]
  /\ asked \in [Resumes -> [turn : Starts \cup {"none"}, outputs : SUBSET CallIds]]
  /\ \A r \in Resumes : stage[r] = "queued" => asked[r].turn \in Starts

-----------------------------------------------------------------------------
(***************************************************************************)
(* What the methods of a turn preserve.                                    *)
(***************************************************************************)
\* A collect is under way, or its result is to be delivered.
Busy(t) == t.batch # "idle" \/ t.outcome # "none"

\* The fields of a turn agree, and only an open one has calls pending.
Coherent(t) ==
  /\ t.state \in {"binding", "opening", "open"} => ~t.terminal
  /\ t.state = "open" =>
       \/ t.timer = "active" /\ t.batch # "idle"
       \/ t.timer = "parked" /\ t.batch = "idle"
  /\ Pending(t.calls) # {} => t.state = "open"

\* A step that neither opens a turn, nor begins a collect, nor gives its
\* connection back before the turn is over.
Calmer(t, u) ==
  /\ u \in Turn /\ Coherent(u)
  /\ u.state = "open" => t.state = "open"
  /\ Busy(u) => Busy(t)
  /\ u.conn = "keep" => t.conn = "keep"
  /\ u.conn = "reused" =>
       t.conn = "keep" \/ u.terminal \/ (t.conn = "reused" /\ (t.terminal => u.terminal))

\* Rejecting all pending calls leaves none.
LEMMA RejectAllProps ==
  ASSUME NEW calls \in [CallIds -> CallState]
  PROVE  RejectAll(calls) \in [CallIds -> CallState] /\ Pending(RejectAll(calls)) = {}
BY DEF RejectAll, Pending, CallState

\* close() of a turn.
LEMMA CloseTurnProps ==
  ASSUME NEW t \in Turn, ~IsClosed(t) \/ Coherent(t),
         NEW b \in BOOLEAN
  PROVE  LET u == CloseTurn(t, b) IN
         /\ u \in Turn /\ Coherent(u) /\ IsClosed(u)
         /\ u.batch = t.batch /\ u.outcome = t.outcome /\ u.terminal = t.terminal
         /\ u.conn = t.conn \/ (b /\ u.conn = "keep")
<1>1. CASE IsClosed(t)
  BY <1>1 DEF CloseTurn, IsClosed
<1>2. CASE ~IsClosed(t)
  <2> DEFINE x == RejectAll(t.calls)
             c == IF t.conn = "lease" /\ b THEN "keep" ELSE t.conn
  <2>1. x \in [CallIds -> CallState] /\ Pending(x) = {}
    BY RejectAllProps DEF Turn
  <2>2. /\ c \in {"none", "own", "lease", "keep", "reused", "dropped"}
        /\ c = t.conn \/ (b /\ c = "keep")
    BY DEF Turn
  <2> DEFINE u == CloseTurn(t, b)
  <2>3. u = [t EXCEPT !.state = "closing", !.timer = "none", !.calls = x, !.conn = c]
    BY <1>2 DEF CloseTurn
  <2> HIDE DEF x, c, u
  <2>4. u \in Turn
    BY <2>1, <2>2, <2>3 DEF Turn
  <2>6. u.state = "closing" /\ u.calls = x /\ u.conn = c
    BY <2>3 DEF Turn
  <2>7. u.batch = t.batch /\ u.outcome = t.outcome /\ u.terminal = t.terminal
    BY <2>3 DEF Turn
  <2>5. Coherent(u) /\ IsClosed(u)
    BY <2>1, <2>6 DEF Coherent, IsClosed
  <2> QED
    BY <2>2, <2>4, <2>5, <2>6, <2>7 DEF u
<1> QED
  BY <1>1, <1>2

\* Closing a turn is a calm step.
LEMMA CloseTurnCalm ==
  ASSUME NEW t \in Turn, Coherent(t)
  PROVE  Calmer(t, CloseTurn(t, FALSE))
<1> DEFINE u == CloseTurn(t, FALSE)
<1>1. /\ u \in Turn /\ Coherent(u) /\ IsClosed(u)
      /\ u.batch = t.batch /\ u.outcome = t.outcome /\ u.terminal = t.terminal
      /\ u.conn = t.conn
  BY CloseTurnProps
<1> HIDE DEF u
<1>2. Calmer(t, u)
  BY <1>1 DEF Calmer, Busy, IsClosed
<1> QED
  BY <1>2 DEF u

\* A turn that begins has nothing to settle.
LEMMA StartTurnProps ==
  ASSUME NEW t \in Turn, NEW conn \in {"own", "lease"}
  PROVE  Calmer(t, StartTurn(NoTurn, conn))
<1>1. NoCalls \in [CallIds -> CallState] /\ Pending(NoCalls) = {}
  BY DEF NoCalls, CallState, Pending
<1>2. /\ NoTurn \in Turn /\ NoTurn.calls = NoCalls /\ NoTurn.batch = "idle"
      /\ NoTurn.outcome = "none" /\ ~NoTurn.terminal
  BY <1>1 DEF NoTurn, Turn
<1>3. StartTurn(NoTurn, conn) = [NoTurn EXCEPT !.state = "binding", !.conn = conn]
  BY DEF StartTurn
<1> DEFINE u == StartTurn(NoTurn, conn)
<1> HIDE DEF u
<1>4. u = [NoTurn EXCEPT !.state = "binding", !.conn = conn]
  BY <1>3 DEF u
<1> DEFINE v == [NoTurn EXCEPT !.state = "binding"]
<1>5. u \in Turn /\ u.state = "binding" /\ u.conn = conn
  <2>1. conn \in {"none", "own", "lease", "keep", "reused", "dropped"}
    OBVIOUS
  <2>2. v \in Turn /\ v.state = "binding"
    BY <1>2 DEF Turn
  <2>3. u = [v EXCEPT !.conn = conn]
    BY <1>4
  <2> HIDE DEF v
  <2>4. u \in Turn
    BY <2>1, <2>2, <2>3 DEF Turn
  <2> QED
    BY <2>2, <2>3, <2>4 DEF Turn
<1>6. u.calls = NoCalls /\ u.batch = "idle" /\ u.outcome = "none" /\ ~u.terminal
  BY <1>2, <1>4 DEF Turn
<1>7. Calmer(t, u)
  BY <1>1, <1>5, <1>6 DEF Calmer, Coherent, Busy
<1> QED
  BY <1>7 DEF u

\* A turn whose prompt is sent, before it is collected from.
LEMMA PromptSentProps ==
  ASSUME NEW t \in Turn, Coherent(t), t.state = "opening"
  PROVE  LET u == PromptSent(t) IN
         /\ u \in Turn /\ u.state = "open" /\ u.timer = "active" /\ u.conn = t.conn
         /\ u.batch = t.batch /\ u.outcome = t.outcome /\ u.terminal = t.terminal
         /\ u.calls = t.calls
BY DEF PromptSent, EnterActive, Turn

\* A collect begins from an active turn that is not over, or fails.
LEMMA BeginCollectProps ==
  ASSUME NEW t \in Turn, Pending(t.calls) # {} => t.state = "open",
         t.state \in {"binding", "opening", "open"} => ~t.terminal,
         t.state = "open" => t.timer = "active"
  PROVE  LET u == BeginCollect(t) IN
         /\ u \in Turn /\ Coherent(u) /\ u.state = t.state /\ u.conn = t.conn
         /\ u.terminal = t.terminal
BY DEF BeginCollect, Turn, Coherent

\* resume() of a turn.
LEMMA ResumeTurnProps ==
  ASSUME NEW t \in Turn, Coherent(t), NEW outputs \in SUBSET CallIds
  PROVE  LET u == ResumeTurn(t, outputs) IN
         /\ u \in Turn /\ Coherent(u) /\ u.state = t.state /\ u.conn = t.conn
         /\ u.terminal = t.terminal
<1> DEFINE a == EnterActive(t)
           x == ResolveOutputs(t.calls, outputs)
           v == [a EXCEPT !.calls = x]
<1>1. /\ a \in Turn /\ a.timer = "active" /\ a.state = t.state /\ a.conn = t.conn
      /\ a.calls = t.calls /\ a.terminal = t.terminal
  BY DEF EnterActive, Turn
<1>2. x \in [CallIds -> CallState] /\ Pending(x) \subseteq Pending(t.calls)
  BY DEF ResolveOutputs, Turn, CallState, Pending
<1>3. /\ v \in Turn /\ v.timer = "active" /\ v.state = t.state /\ v.conn = t.conn
      /\ v.calls = x /\ v.terminal = t.terminal
  <2> HIDE DEF a, x
  <2> QED
    BY <1>1, <1>2 DEF Turn
<1>4. ResumeTurn(t, outputs) = BeginCollect(v)
  BY <1>1 DEF ResumeTurn
<1> HIDE DEF v
<1>5. Pending(v.calls) # {} => v.state = "open"
  BY <1>2, <1>3 DEF Coherent
<1>6. v.state \in {"binding", "opening", "open"} => ~v.terminal
  BY <1>3 DEF Coherent
<1> QED
  BY <1>3, <1>4, <1>5, <1>6, BeginCollectProps

\* A tool call of the agent arrives.
LEMMA CallArrivesCalm ==
  ASSUME NEW t \in Turn, Coherent(t), t.state = "open"
  PROVE  Calmer(t, CallArrives(t))
<1> DEFINE x == CallTool(t.calls)
           b == IF t.batch = "watching" THEN "armed" ELSE t.batch
           u == CallArrives(t)
<1>1. x \in [CallIds -> CallState]
  BY DEF CallTool, Turn, CallState
<1>2. b \in {"idle", "watching", "armed", "awaiting", "ending"} /\ (b = "idle" <=> t.batch = "idle")
  BY DEF Turn
<1>3. u = [t EXCEPT !.calls = x, !.batch = b]
  BY DEF CallArrives
<1> HIDE DEF x, b, u
<1>4. u \in Turn /\ u.batch = b
  BY <1>1, <1>2, <1>3 DEF Turn
<1>5. /\ u.state = t.state /\ u.timer = t.timer /\ u.terminal = t.terminal
      /\ u.outcome = t.outcome /\ u.conn = t.conn
  BY <1>3 DEF Turn
<1>6. Calmer(t, u)
  BY <1>2, <1>4, <1>5 DEF Calmer, Coherent, Busy
<1> QED
  BY <1>6 DEF u

\* A collect that ends the turn.
LEMMA EndWithProps ==
  ASSUME NEW t \in Turn, ~IsClosed(t) \/ Coherent(t), NEW outcome \in {"completed", "error"}
  PROVE  LET u == EndWith(t, outcome) IN
         /\ u \in Turn /\ Coherent(u) /\ u.state # "open"
         /\ u.conn = t.conn /\ u.terminal = t.terminal
<1> DEFINE c == CloseTurn(t, FALSE)
           b == IF IsClosed(t) THEN "idle" ELSE "ending"
           u == EndWith(t, outcome)
<1>1. /\ c \in Turn /\ Coherent(c) /\ IsClosed(c)
      /\ c.terminal = t.terminal /\ c.conn = t.conn
  BY CloseTurnProps
<1>2. u = [c EXCEPT !.outcome = outcome, !.batch = b]
  BY DEF EndWith
<1>3. /\ b \in {"idle", "watching", "armed", "awaiting", "ending"}
      /\ outcome \in {"none", "tool_calls", "completed", "error"}
  OBVIOUS
<1> HIDE DEF c, b, u
<1>4. u \in Turn
  <2> DEFINE v == [c EXCEPT !.outcome = outcome]
  <2>1. v \in Turn /\ u = [v EXCEPT !.batch = b]
    BY <1>1, <1>2, <1>3 DEF Turn
  <2> HIDE DEF v
  <2> QED
    BY <1>3, <2>1 DEF Turn
<1>5. /\ u.state = c.state /\ u.calls = c.calls /\ u.conn = c.conn /\ u.terminal = c.terminal
  BY <1>1, <1>2 DEF Turn
<1>6. Coherent(u) /\ u.state # "open"
  BY <1>1, <1>5 DEF Coherent, IsClosed
<1> QED
  BY <1>1, <1>4, <1>5, <1>6 DEF u

\* The prompt settles while the turn is collected from.
LEMMA PromptWinsCalm ==
  ASSUME NEW t \in Turn, Coherent(t), PromptSettled(t)
  PROVE  Calmer(t, PromptWins(t))
<1>1. Busy(t)
  BY DEF PromptSettled, Busy
<1>2. CASE PromptWins(t) = EndWith(t, "error")
  <2> DEFINE u == EndWith(t, "error")
  <2>1. u \in Turn /\ Coherent(u) /\ u.state # "open" /\ u.conn = t.conn /\ u.terminal = t.terminal
    BY EndWithProps
  <2> HIDE DEF u
  <2>2. Calmer(t, u)
    BY <1>1, <2>1 DEF Calmer
  <2> QED
    BY <1>2, <2>2 DEF u
<1>3. CASE PromptWins(t) = EndWith([t EXCEPT !.terminal = TRUE], "completed")
  <2> DEFINE v == [t EXCEPT !.terminal = TRUE]
             u == EndWith(v, "completed")
  <2>1. v \in Turn /\ v.state = t.state /\ v.calls = t.calls /\ v.conn = t.conn /\ v.terminal
    BY DEF Turn
  <2> HIDE DEF v
  <2>2. ~IsClosed(v) \/ Coherent(v)
    BY <2>1 DEF Coherent, IsClosed
  <2>3. u \in Turn /\ Coherent(u) /\ u.state # "open" /\ u.conn = v.conn /\ u.terminal = v.terminal
    BY <2>1, <2>2, EndWithProps
  <2> HIDE DEF u
  <2>4. Calmer(t, u)
    BY <1>1, <2>1, <2>3 DEF Calmer
  <2> QED
    BY <1>3, <2>4 DEF u, v
<1> QED
  BY <1>2, <1>3 DEF PromptWins

\* The batch timer fires.
LEMMA BatchWinsCalm ==
  ASSUME NEW t \in Turn, Coherent(t), t.batch = "armed"
  PROVE  Calmer(t, BatchWins(t))
<1>1. Busy(t)
  BY DEF Busy
<1>2. CASE Pending(t.calls) = {}
  <2> DEFINE u == [t EXCEPT !.batch = "awaiting"]
  <2>1. /\ u \in Turn /\ u.batch = "awaiting" /\ u.state = t.state /\ u.timer = t.timer
        /\ u.calls = t.calls /\ u.conn = t.conn /\ u.terminal = t.terminal
    BY DEF Turn
  <2>2. u = BatchWins(t)
    BY <1>2 DEF BatchWins
  <2> HIDE DEF u
  <2>3. Calmer(t, u)
    BY <1>1, <2>1 DEF Calmer, Coherent
  <2> QED
    BY <2>2, <2>3
<1>3. CASE Pending(t.calls) # {} /\ BatchWins(t) = EndWith(t, "error")
  <2> DEFINE u == EndWith(t, "error")
  <2>1. u \in Turn /\ Coherent(u) /\ u.state # "open" /\ u.conn = t.conn /\ u.terminal = t.terminal
    BY EndWithProps
  <2> HIDE DEF u
  <2>2. Calmer(t, u)
    BY <1>1, <2>1 DEF Calmer
  <2> QED
    BY <1>3, <2>2 DEF u
<1>4. CASE /\ Pending(t.calls) # {}
           /\ BatchWins(t) = EnterParked([t EXCEPT !.calls = MarkExposed(@), !.batch = "idle",
                                                   !.outcome = "tool_calls"])
  <2> DEFINE x == MarkExposed(t.calls)
             v == [t EXCEPT !.calls = x, !.batch = "idle", !.outcome = "tool_calls"]
             u == [v EXCEPT !.timer = "parked"]
  <2>1. x \in [CallIds -> CallState]
    BY DEF MarkExposed, Turn, CallState, Pending
  <2>2. BatchWins(t) = u
    BY <1>4 DEF EnterParked
  <2> HIDE DEF x
  <2>3. /\ v \in Turn /\ v.batch = "idle" /\ v.state = t.state
        /\ v.conn = t.conn /\ v.terminal = t.terminal
    BY <2>1 DEF Turn
  <2> HIDE DEF v
  <2>4. /\ u \in Turn /\ u.batch = "idle" /\ u.timer = "parked" /\ u.state = t.state
        /\ u.conn = t.conn /\ u.terminal = t.terminal
    BY <2>3 DEF Turn
  <2> HIDE DEF u
  <2>5. t.state = "open" /\ ~t.terminal
    BY <1>4 DEF Coherent
  <2>6. Calmer(t, u)
    BY <1>1, <2>4, <2>5 DEF Calmer, Coherent
  <2> QED
    BY <2>2, <2>6
<1> QED
  BY <1>2, <1>3, <1>4 DEF BatchWins

\* A timer closes the turn.
LEMMA TimerClosesCalm ==
  ASSUME NEW t \in Turn, Coherent(t)
  PROVE  Calmer(t, TimerCloses(t))
<1> DEFINE v == [t EXCEPT !.timedOut = (t.timer = "active")]
<1>1. /\ v \in Turn /\ v.state = t.state /\ v.timer = t.timer /\ v.calls = t.calls
      /\ v.conn = t.conn /\ v.terminal = t.terminal /\ v.batch = t.batch /\ v.outcome = t.outcome
  BY DEF Turn
<1>2. TimerCloses(t) = CloseTurn(v, FALSE)
  BY DEF TimerCloses
<1> HIDE DEF v
<1>3. Coherent(v)
  BY <1>1 DEF Coherent
<1>4. Calmer(v, CloseTurn(v, FALSE))
  BY <1>1, <1>3, CloseTurnCalm
<1> QED
  BY <1>1, <1>2, <1>4 DEF Calmer, Busy

\* close() gets to its end.
LEMMA CloseDoneCalm ==
  ASSUME NEW t \in Turn, Coherent(t), t.state = "closing", NEW alive \in BOOLEAN,
         NEW b \in {"idle", "watching", "armed", "awaiting", "ending"}, b # "idle" => t.batch # "idle"
  PROVE  Calmer(t, [CloseDone(t, alive) EXCEPT !.batch = b])
<1> DEFINE reusable == t.conn = "keep" \/ (t.conn = "lease" /\ t.terminal)
           c == IF reusable /\ alive THEN "reused" ELSE "dropped"
           p == IF t.prompt = "running" /\ c = "dropped" THEN "failed" ELSE t.prompt
           v == CloseDone(t, alive)
           u == [v EXCEPT !.batch = b]
<1>1. v = [t EXCEPT !.state = "closed", !.conn = c, !.prompt = p]
  BY DEF CloseDone
<1>2. c \in {"reused", "dropped"} /\ (c = "reused" => t.conn = "keep" \/ t.terminal)
  OBVIOUS
<1>3. p \in {"none", "running", "ok", "failed"}
  BY DEF Turn
<1> HIDE DEF c, p, v
<1>4. v \in Turn
  BY <1>1, <1>2, <1>3 DEF Turn
<1>5. v.state = "closed" /\ v.conn = c
  BY <1>1 DEF Turn
<1>6. v.outcome = t.outcome /\ v.calls = t.calls /\ v.terminal = t.terminal
  BY <1>1 DEF Turn
<1>7. /\ u \in Turn /\ u.state = "closed" /\ u.conn = c /\ u.outcome = t.outcome
      /\ u.calls = t.calls /\ u.terminal = t.terminal /\ u.batch = b
  BY <1>4, <1>5, <1>6 DEF Turn
<1> HIDE DEF u
<1>8. Calmer(t, u)
  BY <1>2, <1>7 DEF Calmer, Coherent, Busy
<1> QED
  BY <1>8 DEF u, v

-----------------------------------------------------------------------------
(***************************************************************************)
(* The inductive invariant of the places, the lines and the turns.         *)
(***************************************************************************)
\* Who stands in the line of s, and when its head works on the turn.
LineInv(s) ==
  /\ \A i \in 1..Len(line[s]) :
       /\ stage[line[s][i]] \in Late
       /\ s \in stateless \/ line[s][i] \in Starts => line[s][i] = s
  /\ Busy(turn[s]) => line[s] # <<>>
  /\ line[s] # <<>> /\ stage[line[s][1]] = "queued" => ~Busy(turn[s])
  /\ stage[s] \notin Late => line[s] = <<>> /\ s \notin records

\* Where an open turn is kept, and what its connection and place say of it.
TurnInv(s) ==
  /\ Coherent(turn[s])
  /\ turn[s].state = "open" =>
       /\ stage[s] \in Late
       /\ IF s \in stateless THEN line[s] # <<>> ELSE s \in records \/ down
  /\ s \in stateless => s \notin records /\ stage[s] # "new"
  /\ turn[s].conn = "keep" => s \in stateless
  /\ turn[s].conn = "reused" => s \in stateless \/ turn[s].terminal
  /\ s \in reservations => s \notin stateless /\ stage[s] \in Holding

TurnsInv == TypeOK /\ \A s \in Starts : LineInv(s) /\ TurnInv(s)

\* Standing still is calm.
LEMMA CalmSame ==
  ASSUME NEW t \in Turn, Coherent(t)
  PROVE  Calmer(t, t)
BY DEF Calmer

\* A calm step of one turn is calm for all.
LEMMA SetTurnCalm ==
  ASSUME TurnsInv, NEW s \in Starts, NEW t, Calmer(turn[s], t), SetTurn(s, t)
  PROVE  turn' \in [Starts -> Turn] /\ \A x \in Starts : Calmer(turn[x], turn'[x])
<1>1. turn \in [Starts -> Turn] /\ t \in Turn
  BY DEF TurnsInv, TypeOK, Calmer
<1>2. ASSUME NEW x \in Starts PROVE Calmer(turn[x], turn'[x])
  <2>1. Calmer(turn[x], turn[x])
    BY <1>1, CalmSame DEF TurnsInv, TurnInv
  <2> QED
    BY <1>1, <2>1 DEF SetTurn
<1> QED
  BY <1>1, <1>2 DEF SetTurn

\* No turn changes.
LEMMA TurnsStay ==
  ASSUME TurnsInv, turn' = turn
  PROVE  turn' \in [Starts -> Turn] /\ \A x \in Starts : Calmer(turn[x], turn'[x])
BY CalmSame DEF TurnsInv, TurnInv, TypeOK

\* The stage of a request moves on, and past the start it stays past it.
StageMoves ==
  /\ stage' \in [Requests -> Stage]
  /\ \A r \in Requests :
       \/ stage'[r] = stage[r]
       \/ stage'[r] \notin {"new", "queued"} /\ (stage[r] \in Late => stage'[r] \in Late)

\* Records go when their turn is not open any more, or at shutdown.
RecordsGo ==
  /\ records' \subseteq records
  /\ down => down'
  /\ \A s \in records \ records' : turn'[s].state # "open" \/ down'

\* Every place is still held by a request that starts its turn.
PlacesHeld ==
  reservations' \subseteq Starts /\
  \A s \in reservations' : s \notin stateless /\ stage'[s] \in Holding

\* A step that leaves the lines alone and calms every turn keeps the invariant.
LEMMA CalmStep ==
  ASSUME TurnsInv,
         turn' \in [Starts -> Turn], \A s \in Starts : Calmer(turn[s], turn'[s]),
         UNCHANGED <<line, stateless, asked>>, StageMoves, RecordsGo, PlacesHeld
  PROVE  TurnsInv'
<1>1. TypeOK'
  BY DEF TurnsInv, TypeOK, StageMoves, RecordsGo, PlacesHeld, Requests
<1>2. ASSUME NEW s \in Starts PROVE LineInv(s)'
  <2>1. LineInv(s) /\ line[s] \in Seq(Requests) /\ s \in Requests
    BY DEF TurnsInv, TypeOK, Requests
  <2>2. \A i \in 1..Len(line[s]) : line[s][i] \in Requests
    BY <2>1
  <2>3. Busy(turn'[s]) => Busy(turn[s])
    BY DEF Calmer
  <2>4. line[s] # <<>> => 1 \in 1..Len(line[s])
    BY <2>1
  <2>5. /\ \A r \in Requests : stage[r] \in Late => stage'[r] \in Late
        /\ \A r \in Requests : stage'[r] = "queued" => stage[r] = "queued"
    BY DEF StageMoves
  <2> QED
    BY <2>1, <2>2, <2>3, <2>4, <2>5 DEF LineInv, RecordsGo, Busy
<1>3. ASSUME NEW s \in Starts PROVE TurnInv(s)'
  <2>1. TurnInv(s) /\ Calmer(turn[s], turn'[s]) /\ s \in Requests
    BY DEF TurnsInv, Requests
  <2>2. /\ stage[s] \in Late => stage'[s] \in Late
        /\ stage'[s] = "new" => stage[s] = "new"
    BY <2>1 DEF StageMoves
  <2>3. Coherent(turn'[s])
    BY <2>1 DEF Calmer
  <2>4. turn'[s].state = "open" =>
          /\ stage'[s] \in Late
          /\ IF s \in stateless THEN line[s] # <<>> ELSE s \in records' \/ down'
    BY <2>1, <2>2 DEF TurnInv, Calmer, RecordsGo
  <2>5. s \in stateless => s \notin records' /\ stage'[s] # "new"
    BY <2>1, <2>2 DEF TurnInv, RecordsGo
  <2>6. /\ turn'[s].conn = "keep" => s \in stateless
        /\ turn'[s].conn = "reused" => s \in stateless \/ turn'[s].terminal
    BY <2>1 DEF TurnInv, Calmer
  <2> QED
    BY <2>3, <2>4, <2>5, <2>6 DEF TurnInv, PlacesHeld, Coherent
<1> QED
  BY <1>1, <1>2, <1>3 DEF TurnsInv

-----------------------------------------------------------------------------
(***************************************************************************)
(* Every action preserves it.                                              *)
(***************************************************************************)
\* What the sweep removes is closed.
LEMMA SweptProps ==
  ASSUME TurnsInv
  PROVE  Swept \subseteq records /\ \A s \in records \ Swept : turn[s].state # "open"
BY DEF Swept, IsClosed

\* A request that is new, or starts its turn, moves on.
LEMMA EntersMoves ==
  ASSUME TypeOK, NEW r \in Requests, NEW st \in Stage \ {"new", "queued"},
         stage[r] \notin Late, stage' = [stage EXCEPT ![r] = st]
  PROVE  StageMoves
BY DEF TypeOK, StageMoves, Late

\* The places that are held stay held when nothing but other stages change.
LEMMA PlacesStay ==
  ASSUME TurnsInv, reservations' \subseteq reservations,
         \A q \in reservations' : stage'[q] = stage[q]
  PROVE  PlacesHeld
BY DEF TurnsInv, TypeOK, TurnInv, PlacesHeld

\* A tool start that fails gives its place back.
LEMMA FailsStep ==
  ASSUME TurnsInv, NEW q \in Starts, Fails(q), stage[q] \notin Late, down' = down
  PROVE  StageMoves /\ PlacesHeld /\ RecordsGo
<1>1. q \in Requests /\ stage \in [Requests -> Stage] /\ "done" \in Stage \ {"new", "queued"}
  BY DEF TurnsInv, TypeOK, Requests, Stage
<1>2. StageMoves
  BY <1>1, EntersMoves DEF Fails, Ends, TurnsInv
<1>3. PlacesHeld
  <2>1. \A x \in reservations' : x \in Requests /\ stage'[x] = stage[x]
    BY <1>1 DEF Fails, Ends, TurnsInv, TypeOK, Requests
  <2> QED
    BY <2>1, PlacesStay DEF Fails
<1> QED
  BY <1>2, <1>3 DEF RecordsGo, Fails

\* Nothing of the handlers changes.
LEMMA HandlersStay ==
  ASSUME TurnsInv, UNCHANGED <<registryVars, stage, down>>
  PROVE  StageMoves /\ PlacesHeld /\ RecordsGo
<1>1. StageMoves
  BY DEF TurnsInv, TypeOK, StageMoves
<1>2. PlacesHeld
  BY PlacesStay DEF registryVars
<1> QED
  BY <1>1, <1>2 DEF RecordsGo, registryVars

\* A stateful start reserves its place before it awaits a connection.
LEMMA BeginStatefulStep ==
  ASSUME TurnsInv, NEW q \in Starts, BeginStateful(q)
  PROVE  TurnsInv'
<1>1. /\ q \in Requests /\ stage \in [Requests -> Stage] /\ reservations \subseteq Starts
      /\ stage[q] = "new" /\ TurnInv(q)
  BY DEF TurnsInv, TypeOK, Requests, BeginStateful
<1>2. RecordsGo
  BY SweptProps DEF BeginStateful, Reserve, RefuseReservation, RecordsGo
<1>3. StageMoves /\ PlacesHeld
  <2>1. CASE Reserve(q) /\ Enters(q, "acquiring")
    <3>1. StageMoves
      BY <1>1, <2>1, EntersMoves DEF Enters, TurnsInv, Stage, Late
    <3>2. ASSUME NEW x \in reservations' PROVE x \in Starts /\ x \notin stateless /\ stage'[x] \in Holding
      <4>1. CASE x = q
        BY <1>1, <2>1, <4>1 DEF Enters, TurnInv, Holding
      <4>2. CASE x # q
        <5>1. x \in reservations /\ x \in Requests /\ TurnInv(x)
          BY <1>1, <2>1, <4>2 DEF Reserve, TurnsInv, Requests
        <5> QED
          BY <1>1, <2>1, <4>2, <5>1 DEF Enters, TurnInv
      <4> QED
        BY <4>1, <4>2
    <3> QED
      BY <3>1, <3>2 DEF PlacesHeld
  <2>2. CASE RefuseReservation(q) /\ Ends(q, "refused")
    <3>1. StageMoves
      BY <1>1, <2>2, EntersMoves DEF Ends, TurnsInv, Stage, Late
    <3>2. \A x \in reservations' : stage'[x] = stage[x]
      BY <1>1, <2>2 DEF Ends, RefuseReservation, TurnInv, Holding
    <3> QED
      BY <3>1, <3>2, <2>2, PlacesStay DEF RefuseReservation
  <2> QED
    BY <2>1, <2>2 DEF BeginStateful
<1> QED
  BY <1>2, <1>3, TurnsStay, CalmStep DEF BeginStateful

\* The connection that is leased goes to the start that waits for it.
LEMMA AcquiredStep ==
  ASSUME TurnsInv, NEW q \in Starts, Acquired(q)
  PROVE  TurnsInv'
<1>1. /\ q \in Requests /\ stage \in [Requests -> Stage] /\ stage[q] = "acquiring"
      /\ turn[q] \in Turn /\ reservations \subseteq Starts
  BY DEF TurnsInv, TypeOK, Requests, Acquired
<1>2. PICK conn \in {"own", "lease"} : SetTurn(q, StartTurn(NoTurn, conn))
  BY DEF Acquired
<1>3. turn' \in [Starts -> Turn] /\ \A x \in Starts : Calmer(turn[x], turn'[x])
  BY <1>1, <1>2, StartTurnProps, SetTurnCalm
<1>4. StageMoves
  BY <1>1, EntersMoves DEF Acquired, Enters, TurnsInv, Stage, Late
<1>5. PlacesHeld
  <2> SUFFICES ASSUME NEW x \in reservations PROVE x \notin stateless /\ stage'[x] \in Holding
    BY <1>1 DEF PlacesHeld, Acquired, registryVars
  <2>1. TurnInv(x) /\ x \in Requests
    BY <1>1 DEF TurnsInv, Requests
  <2> QED
    BY <1>1, <2>1 DEF TurnInv, Acquired, Enters, Holding
<1> QED
  BY <1>3, <1>4, <1>5, CalmStep DEF Acquired, RecordsGo, registryVars

\* Without a connection the start gives its place back.
LEMMA AcquireFailsStep ==
  ASSUME TurnsInv, NEW q \in Starts, AcquireFails(q)
  PROVE  TurnsInv'
BY FailsStep, TurnsStay, CalmStep DEF AcquireFails, Late

\* The turn of a start whose bridge is there joins the registry.
LEMMA BridgeBoundStep ==
  ASSUME TurnsInv, NEW q \in Starts, BridgeBound(q)
  PROVE  TurnsInv'
<1>1. turn[q] \in Turn /\ Coherent(turn[q]) /\ turn[q].state = "binding" /\ stage[q] = "starting"
  BY DEF TurnsInv, TypeOK, TurnInv, BridgeBound
<1>2. ASSUME NEW st \in {"closed", "opening"} PROVE Calmer(turn[q], [turn[q] EXCEPT !.state = st])
  <2> DEFINE u == [turn[q] EXCEPT !.state = st]
  <2>1. /\ u \in Turn /\ u.state = st /\ u.batch = turn[q].batch /\ u.outcome = turn[q].outcome
        /\ u.calls = turn[q].calls /\ u.conn = turn[q].conn /\ u.terminal = turn[q].terminal
    BY <1>1 DEF Turn
  <2> HIDE DEF u
  <2>2. Calmer(turn[q], u)
    BY <1>1, <2>1 DEF Calmer, Coherent, Busy
  <2> QED
    BY <2>2 DEF u
<1>3. turn' \in [Starts -> Turn] /\ \A x \in Starts : Calmer(turn[x], turn'[x])
  BY <1>2, SetTurnCalm DEF BridgeBound
<1>4. StageMoves /\ PlacesHeld /\ RecordsGo
  BY <1>1, FailsStep, HandlersStay DEF BridgeBound, Late
<1> QED
  BY <1>3, <1>4, CalmStep DEF BridgeBound

\* A start that fails gives back its place, or its record.
LEMMA OpenFailsStep ==
  ASSUME TurnsInv, NEW q \in Starts, OpenFails(q)
  PROVE  TurnsInv'
<1>1. /\ turn[q] \in Turn /\ Coherent(turn[q]) /\ stage[q] = "starting" /\ q \in Requests
      /\ stage \in [Requests -> Stage] /\ reservations \subseteq Starts
  BY DEF TurnsInv, TypeOK, TurnInv, OpenFails, Requests
<1>2. turn' \in [Starts -> Turn] /\ \A x \in Starts : Calmer(turn[x], turn'[x])
  BY <1>1, CloseTurnCalm, SetTurnCalm DEF OpenFails
<1>3. CASE Fails(q)
  BY <1>1, <1>2, <1>3, FailsStep, CalmStep DEF OpenFails, Late
<1>4. CASE Enters(q, "failing") /\ UNCHANGED <<registryVars, answer>>
  <2>1. StageMoves
    BY <1>1, <1>4, EntersMoves DEF Enters, TurnsInv, Stage, Late
  <2>2. PlacesHeld
    <3> SUFFICES ASSUME NEW x \in reservations PROVE x \notin stateless /\ stage'[x] \in Holding
      BY <1>1, <1>4 DEF PlacesHeld, registryVars
    <3>1. TurnInv(x) /\ x \in Requests
      BY <1>1 DEF TurnsInv, Requests
    <3> QED
      BY <1>1, <1>4, <3>1 DEF TurnInv, Enters, Holding
  <2> QED
    BY <1>2, <1>4, <2>1, <2>2, CalmStep DEF OpenFails, RecordsGo, registryVars
<1> QED
  BY <1>3, <1>4 DEF OpenFails

\* Stateless turns take no place in the registry.
LEMMA BeginStatelessStep ==
  ASSUME TurnsInv, NEW q \in Starts, BeginStateless(q)
  PROVE  TurnsInv'
<1>1. /\ q \in Requests /\ stage \in [Requests -> Stage] /\ stage[q] = "new"
      /\ stage' = [stage EXCEPT ![q] = "acquiring"] /\ stateless' = stateless \cup {q}
      /\ UNCHANGED <<turn, records, reservations, line, asked, down>>
  BY DEF TurnsInv, TypeOK, Requests, BeginStateless, Enters, registryVars
<1>2. TypeOK'
  BY <1>1 DEF TurnsInv, TypeOK, Stage, Requests
<1>3. ASSUME NEW s \in Starts PROVE LineInv(s)' /\ TurnInv(s)'
  <2>1. /\ LineInv(s) /\ TurnInv(s) /\ s \in Requests /\ line[s] \in Seq(Requests)
        /\ \A i \in 1..Len(line[s]) : line[s][i] \in Requests
    BY DEF TurnsInv, TypeOK, Requests
  <2>2. CASE s = q
    BY <1>1, <2>1, <2>2 DEF LineInv, TurnInv, Late, Holding, Busy, Coherent
  <2>3. CASE s # q
    <3>1. stage'[s] = stage[s] /\ (s \in stateless' <=> s \in stateless)
      BY <1>1, <2>1, <2>3
    <3>2. \A i \in 1..Len(line[s]) : stage'[line[s][i]] = stage[line[s][i]]
      BY <1>1, <2>1 DEF LineInv, Late
    <3>3. line[s] # <<>> => 1 \in 1..Len(line[s])
      BY <2>1
    <3>4. LineInv(s)'
      BY <1>1, <2>1, <3>1, <3>2, <3>3 DEF LineInv, Busy
    <3>5. TurnInv(s)'
      BY <1>1, <2>1, <3>1 DEF TurnInv, Coherent
    <3> QED
      BY <3>4, <3>5
  <2> QED
    BY <2>2, <2>3
<1> QED
  BY <1>2, <1>3 DEF TurnsInv

\* A prompt that has settled ends the collection.
LEMMA PromptRacesStep ==
  ASSUME TurnsInv, NEW s \in Starts, PromptRaces(s)
  PROVE  TurnsInv'
<1>1. turn[s] \in Turn /\ Coherent(turn[s])
  BY DEF TurnsInv, TypeOK, TurnInv
<1>2. turn' \in [Starts -> Turn] /\ \A x \in Starts : Calmer(turn[x], turn'[x])
  BY <1>1, PromptWinsCalm, SetTurnCalm DEF PromptRaces
<1> QED
  BY <1>2, HandlersStay, CalmStep DEF PromptRaces, handlerVars

\* The calls of a batch are shown and found again by their results.
LEMMA BatchFiresStep ==
  ASSUME TurnsInv, NEW s \in Starts, BatchFires(s)
  PROVE  TurnsInv'
<1>1. turn[s] \in Turn /\ Coherent(turn[s])
  BY DEF TurnsInv, TypeOK, TurnInv
<1>2. turn' \in [Starts -> Turn] /\ \A x \in Starts : Calmer(turn[x], turn'[x])
  BY <1>1, BatchWinsCalm, SetTurnCalm DEF BatchFires
<1> QED
  BY <1>2, HandlersStay, CalmStep DEF BatchFires, handlerVars

\* A timer that fires closes its turn.
LEMMA TurnExpiresStep ==
  ASSUME TurnsInv, NEW s \in Starts, TurnExpires(s)
  PROVE  TurnsInv'
<1>1. turn[s] \in Turn /\ Coherent(turn[s])
  BY DEF TurnsInv, TypeOK, TurnInv
<1>2. turn' \in [Starts -> Turn] /\ \A x \in Starts : Calmer(turn[x], turn'[x])
  BY <1>1, TimerClosesCalm, SetTurnCalm DEF TurnExpires
<1> QED
  BY <1>2, HandlersStay, CalmStep DEF TurnExpires, handlerVars

\* A call of the agent joins the calls of its turn.
LEMMA AgentCallsStep ==
  ASSUME TurnsInv, NEW s \in Starts, AgentCalls(s)
  PROVE  TurnsInv'
<1>1. turn[s] \in Turn /\ Coherent(turn[s])
  BY DEF TurnsInv, TypeOK, TurnInv
<1>2. turn' \in [Starts -> Turn] /\ \A x \in Starts : Calmer(turn[x], turn'[x])
  BY <1>1, CallArrivesCalm, SetTurnCalm DEF AgentCalls
<1> QED
  BY <1>2, HandlersStay, CalmStep DEF AgentCalls, handlerVars

\* The end of the prompt closes nothing by itself.
LEMMA AgentEndsStep ==
  ASSUME TurnsInv, NEW s \in Starts, AgentEnds(s)
  PROVE  TurnsInv'
<1>1. turn[s] \in Turn /\ Coherent(turn[s])
  BY DEF TurnsInv, TypeOK, TurnInv
<1>2. PICK result \in {"ok", "failed"} : SetTurn(s, [turn[s] EXCEPT !.prompt = result])
  BY DEF AgentEnds
<1>3. Calmer(turn[s], [turn[s] EXCEPT !.prompt = result])
  <2> DEFINE u == [turn[s] EXCEPT !.prompt = result]
  <2>1. /\ u \in Turn /\ u.state = turn[s].state /\ u.timer = turn[s].timer
        /\ u.batch = turn[s].batch /\ u.outcome = turn[s].outcome
        /\ u.calls = turn[s].calls /\ u.conn = turn[s].conn /\ u.terminal = turn[s].terminal
    BY <1>1 DEF Turn
  <2> HIDE DEF u
  <2>2. Calmer(turn[s], u)
    BY <1>1, <2>1 DEF Calmer, Coherent, Busy
  <2> QED
    BY <2>2 DEF u
<1>4. turn' \in [Starts -> Turn] /\ \A x \in Starts : Calmer(turn[x], turn'[x])
  BY <1>2, <1>3, SetTurnCalm
<1> QED
  BY <1>4, HandlersStay, CalmStep DEF AgentEnds, handlerVars

\* A client that leaves closes its turn, if someone listens.
LEMMA ClientLeavesStep ==
  ASSUME TurnsInv, NEW r \in Requests, ClientLeaves(r)
  PROVE  TurnsInv'
<1>1. \A x \in Starts : turn[x] \in Turn /\ Coherent(turn[x])
  BY DEF TurnsInv, TypeOK, TurnInv
<1>2. turn' \in [Starts -> Turn] /\ \A x \in Starts : Calmer(turn[x], turn'[x])
  <2>1. \A x \in Starts : Calmer(turn[x], CloseTurn(turn[x], FALSE)) /\ Calmer(turn[x], turn[x])
    BY <1>1, CloseTurnCalm, CalmSame
  <2>2. \A x \in Starts : CloseTurn(turn[x], FALSE) \in Turn
    BY <2>1 DEF Calmer
  <2>3. turn \in [Starts -> Turn]
    BY DEF TurnsInv, TypeOK
  <2>4. PICK b \in BOOLEAN : turn' = [turn EXCEPT ![TurnOf(r)] = IF b THEN CloseTurn(@, FALSE) ELSE @]
    <3> DEFINE listening ==
                 \/ stage[r] \in {"collecting", "queued"}
                 \/ turn[TurnOf(r)].state = "opening" /\ turn[TurnOf(r)].conn = "lease"
    <3>1. CASE listening
      BY <3>1 DEF ClientLeaves
    <3>2. CASE ~listening
      BY <3>2 DEF ClientLeaves
    <3> QED
      BY <3>1, <3>2
  <2> QED
    BY <2>1, <2>2, <2>3, <2>4
<1> QED
  BY <1>2, HandlersStay, CalmStep DEF ClientLeaves, registryVars

\* closeAll() closes every turn and forgets every record.
LEMMA CloseAllStep ==
  ASSUME TurnsInv, CloseAll
  PROVE  TurnsInv'
<1>1. \A x \in Starts : turn[x] \in Turn /\ Coherent(turn[x])
  BY DEF TurnsInv, TypeOK, TurnInv
<1>2. \A x \in Starts : Calmer(turn[x], CloseTurn(turn[x], FALSE)) /\ Calmer(turn[x], turn[x])
  BY <1>1, CloseTurnCalm, CalmSame
<1>3. turn' \in [Starts -> Turn] /\ \A x \in Starts : Calmer(turn[x], turn'[x])
  BY <1>1, <1>2 DEF CloseAll, CloseAllTurns, Calmer
<1>4. StageMoves
  BY DEF CloseAll, TurnsInv, TypeOK, StageMoves
<1> QED
  BY <1>3, <1>4, CalmStep DEF CloseAll, CloseAllTurns, RecordsGo, PlacesHeld

\* A turn that has closed gives its connection back.
LEMMA CloseFinishesStep ==
  ASSUME TurnsInv, NEW s \in Starts, CloseFinishes(s)
  PROVE  TurnsInv'
<1>1. /\ turn[s] \in Turn /\ Coherent(turn[s]) /\ turn[s].state = "closing" /\ s \in Requests
      /\ stage \in [Requests -> Stage]
  BY DEF TurnsInv, TypeOK, TurnInv, CloseFinishes, Requests
<1>2. PICK alive \in BOOLEAN :
        SetTurn(s, [CloseDone(turn[s], alive) EXCEPT !.batch = IF @ = "ending" THEN "idle" ELSE @])
  BY DEF CloseFinishes
<1>3. CloseDone(turn[s], alive).batch = turn[s].batch
  BY <1>1 DEF CloseDone, Turn
<1>4. turn' \in [Starts -> Turn] /\ \A x \in Starts : Calmer(turn[x], turn'[x])
  <2> DEFINE b == IF turn[s].batch = "ending" THEN "idle" ELSE turn[s].batch
  <2>1. b \in {"idle", "watching", "armed", "awaiting", "ending"} /\ (b # "idle" => turn[s].batch # "idle")
    BY <1>1 DEF Turn
  <2>2. SetTurn(s, [CloseDone(turn[s], alive) EXCEPT !.batch = b])
    BY <1>2, <1>3
  <2> HIDE DEF b
  <2>3. Calmer(turn[s], [CloseDone(turn[s], alive) EXCEPT !.batch = b])
    BY <1>1, <2>1, CloseDoneCalm
  <2> QED
    BY <2>2, <2>3, SetTurnCalm
<1>5. CASE stage[s] = "failing" /\ Fails(s)
  BY <1>4, <1>5, FailsStep, CalmStep DEF CloseFinishes, Late
<1>6. CASE stage[s] = "closing" /\ Enters(s, "done") /\ UNCHANGED <<registryVars, answer>>
  <2>1. StageMoves
    BY <1>1, <1>6 DEF Enters, StageMoves, Stage, Late
  <2>2. \A x \in reservations' : stage'[x] = stage[x]
    <3>1. \A x \in reservations : x \in Requests /\ TurnInv(x)
      BY DEF TurnsInv, TypeOK, Requests
    <3> QED
      BY <1>1, <1>6, <3>1 DEF Enters, TurnInv, Holding, registryVars
  <2>3. PlacesHeld
    BY <1>6, <2>2, PlacesStay DEF registryVars
  <2> QED
    BY <1>4, <1>6, <2>1, <2>3, CalmStep DEF CloseFinishes, RecordsGo, registryVars
<1>7. CASE UNCHANGED <<registryVars, stage, answer>>
  BY <1>4, <1>7, HandlersStay, CalmStep DEF CloseFinishes
<1> QED
  BY <1>5, <1>6, <1>7 DEF CloseFinishes

\* What a step leaves of a turn it is not about.
OtherTurn(s) ==
  /\ turn'[s] = turn[s] /\ line'[s] = line[s]
  /\ s \in records' => s \in records
  /\ s \in records => s \in records' \/ turn[s].state # "open"
  /\ s \in reservations' => s \in reservations
  /\ stage'[s] = stage[s]
  /\ \A i \in 1..Len(line[s]) :
       /\ stage'[line[s][i]] \in Late
       /\ stage'[line[s][i]] = "queued" => stage[line[s][i]] = "queued"

\* A step of one turn leaves the others as they are.
LEMMA OtherTurnStep ==
  ASSUME TurnsInv, NEW s \in Starts, OtherTurn(s), UNCHANGED <<stateless, down>>
  PROVE  LineInv(s)' /\ TurnInv(s)'
<1>1. LineInv(s) /\ TurnInv(s) /\ line[s] \in Seq(Requests)
  BY DEF TurnsInv, TypeOK
<1>2. line[s] # <<>> => 1 \in 1..Len(line[s])
  BY <1>1
<1>3. LineInv(s)'
  BY <1>1, <1>2 DEF LineInv, OtherTurn, Busy
<1>4. TurnInv(s)'
  BY <1>1 DEF TurnInv, OtherTurn, Coherent
<1> QED
  BY <1>3, <1>4

\* A start that succeeds and is collected from.
LEMMA OpenedStep ==
  ASSUME TurnsInv, NEW q \in Starts, Opened(q)
  PROVE  TurnsInv'
<1> DEFINE t == IF IsClosed(turn[q]) THEN turn[q] ELSE PromptSent(turn[q])
<1>1. /\ turn \in [Starts -> Turn] /\ turn[q] \in Turn /\ LineInv(q) /\ TurnInv(q) /\ Coherent(turn[q])
      /\ stage[q] = "starting" /\ q \in Requests /\ stage \in [Requests -> Stage]
      /\ line \in [Starts -> Seq(Requests)] /\ line[q] = <<>>
      /\ turn[q].state \in {"opening", "closing", "closed"}
      /\ records \subseteq Starts /\ reservations \subseteq Starts
  BY DEF TurnsInv, TypeOK, TurnInv, LineInv, Opened, Requests, Late
<1>2. /\ t \in Turn /\ t.conn = turn[q].conn /\ t.terminal = turn[q].terminal
      /\ t.batch = turn[q].batch /\ t.outcome = turn[q].outcome /\ t.calls = turn[q].calls
      /\ IsClosed(turn[q]) => t = turn[q]
      /\ ~IsClosed(turn[q]) => t.state = "open" /\ t.timer = "active" /\ ~t.terminal
  BY <1>1, PromptSentProps DEF IsClosed, Coherent
<1>3. CASE /\ q \in stateless \/ CreateRecord(q)
           /\ q \in stateless => UNCHANGED registryVars
           /\ SetTurn(q, BeginCollect(t)) /\ Enqueue(q, q)
           /\ Enters(q, "collecting") /\ UNCHANGED answer
  <2> DEFINE u == BeginCollect(t)
  <2>1. u \in Turn /\ Coherent(u) /\ u.conn = turn[q].conn /\ u.terminal = turn[q].terminal
    <3>1. Pending(t.calls) # {} => t.state = "open"
      BY <1>1, <1>2 DEF Coherent, IsClosed
    <3>2. /\ t.state \in {"binding", "opening", "open"} => ~t.terminal
          /\ t.state = "open" => t.timer = "active"
      BY <1>1, <1>2 DEF IsClosed
    <3> HIDE DEF t
    <3> QED
      BY <1>2, <3>1, <3>2, BeginCollectProps
  <2> HIDE DEF u
  <2>2. turn' = [turn EXCEPT ![q] = u]
    BY <1>3 DEF SetTurn, u
  <2>3. /\ line' = [line EXCEPT ![q] = <<q>>] /\ stage' = [stage EXCEPT ![q] = "collecting"]
        /\ UNCHANGED <<stateless, asked, down>>
    BY <1>1, <1>3 DEF Enqueue, Enters, Opened
  <2>4. /\ records' \subseteq records \cup {q} /\ reservations' \subseteq reservations \ {q}
        /\ q \in stateless \/ q \in records'
        /\ \A s \in records \ records' : turn[s].state # "open"
        /\ q \in stateless => records' = records
    BY <1>1, <1>3, SweptProps DEF CreateRecord, registryVars, TurnInv
  <2>5. TypeOK'
    <3>1. <<q>> \in Seq(Requests)
      BY <1>1
    <3>2. \A r \in Resumes : r \in Requests /\ (stage'[r] = "queued" => stage[r] = "queued")
      BY <1>1, <2>3 DEF Requests
    <3> QED
      BY <1>1, <2>1, <2>2, <2>3, <2>4, <3>1, <3>2 DEF TurnsInv, TypeOK, Stage
  <2>6. LineInv(q)'
    BY <1>1, <2>2, <2>3, <2>4 DEF LineInv, Late, Busy
  <2>7. TurnInv(q)'
    <3>1. /\ turn'[q] = u /\ stage'[q] = "collecting" /\ line'[q] = <<q>>
      BY <1>1, <2>2, <2>3
    <3> QED
      BY <1>1, <2>1, <2>3, <2>4, <3>1 DEF TurnInv, Late, Coherent
  <2>8. ASSUME NEW s \in Starts, s # q PROVE LineInv(s)' /\ TurnInv(s)'
    <3>1. LineInv(s) /\ line[s] \in Seq(Requests) /\ s \in Requests
      BY DEF TurnsInv, TypeOK, Requests
    <3>2. \A i \in 1..Len(line[s]) : line[s][i] \in Requests /\ stage'[line[s][i]] = stage[line[s][i]]
      BY <1>1, <2>3, <3>1 DEF LineInv, Late
    <3>3. OtherTurn(s)
      BY <1>1, <2>2, <2>3, <2>4, <2>8, <3>1, <3>2 DEF OtherTurn, LineInv
    <3> QED
      BY <2>3, <3>3, OtherTurnStep
  <2> QED
    BY <2>5, <2>6, <2>7, <2>8 DEF TurnsInv
<1>4. CASE /\ q \notin stateless /\ q \notin reservations
           /\ SetTurn(q, CloseTurn(t, FALSE)) /\ Fails(q) /\ UNCHANGED line
  <2> DEFINE u == CloseTurn(t, FALSE)
  <2>1. /\ u \in Turn /\ Coherent(u) /\ IsClosed(u)
        /\ u.batch = t.batch /\ u.outcome = t.outcome /\ u.terminal = t.terminal
        /\ u.conn = t.conn
    <3>1. ~IsClosed(t) \/ Coherent(t)
      BY <1>1, <1>2 DEF IsClosed
    <3> HIDE DEF t
    <3> QED
      BY <1>2, <3>1, CloseTurnProps
  <2> HIDE DEF u, t
  <2>2. Calmer(turn[q], u)
    BY <1>1, <1>2, <2>1 DEF Calmer, Busy, IsClosed
  <2>3. turn' \in [Starts -> Turn] /\ \A x \in Starts : Calmer(turn[x], turn'[x])
    BY <1>4, <2>2, SetTurnCalm DEF u
  <2> QED
    BY <1>1, <1>4, <2>3, FailsStep, CalmStep DEF Opened, Late
<1> QED
  BY <1>3, <1>4 DEF Opened

\* A request with outputs, of whichever handler.
LEMMA ResumedStep ==
  ASSUME TurnsInv, NEW r \in Resumes, NEW s \in Starts, NEW outputs \in SUBSET CallIds,
         NEW found \in BOOLEAN, found => s \in Swept, Resumed(r, s, outputs, found)
  PROVE  TurnsInv'
<1>1. /\ r \in Requests /\ r \notin Starts /\ stage \in [Requests -> Stage] /\ stage[r] = "new"
      /\ line \in [Starts -> Seq(Requests)] /\ asked \in [Resumes -> [turn : Starts \cup {"none"}, outputs : SUBSET CallIds]]
      /\ UNCHANGED <<turn, reservations, stateless, down>> /\ records' = Swept
      /\ asked' = [asked EXCEPT ![r] = [turn |-> s, outputs |-> outputs]]
  BY RequestConstants DEF TurnsInv, TypeOK, Resumed, Requests
<1>2. PICK st \in {"queued", "done"} : stage' = [stage EXCEPT ![r] = st]
  BY DEF Resumed, Enters, Ends
<1>3. \/ found /\ st = "queued" /\ line' = [line EXCEPT ![s] = Append(@, r)]
      \/ ~found /\ st = "done" /\ line' = line
  <2>1. stage'[r] = st
    BY <1>1, <1>2
  <2> QED
    BY <1>1, <2>1 DEF Resumed, Enters, Ends, Enqueue
<1>4. TypeOK'
  <2>1. line' \in [Starts -> Seq(Requests)]
    <3>1. Append(line[s], r) \in Seq(Requests)
      BY <1>1, AppendProperties
    <3> QED
      BY <1>1, <1>3, <3>1
  <2>2. asked' \in [Resumes -> [turn : Starts \cup {"none"}, outputs : SUBSET CallIds]]
    BY <1>1
  <2>3. stage' \in [Requests -> Stage]
    BY <1>1, <1>2 DEF Stage
  <2>4. \A x \in Resumes : stage'[x] = "queued" => asked'[x].turn \in Starts
    BY <1>1, <1>2 DEF TurnsInv, TypeOK, Requests
  <2> QED
    BY <1>1, <2>1, <2>2, <2>3, <2>4, SweptProps DEF TurnsInv, TypeOK
<1>5. ASSUME NEW x \in Starts PROVE LineInv(x)' /\ TurnInv(x)'
  <2>1. /\ LineInv(x) /\ TurnInv(x) /\ line[x] \in Seq(Requests) /\ x \in Requests /\ x # r
        /\ \A i \in 1..Len(line[x]) : line[x][i] \in Requests
    BY <1>1 DEF TurnsInv, TypeOK, Requests
  <2>2. \A i \in 1..Len(line[x]) : stage'[line[x][i]] = stage[line[x][i]]
    BY <1>1, <1>2, <2>1 DEF LineInv, Late
  <2>3. CASE line'[x] = line[x]
    <3>1. OtherTurn(x)
      BY <1>1, <1>2, <2>1, <2>2, <2>3, SweptProps DEF OtherTurn, LineInv
    <3> QED
      BY <1>1, <3>1, OtherTurnStep
  <2>4. CASE x = s /\ found /\ st = "queued" /\ line'[x] = Append(line[x], r)
    <3>1. /\ x \in records /\ x \in records' /\ x \notin stateless /\ stage[x] \in Late
          /\ stage'[x] = stage[x] /\ stage'[r] = "queued"
      BY <1>1, <1>2, <2>1, <2>4, SweptProps DEF LineInv, TurnInv
    <3>2. /\ line'[x] # <<>> /\ Len(line'[x]) = Len(line[x]) + 1
          /\ \A i \in 1..Len(line[x]) : line'[x][i] = line[x][i]
          /\ line'[x][Len(line[x]) + 1] = r /\ Len(line[x]) \in Nat
      BY <1>1, <2>1, <2>4, AppendProperties
    <3>3. ASSUME NEW i \in 1..Len(line'[x])
          PROVE  stage'[line'[x][i]] \in Late /\ (line'[x][i] \in Starts => line'[x][i] = x)
      <4>1. CASE i \in 1..Len(line[x])
        BY <2>1, <2>2, <3>2, <4>1 DEF LineInv
      <4>2. CASE i = Len(line[x]) + 1
        BY <1>1, <3>1, <3>2, <4>2 DEF Late
      <4> QED
        BY <3>2, <3>3, <4>1, <4>2
    <3>4. stage'[line'[x][1]] = "queued" => ~Busy(turn[x])
      <4>1. CASE line[x] = <<>>
        BY <2>1, <4>1 DEF LineInv
      <4>2. CASE line[x] # <<>>
        <5>1. 1 \in 1..Len(line[x])
          BY <2>1, <4>2
        <5> QED
          BY <2>1, <2>2, <3>2, <4>2, <5>1 DEF LineInv
      <4> QED
        BY <4>1, <4>2
    <3>5. LineInv(x)'
      BY <1>1, <3>1, <3>2, <3>3, <3>4 DEF LineInv, Busy
    <3>6. TurnInv(x)'
      BY <1>1, <2>1, <3>1 DEF TurnInv, Coherent
    <3> QED
      BY <3>5, <3>6
  <2> QED
    BY <1>1, <1>3, <2>3, <2>4
<1> QED
  BY <1>4, <1>5 DEF TurnsInv

\* What the line of s is after its head has passed the turn on.
LEMMA PassOnProps ==
  ASSUME TurnsInv, NEW s \in Starts, line[s] # <<>>
  PROVE  /\ Tail(line[s]) \in Seq(Requests) /\ Head(line[s]) = line[s][1]
         /\ line[s][1] \in Requests /\ stage[line[s][1]] \in Late
         /\ s \in stateless \/ line[s][1] \in Starts => line[s][1] = s
         /\ \A i \in 1..Len(Tail(line[s])) :
              /\ i + 1 \in 1..Len(line[s]) /\ Tail(line[s])[i] = line[s][i + 1]
              /\ Tail(line[s])[i] \in Requests
<1>1. line[s] \in Seq(Requests) /\ LineInv(s)
  BY DEF TurnsInv, TypeOK
<1>2. 1 \in 1..Len(line[s]) /\ Head(line[s]) = line[s][1] /\ line[s][1] \in Requests
  BY <1>1
<1>3. /\ Tail(line[s]) \in Seq(Requests) /\ Len(Tail(line[s])) = Len(line[s]) - 1
      /\ \A i \in 1..Len(Tail(line[s])) : Tail(line[s])[i] = line[s][i + 1]
  BY <1>1, HeadTailProperties
<1> QED
  BY <1>1, <1>2, <1>3 DEF LineInv

\* The line of s moves on from a turn that is idle.
LEMMA PassedOn ==
  ASSUME TurnsInv, NEW s \in Starts, line[s] # <<>>, line'[s] = Tail(line[s]),
         stateless' = stateless, ~Busy(turn'[s]), stage[s] \in Late,
         \A r \in Requests : stage[r] \in Late => stage'[r] \in Late
  PROVE  LineInv(s)'
<1>1. LineInv(s) /\ s \in Requests
  BY DEF TurnsInv, Requests
<1>2. ASSUME NEW i \in 1..Len(line'[s])
      PROVE  /\ stage'[line'[s][i]] \in Late
             /\ s \in stateless \/ line'[s][i] \in Starts => line'[s][i] = s
  BY <1>1, PassOnProps DEF LineInv
<1> QED
  BY <1>1, <1>2 DEF LineInv, Busy

\* resume() with the mutex.
LEMMA AdmittedStep ==
  ASSUME TurnsInv, NEW r \in Resumes, Admitted(r)
  PROVE  TurnsInv'
<1>0. PICK s \in Starts : s = asked[r].turn
  BY DEF TurnsInv, TypeOK, Admitted
<1>1. /\ r \in Requests /\ r \notin Starts /\ stage[r] = "queued" /\ Holds(s, r)
      /\ turn \in [Starts -> Turn] /\ line \in [Starts -> Seq(Requests)]
      /\ stage \in [Requests -> Stage] /\ asked[r].outputs \in SUBSET CallIds
      /\ UNCHANGED <<records, reservations, stateless, down, asked>>
  BY <1>0, RequestConstants DEF TurnsInv, TypeOK, Admitted, Requests, registryVars
<1>2. /\ LineInv(s) /\ TurnInv(s) /\ line[s] # <<>> /\ line[s][1] = r /\ ~Busy(turn[s])
      /\ s \in Requests /\ s # r /\ s \notin stateless /\ turn[s] \in Turn /\ Coherent(turn[s])
  <3>1. LineInv(s) /\ TurnInv(s) /\ line[s] # <<>> /\ Head(line[s]) = r
    BY <1>1 DEF TurnsInv, Holds
  <3>2. line[s][1] = r /\ (s \in stateless => r = s)
    BY <1>1, <3>1, PassOnProps
  <3> QED
    BY <1>1, <3>1, <3>2 DEF LineInv, TurnInv, Requests
<1>3. stage[s] \in Late
  BY <1>2 DEF LineInv
<1>4. ASSUME NEW st \in {"done", "collecting"}, stage' = [stage EXCEPT ![r] = st],
             NEW x \in Starts, x # s, turn'[x] = turn[x], line'[x] = line[x]
      PROVE  LineInv(x)' /\ TurnInv(x)'
  <2>1. /\ LineInv(x) /\ line[x] \in Seq(Requests) /\ x \in Requests /\ x # r
        /\ \A i \in 1..Len(line[x]) : line[x][i] \in Requests
    BY <1>1 DEF TurnsInv, TypeOK, Requests
  <2>2. OtherTurn(x)
    BY <1>1, <1>4, <2>1 DEF OtherTurn, LineInv, Late
  <2> QED
    BY <1>1, <2>2, OtherTurnStep
<1>5. CASE Ends(r, "refused") /\ PassOn(s) /\ UNCHANGED turn
  <2>1. stage' = [stage EXCEPT ![r] = "done"] /\ line' = [line EXCEPT ![s] = Tail(@)] /\ turn' = turn
    BY <1>5 DEF Ends, PassOn
  <2>2. TypeOK'
    BY <1>1, <1>2, <2>1, PassOnProps DEF TurnsInv, TypeOK, Stage, Requests
  <2>3. LineInv(s)'
    BY <1>1, <1>2, <1>3, <2>1, PassedOn DEF Late
  <2>4. TurnInv(s)'
    BY <1>1, <1>2, <2>1 DEF TurnInv, Coherent
  <2>5. ASSUME NEW x \in Starts, x # s PROVE LineInv(x)' /\ TurnInv(x)'
    BY <1>1, <1>4, <2>1, <2>5
  <2> QED
    BY <2>2, <2>3, <2>4, <2>5 DEF TurnsInv
<1>6. CASE /\ SetTurn(s, ResumeTurn(turn[s], asked[r].outputs))
           /\ Enters(r, "collecting") /\ UNCHANGED <<line, answer>>
  <2> DEFINE u == ResumeTurn(turn[s], asked[r].outputs)
  <2>1. /\ u \in Turn /\ Coherent(u) /\ u.state = turn[s].state /\ u.conn = turn[s].conn
        /\ u.terminal = turn[s].terminal
    BY <1>1, <1>2, ResumeTurnProps
  <2> HIDE DEF u
  <2>2. /\ stage' = [stage EXCEPT ![r] = "collecting"] /\ line' = line
        /\ turn' = [turn EXCEPT ![s] = u]
    BY <1>6 DEF Enters, SetTurn, u
  <2>3. TypeOK'
    BY <1>1, <2>1, <2>2 DEF TurnsInv, TypeOK, Stage, Requests
  <2>4. LineInv(s)'
    <3>1. \A i \in 1..Len(line[s]) : line[s][i] \in Requests
      BY <1>1
    <3>2. \A i \in 1..Len(line[s]) : stage'[line[s][i]] \in Late
      BY <1>1, <1>2, <2>2, <3>1 DEF LineInv, Late
    <3>3. stage'[line[s][1]] = "collecting"
      BY <1>1, <1>2, <2>2
    <3> QED
      BY <1>1, <1>2, <1>3, <2>2, <3>2, <3>3 DEF LineInv, Late
  <2>5. TurnInv(s)'
    <3>1. turn'[s] = u /\ stage'[s] = stage[s]
      BY <1>1, <1>2, <2>2
    <3> QED
      BY <1>1, <1>2, <2>1, <2>2, <3>1 DEF TurnInv, Coherent
  <2>6. ASSUME NEW x \in Starts, x # s PROVE LineInv(x)' /\ TurnInv(x)'
    BY <1>1, <1>4, <2>2, <2>6
  <2> QED
    BY <2>3, <2>4, <2>5, <2>6 DEF TurnsInv
<1> QED
  BY <1>0, <1>5, <1>6 DEF Admitted

\* A collect delivers its result.
LEMMA CollectedStep ==
  ASSUME TurnsInv, NEW s \in Starts, Collected(s)
  PROVE  TurnsInv'
<1> DEFINE r == Head(line[s])
           t == [turn[s] EXCEPT !.outcome = "none"]
           closing == r \in stateless /\ ~IsClosed(t)
           u == IF closing THEN CloseTurn(t, TRUE) ELSE t
           st == IF closing THEN "closing" ELSE "done"
<1>1. /\ turn \in [Starts -> Turn] /\ line \in [Starts -> Seq(Requests)]
      /\ stage \in [Requests -> Stage] /\ stateless \subseteq Starts /\ records \subseteq Starts
      /\ turn[s] \in Turn /\ Coherent(turn[s]) /\ LineInv(s) /\ TurnInv(s)
      /\ turn[s].batch = "idle" /\ turn[s].outcome # "none" /\ s \in Requests
  BY DEF TurnsInv, TypeOK, TurnInv, Collected, CollectDone, Requests
<1>2. line[s] # <<>>
  BY <1>1 DEF LineInv, Busy
<1>3. /\ r \in Requests /\ stage[r] \in Late /\ r = line[s][1]
      /\ r \in Starts \/ s \in stateless => r = s
  BY <1>2, PassOnProps
<1>4. stage[s] \in Late
  BY <1>1, <1>2 DEF LineInv
<1>5. /\ turn' = [turn EXCEPT ![s] = u] /\ stage' = [stage EXCEPT ![r] = st]
      /\ records' = records \ Unregistered(s) /\ line' = [line EXCEPT ![s] = Tail(@)]
      /\ UNCHANGED <<reservations, stateless, asked, down>>
  BY DEF Collected, SetTurn, PassOn
<1>6. /\ t \in Turn /\ t.batch = "idle" /\ t.outcome = "none" /\ t.state = turn[s].state
      /\ t.timer = turn[s].timer /\ t.calls = turn[s].calls /\ t.conn = turn[s].conn
      /\ t.terminal = turn[s].terminal
  BY <1>1 DEF Turn
<1> HIDE DEF r, t
<1>7. Coherent(t)
  BY <1>1, <1>6 DEF Coherent
<1>8. /\ u \in Turn /\ Coherent(u) /\ ~Busy(u) /\ u.terminal = turn[s].terminal
      /\ u.conn = turn[s].conn \/ (r \in stateless /\ u.conn = "keep")
      /\ u.state = "open" => turn[s].state = "open" /\ r \notin stateless
  <2>1. CASE closing
    <3>1. LET w == CloseTurn(t, TRUE) IN
          /\ w \in Turn /\ Coherent(w) /\ IsClosed(w)
          /\ w.batch = t.batch /\ w.outcome = t.outcome /\ w.terminal = t.terminal
          /\ w.conn = t.conn \/ w.conn = "keep"
      BY <1>6, <1>7, CloseTurnProps
    <3>2. u = CloseTurn(t, TRUE) /\ r \in stateless
      BY <2>1
    <3> HIDE DEF u
    <3> QED
      BY <1>6, <3>1, <3>2 DEF Busy, IsClosed
  <2>2. CASE ~closing
    BY <1>6, <1>7, <2>2 DEF Busy, IsClosed
  <2> QED
    BY <2>1, <2>2
<1> HIDE DEF u
<1>9. st \in {"closing", "done"}
  OBVIOUS
<1> HIDE DEF st
<1>10. TypeOK'
  BY <1>1, <1>2, <1>3, <1>5, <1>8, <1>9, PassOnProps DEF TurnsInv, TypeOK, Stage, Requests
<1>11. LineInv(s)'
  <2>1. turn'[s] = u /\ line'[s] = Tail(line[s])
    BY <1>1, <1>5
  <2> QED
    BY <1>1, <1>2, <1>3, <1>4, <1>5, <1>8, <1>9, <2>1, PassedOn DEF Late, Busy
<1>12. TurnInv(s)'
  <2>1. turn'[s] = u /\ stage'[s] \in Late /\ (stage'[s] # "new")
    BY <1>1, <1>3, <1>4, <1>5, <1>9 DEF Late
  <2>2. s \notin reservations
    BY <1>1, <1>4 DEF TurnInv, Late, Holding
  <2>3. u.state = "open" => s \notin stateless /\ (s \in records' \/ down')
    BY <1>1, <1>3, <1>5, <1>8 DEF TurnInv, Unregistered, IsClosed, Coherent
  <2>4. r \in stateless => s \in stateless
    BY <1>1, <1>3
  <2>5. s \in stateless => s \notin records'
    BY <1>1, <1>5 DEF TurnInv
  <2>6. /\ u.conn = "keep" => s \in stateless
        /\ u.conn = "reused" => s \in stateless \/ u.terminal
    BY <1>1, <1>8, <2>4 DEF TurnInv
  <2> QED
    BY <1>5, <1>8, <2>1, <2>2, <2>3, <2>5, <2>6 DEF TurnInv, Coherent
<1>13. ASSUME NEW x \in Starts, x # s PROVE LineInv(x)' /\ TurnInv(x)'
  <2>1. /\ LineInv(x) /\ line[x] \in Seq(Requests) /\ x \in Requests /\ x # r
        /\ \A i \in 1..Len(line[x]) : line[x][i] \in Requests
    BY <1>1, <1>3, <1>13 DEF TurnsInv, TypeOK, Requests
  <2>2. OtherTurn(x)
    BY <1>1, <1>3, <1>5, <1>9, <1>13, <2>1 DEF OtherTurn, LineInv, Late, Unregistered
  <2> QED
    BY <1>5, <2>2, OtherTurnStep
<1> QED
  BY <1>10, <1>11, <1>12, <1>13 DEF TurnsInv

-----------------------------------------------------------------------------
(***************************************************************************)
(* The invariant holds in every behaviour.                                 *)
(***************************************************************************)
LEMMA TurnsInvInit ==
  ASSUME Init
  PROVE  TurnsInv
<1>1. NoCalls \in [CallIds -> CallState] /\ Pending(NoCalls) = {}
  BY DEF NoCalls, CallState, Pending
<1>2. /\ NoTurn \in Turn /\ NoTurn.calls = NoCalls /\ NoTurn.batch = "idle"
      /\ NoTurn.outcome = "none" /\ NoTurn.state = "none" /\ NoTurn.conn = "none"
  BY <1>1 DEF NoTurn, Turn
<1>3. /\ turn = [s \in Starts |-> NoTurn] /\ records = {} /\ reservations = {}
      /\ line = [s \in Starts |-> <<>>] /\ stage = [r \in Requests |-> "new"]
      /\ stateless = {} /\ down = FALSE /\ asked = [r \in Resumes |-> Nothing]
  BY DEF Init, InitRegistry
<1>4. TypeOK
  <2>1. Nothing \in [turn : Starts \cup {"none"}, outputs : SUBSET CallIds]
    BY DEF Nothing
  <2>2. line \in [Starts -> Seq(Requests)]
    BY <1>3
  <2> QED
    BY <1>2, <1>3, <2>1, <2>2 DEF TypeOK, Stage, Requests
<1>5. ASSUME NEW s \in Starts PROVE LineInv(s) /\ TurnInv(s)
  BY <1>1, <1>2, <1>3 DEF LineInv, TurnInv, Busy, Coherent
<1> QED
  BY <1>4, <1>5 DEF TurnsInv

\* Every action preserves the invariant.
LEMMA TurnsInvNext ==
  ASSUME TurnsInv, [Next]_vars
  PROVE  TurnsInv'
<1>1. CASE \E q \in Starts : BeginStateful(q) \/ BeginStateless(q) \/ Starting(q)
  BY <1>1, BeginStatefulStep, BeginStatelessStep, AcquiredStep, AcquireFailsStep,
     BridgeBoundStep, OpenedStep, OpenFailsStep DEF Starting
<1>2. CASE \E s \in Starts : Continues(s) \/ AgentCalls(s) \/ AgentEnds(s)
  BY <1>2, PromptRacesStep, BatchFiresStep, TurnExpiresStep, CloseFinishesStep,
     CollectedStep, AgentCallsStep, AgentEndsStep DEF Continues
<1>3. CASE Resuming
  <2>1. PICK r \in Resumes, s \in Starts : \E outputs \in SUBSET Shown(s) \ {{}} :
          ResumeChat(r, s, outputs) \/ ResumeMessages(r, s, outputs) \/ ResumeResponses(r, s, outputs)
    BY <1>3 DEF Resuming
  <2>2. PICK outputs \in SUBSET Shown(s) \ {{}} :
          ResumeChat(r, s, outputs) \/ ResumeMessages(r, s, outputs) \/ ResumeResponses(r, s, outputs)
    BY <2>1
  <2>3. outputs \in SUBSET CallIds
    BY DEF Shown
  <2>4. \E found \in BOOLEAN : (found => s \in Swept) /\ Resumed(r, s, outputs, found)
    <3>1. CASE ResumeChat(r, s, outputs)
      <4> DEFINE f == Found(r, s, "chat", outputs)
      <4>1. f \in BOOLEAN /\ (f => s \in Swept)
        BY DEF Found, FindByCallIds
      <4> QED
        BY <3>1, <4>1 DEF ResumeChat
    <3>2. CASE ResumeMessages(r, s, outputs)
      <4> DEFINE f == Found(r, s, "anthropic", outputs)
      <4>1. f \in BOOLEAN /\ (f => s \in Swept)
        BY DEF Found, FindByCallIds
      <4> QED
        BY <3>2, <4>1 DEF ResumeMessages
    <3>3. CASE ResumeResponses(r, s, outputs)
      <4> DEFINE f == /\ FindByResponseId(s) /\ api[s] = "responses" /\ OwnerOf[s] = AskerOf[r]
                      /\ outputs \subseteq Pending(turn[s].calls)
      <4>1. f \in BOOLEAN /\ (f => s \in Swept)
        BY DEF FindByResponseId
      <4> QED
        BY <3>3, <4>1 DEF ResumeResponses
    <3> QED
      BY <2>2, <3>1, <3>2, <3>3
  <2> QED
    BY <2>3, <2>4, ResumedStep
<1>4. CASE \E r \in Resumes : Admitted(r)
  BY <1>4, AdmittedStep
<1>5. CASE \E r \in Requests : ClientLeaves(r)
  BY <1>5, ClientLeavesStep
<1>6. CASE CloseAll
  BY <1>6, CloseAllStep
<1>7. CASE UNCHANGED vars
  <2>1. UNCHANGED <<turn, line, stateless, asked, registryVars, stage, down>>
    BY <1>7 DEF vars, handlerVars
  <2> QED
    BY <2>1, TurnsStay, HandlersStay, CalmStep
<1> QED
  BY <1>1, <1>2, <1>3, <1>4, <1>5, <1>6, <1>7 DEF Next

\* Types, lines and turns are as the inductive invariant says, in every
\* interleaving of requests, agents, timers and shutdown.
THEOREM TurnsInvariant == Spec => []TurnsInv
<1>1. Init => TurnsInv
  BY TurnsInvInit
<1>2. TurnsInv /\ [Next]_vars => TurnsInv'
  BY TurnsInvNext
<1> QED
  BY <1>1, <1>2, PTL DEF Spec

\* A place is held only for a request that is still starting its turn
\* (reserve and the catch blocks of the handlers).
THEOREM PlacesAccounted == Spec => []ReservationsAccounted
<1>1. TurnsInv => ReservationsAccounted
  BY DEF TurnsInv, TypeOK, TurnInv, ReservationsAccounted, Holding
<1> QED
  BY <1>1, TurnsInvariant, PTL

\* An open turn is worked on, or parked with its timer running and registered
\* (#enterActive, #enterParked, and the finally blocks of the registry).
THEOREM TurnsGuarded == Spec => []OpenTurnsGuarded
<1>1. ASSUME TurnsInv, NEW s \in Starts, turn[s].state = "open"
      PROVE  \/ turn[s].timer = "active" /\ line[s] # <<>>
             \/ turn[s].timer = "parked" /\ (s \in records \/ line[s] # <<>> \/ down)
  BY <1>1 DEF TurnsInv, LineInv, TurnInv, Coherent, Busy
<1>2. TurnsInv => OpenTurnsGuarded
  BY <1>1 DEF OpenTurnsGuarded
<1> QED
  BY <1>2, TurnsInvariant, PTL

\* Calls that a client was shown and that wait belong to a registered turn,
\* unless the gateway shuts down (markExposed, the sweep and close).
THEOREM ShownCallsKept == Spec => []ShownCallsFindable
<1>1. ASSUME TurnsInv, NEW s \in Starts, s \notin stateless, NEW i \in CallIds, turn[s].calls[i] = "exposed"
      PROVE  s \in records \/ down
  <2>1. Pending(turn[s].calls) # {}
    BY <1>1 DEF Pending
  <2> QED
    BY <1>1, <2>1 DEF TurnsInv, TurnInv, Coherent
<1>2. TurnsInv => ShownCallsFindable
  BY <1>1 DEF ShownCallsFindable
<1> QED
  BY <1>2, TurnsInvariant, PTL

-----------------------------------------------------------------------------
(***************************************************************************)
(* The connections.  A turn that is over has given its connection back: a  *)
(* fact about its state, its prompt and its connection, which every method *)
(* of a turn preserves.                                                    *)
(***************************************************************************)
\* Before the prompt there is none; after it the turn ends by close() alone.
GivenBack(t) ==
  /\ t.state \in {"none", "binding", "opening"} => t.prompt = "none"
  /\ t.state = "closed" /\ t.prompt # "none" => t.conn \in {"reused", "dropped"}

\* A method that leaves prompt and connection alone, and the state but to close.
Holdover(t, u) ==
  /\ u \in Turn /\ u.prompt = t.prompt
  /\ (u.state = t.state /\ u.conn = t.conn) \/ u.state = "closing"

\* Such methods preserve it.
LEMMA HoldoverGives ==
  ASSUME NEW t \in Turn, NEW u, GivenBack(t), Holdover(t, u)
  PROVE  GivenBack(u)
BY DEF GivenBack, Holdover

\* close() is such a method.
LEMMA CloseTurnHolds ==
  ASSUME NEW t \in Turn, NEW b \in BOOLEAN
  PROVE  Holdover(t, CloseTurn(t, b))
<1>1. CASE IsClosed(t)
  BY <1>1 DEF CloseTurn, Holdover
<1>2. CASE ~IsClosed(t)
  <2> DEFINE x == RejectAll(t.calls)
             c == IF t.conn = "lease" /\ b THEN "keep" ELSE t.conn
             u == CloseTurn(t, b)
  <2>1. x \in [CallIds -> CallState]
    BY RejectAllProps DEF Turn
  <2>2. c \in {"none", "own", "lease", "keep", "reused", "dropped"}
    BY DEF Turn
  <2>3. u = [t EXCEPT !.state = "closing", !.timer = "none", !.calls = x, !.conn = c]
    BY <1>2 DEF CloseTurn
  <2> HIDE DEF x, c, u
  <2>4. u \in Turn /\ u.prompt = t.prompt /\ u.state = "closing"
    BY <2>1, <2>2, <2>3 DEF Turn
  <2> QED
    BY <2>4 DEF Holdover, u
<1> QED
  BY <1>1, <1>2

\* The end of a collect, which closes the turn.
LEMMA EndWithHolds ==
  ASSUME NEW t \in Turn, NEW outcome \in {"completed", "error"}
  PROVE  Holdover(t, EndWith(t, outcome))
<1> DEFINE c == CloseTurn(t, FALSE)
           b == IF IsClosed(t) THEN "idle" ELSE "ending"
           u == EndWith(t, outcome)
<1>1. Holdover(t, c)
  BY CloseTurnHolds
<1>2. u = [c EXCEPT !.outcome = outcome, !.batch = b]
  BY DEF EndWith
<1>3. b \in {"idle", "ending"}
  OBVIOUS
<1> HIDE DEF b, c, u
<1>4. u \in Turn /\ u.prompt = c.prompt /\ u.state = c.state /\ u.conn = c.conn
  <2> DEFINE v == [c EXCEPT !.outcome = outcome]
  <2>1. /\ c \in Turn /\ v \in Turn /\ u = [v EXCEPT !.batch = b]
        /\ v.prompt = c.prompt /\ v.state = c.state /\ v.conn = c.conn
    BY <1>1, <1>2 DEF Holdover, Turn
  <2> HIDE DEF v
  <2> QED
    BY <1>3, <2>1 DEF Turn
<1>5. Holdover(t, u)
  BY <1>1, <1>4 DEF Holdover
<1> QED
  BY <1>5 DEF u

\* The prompt ends a collect.
LEMMA PromptWinsHolds ==
  ASSUME NEW t \in Turn
  PROVE  Holdover(t, PromptWins(t))
<1>1. Holdover(t, EndWith(t, "error"))
  BY EndWithHolds
<1> DEFINE v == [t EXCEPT !.terminal = TRUE]
<1>2. v \in Turn /\ v.state = t.state /\ v.prompt = t.prompt /\ v.conn = t.conn
  BY DEF Turn
<1>3. Holdover(v, EndWith(v, "completed"))
  BY <1>2, EndWithHolds
<1>4. Holdover(t, EndWith(v, "completed"))
  BY <1>2, <1>3 DEF Holdover
<1> QED
  BY <1>1, <1>4 DEF PromptWins

\* A batch of calls ends a collect.
LEMMA BatchWinsHolds ==
  ASSUME NEW t \in Turn
  PROVE  Holdover(t, BatchWins(t))
<1>1. Holdover(t, EndWith(t, "error"))
  BY EndWithHolds
<1>2. Holdover(t, [t EXCEPT !.batch = "awaiting"])
  BY DEF Turn, Holdover
<1> DEFINE x == MarkExposed(t.calls)
           w == [t EXCEPT !.calls = x]
           v == [t EXCEPT !.calls = x, !.batch = "idle", !.outcome = "tool_calls"]
           u == EnterParked(v)
<1>3. x \in [CallIds -> CallState]
  BY DEF MarkExposed, Turn, CallState, Pending
<1> HIDE DEF x
<1>4. v \in Turn /\ v.prompt = t.prompt /\ v.state = t.state /\ v.conn = t.conn
  <2> DEFINE z == [w EXCEPT !.batch = "idle"]
  <2>1. /\ w \in Turn /\ v = [z EXCEPT !.outcome = "tool_calls"]
        /\ w.prompt = t.prompt /\ w.state = t.state /\ w.conn = t.conn
    BY <1>3 DEF Turn
  <2> HIDE DEF w
  <2>2. z \in Turn /\ z.prompt = w.prompt /\ z.state = w.state /\ z.conn = w.conn
    BY <2>1 DEF Turn
  <2> HIDE DEF v, z
  <2> QED
    BY <2>1, <2>2 DEF Turn
<1> HIDE DEF v
<1>5. u \in Turn /\ u.prompt = v.prompt /\ u.state = v.state /\ u.conn = v.conn
  BY <1>4 DEF Turn, EnterParked
<1>6. Holdover(t, u)
  BY <1>4, <1>5 DEF Holdover
<1> QED
  BY <1>1, <1>2, <1>6 DEF BatchWins, u, v, x

\* The timer closes the turn.
LEMMA TimerClosesHolds ==
  ASSUME NEW t \in Turn
  PROVE  Holdover(t, TimerCloses(t))
<1> DEFINE v == [t EXCEPT !.timedOut = (t.timer = "active")]
<1>1. v \in Turn /\ v.prompt = t.prompt /\ v.state = t.state /\ v.conn = t.conn
  BY DEF Turn
<1>2. Holdover(v, CloseTurn(v, FALSE))
  BY <1>1, CloseTurnHolds
<1> QED
  BY <1>1, <1>2 DEF TimerCloses, Holdover

\* A collect begins.
LEMMA BeginCollectHolds ==
  ASSUME NEW t \in Turn
  PROVE  Holdover(t, BeginCollect(t))
BY DEF BeginCollect, Turn, Holdover

\* A resumption hands outputs over and collects.
LEMMA ResumeTurnHolds ==
  ASSUME NEW t \in Turn, NEW outputs \in SUBSET CallIds
  PROVE  Holdover(t, ResumeTurn(t, outputs))
<1> DEFINE a == EnterActive(t)
           x == ResolveOutputs(t.calls, outputs)
           v == [a EXCEPT !.calls = x]
<1>1. /\ a \in Turn /\ a.state = t.state /\ a.conn = t.conn /\ a.prompt = t.prompt
      /\ a.calls = t.calls
  BY DEF EnterActive, Turn
<1>2. x \in [CallIds -> CallState]
  BY DEF ResolveOutputs, Turn, CallState, Pending
<1>3. ResumeTurn(t, outputs) = BeginCollect(v)
  BY <1>1 DEF ResumeTurn
<1> HIDE DEF a, x
<1>4. v \in Turn /\ v.state = t.state /\ v.conn = t.conn /\ v.prompt = t.prompt
  BY <1>1, <1>2 DEF Turn
<1> HIDE DEF v
<1>5. Holdover(v, BeginCollect(v))
  BY <1>4, BeginCollectHolds
<1> QED
  BY <1>3, <1>4, <1>5 DEF Holdover

\* The turn is closed and its connection gone, one way or the other.
LEMMA CloseDoneGives ==
  ASSUME NEW t \in Turn, NEW alive \in BOOLEAN,
         NEW b \in {"idle", "watching", "armed", "awaiting", "ending"}
  PROVE  GivenBack([CloseDone(t, alive) EXCEPT !.batch = b])
<1> DEFINE reusable == t.conn = "keep" \/ (t.conn = "lease" /\ t.terminal)
           c == IF reusable /\ alive THEN "reused" ELSE "dropped"
           p == IF t.prompt = "running" /\ c = "dropped" THEN "failed" ELSE t.prompt
           v == CloseDone(t, alive)
           u == [v EXCEPT !.batch = b]
<1>1. v = [t EXCEPT !.state = "closed", !.conn = c, !.prompt = p]
  BY DEF CloseDone
<1>2. c \in {"reused", "dropped"}
  OBVIOUS
<1> HIDE DEF c, p, v
<1>3. u.state = "closed" /\ u.conn = c
  BY <1>1 DEF Turn
<1> HIDE DEF u
<1>4. GivenBack(u)
  BY <1>2, <1>3 DEF GivenBack
<1> QED
  BY <1>4 DEF u, v

\* The connections of all turns.
Returned == \A s \in Starts : GivenBack(turn[s])

\* A step of one turn preserves it with that turn's.
LEMMA SetTurnReturns ==
  ASSUME TypeOK, Returned, NEW s \in Starts, NEW t, SetTurn(s, t), GivenBack(t)
  PROVE  Returned'
BY DEF TypeOK, Returned, SetTurn

\* ... which holds for the methods that keep prompt and connection.
LEMMA HoldoverReturns ==
  ASSUME TypeOK, Returned, NEW s \in Starts, NEW t, SetTurn(s, t), Holdover(turn[s], t)
  PROVE  Returned'
<1>1. turn[s] \in Turn /\ GivenBack(turn[s])
  BY DEF TypeOK, Returned
<1>2. GivenBack(t)
  BY <1>1, HoldoverGives
<1> QED
  BY <1>2, SetTurnReturns

\* The steps of a tool start.
LEMMA StartingReturns ==
  ASSUME TypeOK, Returned, NEW q \in Starts, Starting(q)
  PROVE  Returned'
<1>1. turn[q] \in Turn /\ GivenBack(turn[q])
  BY DEF TypeOK, Returned
<1>2. CASE Acquired(q)
  <2>1. PICK conn \in {"own", "lease"} : SetTurn(q, StartTurn(NoTurn, conn))
    BY <1>2 DEF Acquired
  <2>2. StartTurn(NoTurn, conn).state = "binding" /\ StartTurn(NoTurn, conn).prompt = "none"
    BY DEF StartTurn, NoTurn
  <2>3. GivenBack(StartTurn(NoTurn, conn))
    BY <2>2 DEF GivenBack
  <2> QED
    BY <2>1, <2>3, SetTurnReturns
<1>3. CASE AcquireFails(q)
  BY <1>3 DEF AcquireFails, Returned
<1>4. CASE BridgeBound(q)
  <2>1. ASSUME NEW st \in {"closed", "opening"} PROVE GivenBack([turn[q] EXCEPT !.state = st])
    BY <1>1, <1>4 DEF BridgeBound, GivenBack, Turn
  <2> QED
    BY <1>4, <2>1, SetTurnReturns DEF BridgeBound
<1>5. CASE OpenFails(q)
  <2>1. Holdover(turn[q], CloseTurn(turn[q], FALSE))
    BY <1>1, CloseTurnHolds
  <2> QED
    BY <1>5, <2>1, HoldoverReturns DEF OpenFails
<1>6. CASE Opened(q)
  <2> DEFINE t == IF IsClosed(turn[q]) THEN turn[q] ELSE PromptSent(turn[q])
  <2>1. t \in Turn /\ GivenBack(t)
    <3>1. CASE IsClosed(turn[q])
      BY <1>1, <3>1
    <3>2. CASE ~IsClosed(turn[q])
      <4>1. PromptSent(turn[q]) \in Turn /\ PromptSent(turn[q]).state = "open"
        BY <1>1 DEF PromptSent, EnterActive, Turn
      <4> QED
        BY <3>2, <4>1 DEF GivenBack
    <3> QED
      BY <3>1, <3>2
  <2>2. SetTurn(q, BeginCollect(t)) \/ SetTurn(q, CloseTurn(t, FALSE))
    BY <1>6 DEF Opened
  <2> HIDE DEF t
  <2>3. Holdover(t, BeginCollect(t)) /\ Holdover(t, CloseTurn(t, FALSE))
    BY <2>1, BeginCollectHolds, CloseTurnHolds
  <2>4. GivenBack(BeginCollect(t)) /\ GivenBack(CloseTurn(t, FALSE))
    BY <2>1, <2>3, HoldoverGives
  <2> QED
    BY <2>2, <2>4, SetTurnReturns
<1> QED
  BY <1>2, <1>3, <1>4, <1>5, <1>6 DEF Starting

\* The steps of a turn that is collected from, or closes.
LEMMA ContinuesReturns ==
  ASSUME TypeOK, Returned, NEW s \in Starts, Continues(s)
  PROVE  Returned'
<1>1. turn[s] \in Turn /\ GivenBack(turn[s])
  BY DEF TypeOK, Returned
<1>2. CASE PromptRaces(s) \/ BatchFires(s) \/ TurnExpires(s)
  <2>1. /\ Holdover(turn[s], PromptWins(turn[s])) /\ Holdover(turn[s], BatchWins(turn[s]))
        /\ Holdover(turn[s], TimerCloses(turn[s]))
    BY <1>1, PromptWinsHolds, BatchWinsHolds, TimerClosesHolds
  <2> QED
    BY <1>2, <2>1, HoldoverReturns DEF PromptRaces, BatchFires, TurnExpires
<1>3. CASE CloseFinishes(s)
  <2>1. PICK alive \in BOOLEAN :
          SetTurn(s, [CloseDone(turn[s], alive) EXCEPT
                        !.batch = IF @ = "ending" THEN "idle" ELSE @])
    BY <1>3 DEF CloseFinishes
  <2> DEFINE v == CloseDone(turn[s], alive)
             b == IF v.batch = "ending" THEN "idle" ELSE v.batch
  <2>2. v.batch = turn[s].batch
    BY <1>1 DEF CloseDone, Turn
  <2>3. b \in {"idle", "watching", "armed", "awaiting", "ending"}
    BY <1>1, <2>2 DEF Turn
  <2>4. SetTurn(s, [v EXCEPT !.batch = b])
    BY <2>1
  <2> HIDE DEF b
  <2>5. GivenBack([v EXCEPT !.batch = b])
    BY <1>1, <2>3, CloseDoneGives
  <2> QED
    BY <2>4, <2>5, SetTurnReturns
<1>4. CASE Collected(s)
  <2> DEFINE t == [turn[s] EXCEPT !.outcome = "none"]
  <2>1. SetTurn(s, t) \/ SetTurn(s, CloseTurn(t, TRUE))
    BY <1>4 DEF Collected
  <2>2. t \in Turn /\ t.state = turn[s].state /\ t.prompt = turn[s].prompt /\ t.conn = turn[s].conn
    BY <1>1 DEF Turn
  <2> HIDE DEF t
  <2>3. Holdover(turn[s], t) /\ Holdover(t, CloseTurn(t, TRUE))
    BY <2>2, CloseTurnHolds DEF Holdover
  <2>4. Holdover(turn[s], CloseTurn(t, TRUE))
    BY <2>2, <2>3 DEF Holdover
  <2> QED
    BY <2>1, <2>3, <2>4, HoldoverReturns
<1> QED
  BY <1>2, <1>3, <1>4 DEF Continues

\* The agent calls a tool, or its prompt ends.
LEMMA AgentReturns ==
  ASSUME TypeOK, Returned, NEW s \in Starts, AgentCalls(s) \/ AgentEnds(s)
  PROVE  Returned'
<1>1. turn[s] \in Turn /\ GivenBack(turn[s])
  BY DEF TypeOK, Returned
<1>2. CASE AgentCalls(s)
  <2> DEFINE t == CallArrives(turn[s])
  <2>1. t.state = turn[s].state /\ turn[s].state = "open"
    BY <1>1, <1>2 DEF AgentCalls, CallArrives, Turn
  <2>2. GivenBack(t)
    BY <2>1 DEF GivenBack
  <2> QED
    BY <1>2, <2>2, SetTurnReturns DEF AgentCalls
<1>3. CASE AgentEnds(s)
  <2>1. PICK result \in {"ok", "failed"} : SetTurn(s, [turn[s] EXCEPT !.prompt = result])
    BY <1>3 DEF AgentEnds
  <2>2. GivenBack([turn[s] EXCEPT !.prompt = result])
    BY <1>1, <1>3 DEF AgentEnds, GivenBack, Turn
  <2> QED
    BY <2>1, <2>2, SetTurnReturns
<1> QED
  BY <1>2, <1>3

\* A client leaves or the gateway shuts down, which closes turns.
LEMMA ClosingReturns ==
  ASSUME TypeOK, Returned, CloseAll \/ \E r \in Requests : ClientLeaves(r)
  PROVE  Returned'
<1>1. ASSUME NEW s \in Starts PROVE GivenBack(turn[s]) /\ GivenBack(CloseTurn(turn[s], FALSE))
  <2>1. turn[s] \in Turn /\ GivenBack(turn[s])
    BY DEF TypeOK, Returned
  <2>2. Holdover(turn[s], CloseTurn(turn[s], FALSE))
    BY <2>1, CloseTurnHolds
  <2> QED
    BY <2>1, <2>2, HoldoverGives
<1>2. ASSUME NEW s \in Starts PROVE turn'[s] = turn[s] \/ turn'[s] = CloseTurn(turn[s], FALSE)
  <2>1. turn \in [Starts -> Turn]
    BY DEF TypeOK
  <2>2. CASE CloseAll
    BY <2>1, <2>2 DEF CloseAll, CloseAllTurns
  <2>3. CASE \E r \in Requests : ClientLeaves(r)
    BY <2>1, <2>3 DEF ClientLeaves
  <2> QED
    BY <2>2, <2>3
<1> QED
  BY <1>1, <1>2 DEF Returned

\* Every step preserves it.
LEMMA ReturnedNext ==
  ASSUME TypeOK, Returned, [Next]_vars
  PROVE  Returned'
<1>1. CASE \E q \in Starts : BeginStateful(q) \/ BeginStateless(q) \/ Starting(q)
  BY <1>1, StartingReturns DEF BeginStateful, BeginStateless, Returned
<1>2. CASE \E s \in Starts : Continues(s) \/ AgentCalls(s) \/ AgentEnds(s)
  BY <1>2, ContinuesReturns, AgentReturns
<1>3. CASE Resuming
  BY <1>3 DEF Resuming, ResumeChat, ResumeMessages, ResumeResponses, Resumed, Returned
<1>4. CASE \E r \in Resumes : Admitted(r)
  <2>1. PICK r \in Resumes : Admitted(r)
    BY <1>4
  <2> DEFINE s == asked[r].turn
             outputs == asked[r].outputs
  <2>2. CASE turn' = turn
    BY <2>2 DEF Returned
  <2>3. CASE SetTurn(s, ResumeTurn(turn[s], outputs))
    <3>1. s \in Starts /\ outputs \in SUBSET CallIds /\ turn[s] \in Turn
      BY <2>1 DEF TypeOK, Admitted
    <3>2. Holdover(turn[s], ResumeTurn(turn[s], outputs))
      BY <3>1, ResumeTurnHolds
    <3> QED
      BY <2>3, <3>1, <3>2, HoldoverReturns
  <2> QED
    BY <2>1, <2>2, <2>3 DEF Admitted
<1>5. CASE CloseAll \/ \E r \in Requests : ClientLeaves(r)
  BY <1>5, ClosingReturns
<1>6. CASE UNCHANGED vars
  BY <1>6 DEF vars, Returned
<1> QED
  BY <1>1, <1>2, <1>3, <1>4, <1>5, <1>6 DEF Next

\* A connection goes back to the tool pool only from a turn that is terminal or
\* was stateless, and a turn that has sent its prompt does not end without giving
\* its connection back (close and its lease release).
THEOREM ConnectionsDone == Spec => []ConnectionsGivenBack
<1>1. Init => Returned
  BY DEF Init, InitRegistry, Returned, GivenBack, NoTurn
<1>2. TurnsInv /\ Returned /\ [Next]_vars => Returned'
  BY ReturnedNext DEF TurnsInv
<1>3. TurnsInv /\ Returned => ConnectionsGivenBack
  BY DEF TurnsInv, TurnInv, Returned, GivenBack, ConnectionsGivenBack
<1> QED
  BY <1>1, <1>2, <1>3, TurnsInvariant, PTL DEF Spec

-----------------------------------------------------------------------------
(***************************************************************************)
(* The limits.                                                             *)
(***************************************************************************)
\* Two disjoint sets of turns that share a limit.
Within(a, b, n) == Cardinality(a) + Cardinality(b) <= n

\* Fewer starts stay within the caps.
LEMMA WithinSmaller ==
  ASSUME NEW a, NEW b, IsFiniteSet(a), IsFiniteSet(b), NEW n \in Nat, Within(a, b, n),
         NEW c \in SUBSET a, NEW d \in SUBSET b
  PROVE  Within(c, d, n)
<1>1. /\ Cardinality(c) <= Cardinality(a) /\ Cardinality(d) <= Cardinality(b)
      /\ IsFiniteSet(c) /\ IsFiniteSet(d)
  BY FS_Subset
<1>2. /\ Cardinality(a) \in Nat /\ Cardinality(b) \in Nat
      /\ Cardinality(c) \in Nat /\ Cardinality(d) \in Nat
  BY <1>1, FS_CardinalityType
<1> QED
  BY <1>1, <1>2 DEF Within

\* A reservation becomes a record.
LEMMA WithinMoved ==
  ASSUME NEW a, NEW b, IsFiniteSet(a), IsFiniteSet(b), NEW n \in Nat, Within(a, b, n),
         NEW q \in b
  PROVE  Within(a \cup {q}, b \ {q}, n)
<1>1. Cardinality(a \cup {q}) <= Cardinality(a) + 1 /\ IsFiniteSet(a \cup {q})
  <2>1. /\ IsFiniteSet(a \cup {q})
        /\ Cardinality(a \cup {q}) = IF q \in a THEN Cardinality(a) ELSE Cardinality(a) + 1
    BY FS_AddElement
  <2>2. Cardinality(a) \in Nat
    BY FS_CardinalityType
  <2> QED
    BY <2>1, <2>2
<1>2. Cardinality(b \ {q}) = Cardinality(b) - 1 /\ IsFiniteSet(b \ {q})
  BY FS_RemoveElement
<1>3. /\ Cardinality(a) \in Nat /\ Cardinality(b) \in Nat
      /\ Cardinality(a \cup {q}) \in Nat /\ Cardinality(b \ {q}) \in Nat
  BY <1>1, <1>2, FS_CardinalityType
<1> QED
  BY <1>1, <1>2, <1>3 DEF Within

\* A reservation below the limit.
LEMMA WithinAdded ==
  ASSUME NEW a, NEW b, IsFiniteSet(a), IsFiniteSet(b), NEW n \in Nat,
         Cardinality(a) + Cardinality(b) < n, NEW q
  PROVE  Within(a, b \cup {q}, n)
<1>1. /\ IsFiniteSet(b \cup {q})
      /\ Cardinality(b \cup {q}) = IF q \in b THEN Cardinality(b) ELSE Cardinality(b) + 1
  BY FS_AddElement
<1>2. Cardinality(a) \in Nat /\ Cardinality(b) \in Nat
  BY FS_CardinalityType
<1> QED
  BY <1>1, <1>2 DEF Within

\* The limits, of any pair of sets.
Capped(a, b) ==
  /\ Within(a, b, maxGlobal)
  /\ \A o \in Owners : Within(OwnedBy(a, o), OwnedBy(b, o), maxPerOwner)

\* The parts of a finite set of turns are finite.
LEMMA OwnedFinite ==
  ASSUME NEW a \in SUBSET Starts, NEW o
  PROVE  OwnedBy(a, o) \subseteq a /\ IsFiniteSet(a) /\ IsFiniteSet(OwnedBy(a, o))
BY RegistryConstants, FS_Subset DEF OwnedBy

\* Fewer turns are within the limits.
LEMMA CappedSmaller ==
  ASSUME NEW a \in SUBSET Starts, NEW b \in SUBSET Starts, Capped(a, b),
         NEW c \in SUBSET a, NEW d \in SUBSET b
  PROVE  Capped(c, d)
<1>1. Within(c, d, maxGlobal)
  BY OwnedFinite, WithinSmaller, RegistryConstants DEF Capped
<1>2. ASSUME NEW o \in Owners PROVE Within(OwnedBy(c, o), OwnedBy(d, o), maxPerOwner)
  <2>1. OwnedBy(c, o) \in SUBSET OwnedBy(a, o) /\ OwnedBy(d, o) \in SUBSET OwnedBy(b, o)
    BY DEF OwnedBy
  <2>2. IsFiniteSet(OwnedBy(a, o)) /\ IsFiniteSet(OwnedBy(b, o))
    BY OwnedFinite
  <2>3. maxPerOwner \in Nat /\ Within(OwnedBy(a, o), OwnedBy(b, o), maxPerOwner)
    BY RegistryConstants DEF Capped
  <2> QED
    BY <2>1, <2>2, <2>3, WithinSmaller
<1> QED
  BY <1>1, <1>2 DEF Capped

\* createRecord() keeps within the limits.
LEMMA CappedMoved ==
  ASSUME NEW a \in SUBSET Starts, NEW b \in SUBSET Starts, Capped(a, b), NEW q \in b
  PROVE  Capped(a \cup {q}, b \ {q})
<1>1. Within(a \cup {q}, b \ {q}, maxGlobal)
  BY OwnedFinite, WithinMoved, RegistryConstants DEF Capped
<1>2. ASSUME NEW o \in Owners
      PROVE  Within(OwnedBy(a \cup {q}, o), OwnedBy(b \ {q}, o), maxPerOwner)
  <2>1. /\ IsFiniteSet(OwnedBy(a, o)) /\ IsFiniteSet(OwnedBy(b, o)) /\ maxPerOwner \in Nat
        /\ Within(OwnedBy(a, o), OwnedBy(b, o), maxPerOwner)
    BY OwnedFinite, RegistryConstants DEF Capped
  <2>2. CASE OwnerOf[q] = o
    <3>1. /\ OwnedBy(a \cup {q}, o) = OwnedBy(a, o) \cup {q}
          /\ OwnedBy(b \ {q}, o) = OwnedBy(b, o) \ {q} /\ q \in OwnedBy(b, o)
      BY <2>2 DEF OwnedBy
    <3>2. Within(OwnedBy(a, o) \cup {q}, OwnedBy(b, o) \ {q}, maxPerOwner)
      BY <2>1, <3>1, WithinMoved
    <3> QED
      BY <3>1, <3>2
  <2>3. CASE OwnerOf[q] # o
    <3>1. OwnedBy(a \cup {q}, o) = OwnedBy(a, o) /\ OwnedBy(b \ {q}, o) = OwnedBy(b, o)
      BY <2>3 DEF OwnedBy
    <3> QED
      BY <2>1, <3>1
  <2> QED
    BY <2>2, <2>3
<1> QED
  BY <1>1, <1>2 DEF Capped

\* reserve() keeps within the limits: those of the owner are tested, and the
\* others' turns do not change.
LEMMA CappedReserved ==
  ASSUME NEW a \in SUBSET Starts, NEW b \in SUBSET Starts, Capped(a, b), NEW q \in Starts,
         Cardinality(a) + Cardinality(b) < maxGlobal,
         Cardinality(OwnedBy(a, OwnerOf[q])) + Cardinality(OwnedBy(b, OwnerOf[q])) < maxPerOwner
  PROVE  Capped(a, b \cup {q})
<1>1. Within(a, b \cup {q}, maxGlobal)
  BY OwnedFinite, WithinAdded, RegistryConstants
<1>2. ASSUME NEW o \in Owners
      PROVE  Within(OwnedBy(a, o), OwnedBy(b \cup {q}, o), maxPerOwner)
  <2>1. /\ IsFiniteSet(OwnedBy(a, o)) /\ IsFiniteSet(OwnedBy(b, o)) /\ maxPerOwner \in Nat
        /\ Within(OwnedBy(a, o), OwnedBy(b, o), maxPerOwner)
    BY OwnedFinite, RegistryConstants DEF Capped
  <2>2. CASE OwnerOf[q] = o
    <3>1. OwnedBy(b \cup {q}, o) = OwnedBy(b, o) \cup {q}
      BY <2>2 DEF OwnedBy
    <3>2. Cardinality(OwnedBy(a, o)) + Cardinality(OwnedBy(b, o)) < maxPerOwner
      BY <2>2
    <3>3. Within(OwnedBy(a, o), OwnedBy(b, o) \cup {q}, maxPerOwner)
      BY <2>1, <3>2, WithinAdded
    <3> QED
      BY <3>1, <3>3
  <2>3. CASE OwnerOf[q] # o
    <3>1. OwnedBy(b \cup {q}, o) = OwnedBy(b, o)
      BY <2>3 DEF OwnedBy
    <3> QED
      BY <2>1, <3>1
  <2> QED
    BY <2>2, <2>3
<1> QED
  BY <1>1, <1>2 DEF Capped

\* What a step may do to the places: give some back, reserve one, or turn one
\* into a record.
PlacesStep ==
  \/ records' \subseteq records /\ reservations' \subseteq reservations
  \/ \E q \in Starts : Reserve(q) \/ CreateRecord(q)

\* A step takes no place, or one that was free.
LEMMA NextPlaces ==
  ASSUME Next
  PROVE  PlacesStep
<1>1. Swept \subseteq records
  BY DEF Swept
<1>2. CASE \E q \in Starts : BeginStateful(q) \/ BeginStateless(q) \/ Starting(q)
  <2>1. PICK q \in Starts : BeginStateful(q) \/ BeginStateless(q) \/ Starting(q)
    BY <1>2
  <2>2. CASE BeginStateful(q) \/ BeginStateless(q)
    BY <1>1, <2>2 DEF BeginStateful, RefuseReservation, BeginStateless, registryVars, PlacesStep
  <2>3. CASE Acquired(q) \/ AcquireFails(q) \/ BridgeBound(q)
    BY <2>3 DEF Acquired, AcquireFails, BridgeBound, Fails, registryVars, PlacesStep
  <2>4. CASE Opened(q)
    BY <2>4 DEF Opened, Fails, registryVars, PlacesStep
  <2>5. CASE OpenFails(q)
    BY <2>5 DEF OpenFails, Fails, registryVars, PlacesStep
  <2> QED
    BY <2>1, <2>2, <2>3, <2>4, <2>5 DEF Starting
<1>3. CASE \E s \in Starts : Continues(s) \/ AgentCalls(s) \/ AgentEnds(s)
  BY <1>3 DEF Continues, PromptRaces, BatchFires, TurnExpires, CloseFinishes, Fails, Collected,
     AgentCalls, AgentEnds, registryVars, PlacesStep
<1>4. CASE Resuming
  BY <1>1, <1>4 DEF Resuming, ResumeChat, ResumeMessages, ResumeResponses, Resumed, PlacesStep
<1>5. CASE \E r \in Resumes : Admitted(r)
  BY <1>5 DEF Admitted, registryVars, PlacesStep
<1>6. CASE \E r \in Requests : ClientLeaves(r)
  BY <1>6 DEF ClientLeaves, registryVars, PlacesStep
<1>7. CASE CloseAll
  BY <1>7 DEF CloseAll, CloseAllTurns, PlacesStep
<1> QED
  BY <1>2, <1>3, <1>4, <1>5, <1>6, <1>7 DEF Next

\* The limits hold with the sets they count.
CapsInv == records \subseteq Starts /\ reservations \subseteq Starts /\ Capped(records, reservations)

\* No place is taken at first.
LEMMA CapsInvInit ==
  ASSUME Init
  PROVE  CapsInv
<1>1. records = {} /\ reservations = {}
  BY DEF Init, InitRegistry
<1>2. Cardinality({}) = 0 /\ \A o \in Owners : OwnedBy({}, o) = {}
  BY FS_EmptySet DEF OwnedBy
<1> QED
  BY <1>1, <1>2, RegistryConstants DEF CapsInv, Capped, Within

\* Every action respects the caps.
LEMMA CapsInvNext ==
  ASSUME CapsInv, [Next]_vars
  PROVE  CapsInv'
<1>1. Swept \subseteq records
  BY DEF Swept
<1>2. CASE records' \subseteq records /\ reservations' \subseteq reservations
  BY <1>2, CappedSmaller DEF CapsInv
<1>3. CASE \E q \in Starts : Reserve(q)
  <2>1. PICK q \in Starts : Reserve(q)
    BY <1>3
  <2>2. Capped(Swept, reservations)
    BY <1>1, CappedSmaller DEF CapsInv
  <2>3. Capped(Swept, reservations \cup {q})
    BY <1>1, <2>1, <2>2, CappedReserved DEF CapsInv, Reserve, BelowLimit
  <2> QED
    BY <1>1, <2>1, <2>3 DEF CapsInv, Reserve
<1>4. CASE \E q \in Starts : CreateRecord(q)
  <2>1. PICK q \in Starts : CreateRecord(q)
    BY <1>4
  <2>2. Capped(Swept, reservations)
    BY <1>1, CappedSmaller DEF CapsInv
  <2>3. Capped(Swept \cup {q}, reservations \ {q})
    BY <1>1, <2>1, <2>2, CappedMoved DEF CapsInv, CreateRecord
  <2> QED
    BY <1>1, <2>1, <2>3 DEF CapsInv, CreateRecord
<1>5. CASE UNCHANGED vars
  BY <1>5, <1>2 DEF vars, registryVars
<1> QED
  BY <1>2, <1>3, <1>4, <1>5, NextPlaces DEF PlacesStep

\* The limits of all turns and of each owner's hold for the turns that are
\* parked and those that are starting together (reserve and createRecord of
\* ToolSessionRegistry).
THEOREM Caps == Spec => []CapsHold
<1>1. Init => CapsInv
  BY CapsInvInit
<1>2. CapsInv /\ [Next]_vars => CapsInv'
  BY CapsInvNext
<1>3. CapsInv => CapsHold
  BY DEF CapsInv, Capped, Within, CapsHold
<1> QED
  BY <1>1, <1>2, <1>3, PTL DEF Spec
=============================================================================

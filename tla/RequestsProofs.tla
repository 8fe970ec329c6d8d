--------------------------- MODULE RequestsProofs ---------------------------
(***************************************************************************)
(* Theorems about Requests, for any number of requests, accounts and       *)
(* repairs, every kind of request and every configuration.                 *)
(***************************************************************************)
EXTENDS Requests, FiniteSetTheorems, TLAPS

Paths == {"none", "pool", "oneshot", "cli"}
Steps == {"none", "setup", "prompt"}
Children == {"none", "alive", "term", "killed", "gone"}
Heads == {"none", "sse", "json"}
Lasts == {"none", "text", "stop", "error", "[DONE]", "message_stop", "response.completed"}
Statuses == {"none", "ok", "busy", "failed", "crashed", "exhausted", "refused"}

Run == [number : Nat, path : Paths, step : Steps, started : BOOLEAN, emitted : BOOLEAN,
        parsed : BOOLEAN, child : Children, tracked : BOOLEAN]

\* A request whose account is in A, whatever the rotation chose.
Request(A) ==
  [kind : Kinds, phase : {"idle", "read", "run", "done"}, account : A, gone : BOOLEAN,
   head : Heads, text : SUBSET Nat, last : Lasts, ended : BOOLEAN, status : Statuses,
   workspace : BOOLEAN, attempt : Nat, run : Run]

\* A request that has not begun.
Untouched(q) ==
  /\ q.run.child = "none" /\ ~q.workspace /\ q.text = {}
  /\ q.head = "none" /\ q.status = "none" /\ ~q.ended

\* A request whose run is in progress, but for its child and its workspace.
InRun(q) ==
  /\ q.phase = "run" /\ q.status = "none" /\ ~q.ended
  /\ q.text \subseteq IF q.kind.stream /\ q.run.emitted THEN {q.run.number} ELSE {}
  /\ q.head \in IF q.kind.stream THEN {"none", "sse"} ELSE {"none"}

\* Its child, and its workspace.
Attended(q) ==
  /\ q.kind.isolated => q.workspace
  /\ q.run.path = "pool" => q.run.child = "none"
  /\ q.gone => q.run.child # "alive"

\* A request that is over.
Closed(acp, q) ==
  /\ q.phase = "done" /\ q.run.child \notin Running
  /\ q.status # "refused" => ~q.workspace
  /\ \E n \in Nat : q.text \subseteq {n}
  /\ acp /\ q.head = "sse" /\ q.ended /\ ~q.gone =>
       q.last \in IF q.kind.api = "messages" THEN {"message_stop", "error"} ELSE {"[DONE]"}

Sound(acp, q) ==
  \/ q.phase \in {"idle", "read"} /\ Untouched(q)
  \/ InRun(q) /\ Attended(q)
  \/ Closed(acp, q)

\* What an operation on a request makes of it: still one, of the same kind and
\* account.
Same(A, q, n) == n \in Request(A) /\ n.kind = q.kind /\ n.account = q.account

-----------------------------------------------------------------------------
(***************************************************************************)
(* The operators of AgentRuns and of the answer, one by one.               *)
(***************************************************************************)
\* Every kind of request has its fields.
LEMMA KindType ==
  ASSUME NEW A, NEW q \in Request(A)
  PROVE  /\ q.kind.stream \in BOOLEAN /\ q.kind.isolated \in BOOLEAN
         /\ q.kind.api \in {"chat", "responses", "messages"}
BY RequestsAssumption DEF Request

\* startStream writes the headers once.
LEMMA StartStreamProps ==
  ASSUME NEW A, NEW q \in Request(A)
  PROVE  LET n == StartStream(q) IN
         /\ Same(A, q, n) /\ n.phase = q.phase /\ n.text = q.text /\ n.run = q.run /\ n.gone = q.gone
         /\ n.status = q.status /\ n.workspace = q.workspace /\ n.last = q.last /\ n.attempt = q.attempt
         /\ n.ended = q.ended
         /\ n.head = IF q.head = "none" THEN "sse" ELSE q.head
BY DEF StartStream, Request, Same, Heads

\* An event is the latest one, after the headers.
LEMMA WriteProps ==
  ASSUME NEW A, NEW q \in Request(A),
         NEW e \in Lasts
  PROVE  LET n == Write(q, e) IN
         /\ Same(A, q, n) /\ n.phase = q.phase /\ n.text = q.text /\ n.run = q.run /\ n.gone = q.gone
         /\ n.status = q.status /\ n.workspace = q.workspace /\ n.last = e /\ n.attempt = q.attempt
         /\ n.ended = q.ended
         /\ n.head = IF q.head = "none" THEN "sse" ELSE q.head
<1> DEFINE m == StartStream(q)
<1>1. /\ m \in Request(A) /\ m.kind = q.kind /\ m.account = q.account
      /\ m.phase = q.phase /\ m.text = q.text /\ m.run = q.run /\ m.gone = q.gone
      /\ m.status = q.status /\ m.workspace = q.workspace /\ m.last = q.last /\ m.attempt = q.attempt
      /\ m.ended = q.ended
      /\ m.head = IF q.head = "none" THEN "sse" ELSE q.head
  BY StartStreamProps DEF Same
<1>2. Write(q, e) = [m EXCEPT !.last = e]
  BY DEF Write
<1> HIDE DEF m
<1> QED
  BY <1>1, <1>2 DEF Request, Same

\* response.end().
LEMMA EndProps ==
  ASSUME NEW A, NEW q \in Request(A)
  PROVE  LET n == End(q) IN
         /\ Same(A, q, n) /\ n.phase = "done" /\ n.text = q.text /\ n.run = q.run /\ n.gone = q.gone
         /\ n.status = q.status /\ n.workspace = q.workspace /\ n.last = q.last /\ n.ended = TRUE
         /\ n.head = q.head /\ n.attempt = q.attempt
BY DEF End, Request, Same

\* A handler that returns without an answer.
LEMMA OverProps ==
  ASSUME NEW A, NEW q \in Request(A)
  PROVE  LET n == Over(q) IN
         /\ Same(A, q, n) /\ n.phase = "done" /\ n.text = q.text /\ n.run = q.run /\ n.gone = q.gone
         /\ n.status = q.status /\ n.workspace = q.workspace /\ n.last = q.last /\ n.ended = q.ended
         /\ n.head = q.head /\ n.attempt = q.attempt
BY DEF Over, Request, Same

\* One JSON body, with its status.
LEMMA JsonProps ==
  ASSUME NEW A, NEW q \in Request(A),
         NEW st \in Statuses
  PROVE  LET n == Json(q, st) IN
         /\ Same(A, q, n) /\ n.phase = "done" /\ n.text = q.text /\ n.run = q.run /\ n.gone = q.gone
         /\ n.status = st /\ n.workspace = q.workspace /\ n.last = q.last
         /\ n.head = IF q.head = "none" THEN "json" ELSE q.head
<1> DEFINE m == End(q)
<1>1. /\ m \in Request(A) /\ m.kind = q.kind /\ m.account = q.account
      /\ m.phase = "done" /\ m.text = q.text /\ m.run = q.run /\ m.gone = q.gone
      /\ m.workspace = q.workspace /\ m.last = q.last /\ m.head = q.head
  BY EndProps DEF Same
<1> DEFINE h == IF m.head = "none" THEN "json" ELSE m.head
<1>2. Json(q, st) = [m EXCEPT !.head = h, !.status = st]
  BY DEF Json
<1>3. h \in Heads /\ h = IF q.head = "none" THEN "json" ELSE q.head
  BY <1>1 DEF Request, Heads
<1> HIDE DEF m, h
<1>4. [m EXCEPT !.head = h, !.status = st] \in Request(A)
  BY <1>1, <1>3 DEF Request
<1> QED
  BY <1>1, <1>2, <1>3, <1>4 DEF Request, Same

\* A run with a process of its own.
LEMMA SpawnProps ==
  ASSUME NEW A, NEW q \in Request(A), NEW path \in {"oneshot", "cli"}, q.text = {},
         InRun(q), q.kind.isolated => q.workspace
  PROVE  LET n == Spawn(q, path) IN Same(A, q, n) /\ InRun(n) /\ Attended(n)
<1> DEFINE u == [NoRun EXCEPT !.number = q.run.number + 1, !.path = path, !.step = "setup",
                              !.started = TRUE, !.tracked = TRUE,
                              !.child = IF q.gone THEN "term" ELSE "alive"]
           m == [q EXCEPT !.run = u]
<1>1. u \in Run /\ u.path = path /\ u.child = IF q.gone THEN "term" ELSE "alive"
  <2> DEFINE c == IF q.gone THEN "term" ELSE "alive"
             k == q.run.number + 1
  <2>1. k \in Nat /\ c \in Children /\ path \in Paths /\ "setup" \in Steps
    BY DEF Request, Run, Children, Paths, Steps
  <2> HIDE DEF c, k
  <2>2. NoRun = [number |-> 0, path |-> "none", step |-> "none", started |-> FALSE, emitted |-> FALSE,
                 parsed |-> FALSE, child |-> "none", tracked |-> FALSE]
    BY DEF NoRun
  <2>3. NoRun \in Run
    BY <2>2 DEF Run, Paths, Steps, Children
  <2>4. u = [NoRun EXCEPT !.number = k, !.path = path, !.step = "setup", !.started = TRUE,
                          !.tracked = TRUE, !.child = c]
    BY DEF c, k
  <2>5. u \in Run /\ u.path = path /\ u.child = c
    BY <2>1, <2>3, <2>4 DEF Run
  <2> QED
    BY <2>5 DEF c
<1> HIDE DEF u
<1>2. /\ m \in Request(A) /\ m.kind = q.kind /\ m.account = q.account
      /\ m.ended = q.ended /\ m.phase = "run" /\ m.text = {}
      /\ m.run = u /\ m.gone = q.gone /\ m.status = "none"
      /\ m.workspace = q.workspace /\ m.head = q.head
  BY <1>1 DEF Request, InRun
<1>3. Spawn(q, path) = OnStarted(m)
  BY DEF Spawn, u
<1> HIDE DEF m
<1>4. q.head \in IF q.kind.stream THEN {"none", "sse"} ELSE {"none"}
  BY DEF InRun
<1>5. CASE q.kind.stream
  <2> DEFINE n == StartStream(m)
  <2>1. /\ n \in Request(A) /\ n.kind = q.kind /\ n.account = q.account
        /\ n.ended = q.ended /\ n.phase = "run" /\ n.text = {}
        /\ n.run = u /\ n.gone = q.gone /\ n.status = "none"
        /\ n.workspace = q.workspace /\ n.head = IF m.head = "none" THEN "sse" ELSE m.head
    BY <1>2, StartStreamProps DEF Same
  <2>2. Spawn(q, path) = n
    BY <1>2, <1>3, <1>5 DEF OnStarted
  <2> HIDE DEF n
  <2> QED
    BY <1>1, <1>2, <1>4, <1>5, <2>1, <2>2 DEF Same, InRun, Attended
<1>6. CASE ~q.kind.stream
  <2>1. Spawn(q, path) = m
    BY <1>2, <1>3, <1>6 DEF OnStarted
  <2> QED
    BY <1>1, <1>2, <1>4, <1>6, <2>1 DEF Same, InRun, Attended
<1> QED
  BY <1>5, <1>6

\* A call of the pool.
LEMMA EnterPoolProps ==
  ASSUME NEW A, NEW q \in Request(A), q.text = {}, InRun(q), q.kind.isolated => q.workspace
  PROVE  LET n == EnterPool(q) IN Same(A, q, n) /\ InRun(n) /\ Attended(n)
<1> DEFINE u == [NoRun EXCEPT !.number = q.run.number + 1, !.path = "pool"]
<1>1. u \in Run /\ u.child = "none"
  <2> DEFINE k == q.run.number + 1
  <2>1. k \in Nat /\ "none" \in Children /\ "pool" \in Paths /\ "none" \in Steps
    BY DEF Request, Run, Children, Paths, Steps
  <2> HIDE DEF k
  <2>2. NoRun = [number |-> 0, path |-> "none", step |-> "none", started |-> FALSE, emitted |-> FALSE,
                 parsed |-> FALSE, child |-> "none", tracked |-> FALSE]
    BY DEF NoRun
  <2>3. NoRun \in Run /\ NoRun.child = "none"
    BY <2>2 DEF Run, Paths, Steps, Children
  <2>4. u = [NoRun EXCEPT !.number = k, !.path = "pool"]
    BY DEF k
  <2> QED
    BY <2>1, <2>3, <2>4 DEF Run
<1>2. EnterPool(q) = [q EXCEPT !.run = u]
  BY DEF EnterPool
<1> HIDE DEF u
<1> QED
  BY <1>1, <1>2 DEF Request, Same, InRun, Attended

\* A run, on whatever path.
LEMMA StartRunProps ==
  ASSUME NEW A, NEW q \in Request(A), NEW cfg, q.text = {}, InRun(q), q.kind.isolated => q.workspace
  PROVE  LET n == StartRun(cfg, q) IN Same(A, q, n) /\ InRun(n) /\ Attended(n)
<1>1. PathOf(cfg, q) \in {"oneshot", "cli", "pool"}
  BY DEF PathOf
<1> QED
  BY <1>1, SpawnProps, EnterPoolProps DEF StartRun

\* The events of a run.
LEMMA AcquireProps ==
  ASSUME NEW A, NEW q \in Request(A), InRun(q), Attended(q)
  PROVE  LET n == Acquire(q) IN Same(A, q, n) /\ InRun(n) /\ Attended(n)
<1> DEFINE m == [q EXCEPT !.run.started = TRUE]
<1>1. /\ m \in Request(A) /\ m.kind = q.kind /\ m.account = q.account
      /\ m.ended = q.ended /\ m.phase = "run" /\ m.text = q.text /\ m.gone = q.gone /\ m.status = "none"
      /\ m.workspace = q.workspace /\ m.head = q.head
      /\ m.run.child = q.run.child /\ m.run.path = q.run.path /\ m.run.emitted = q.run.emitted
      /\ m.run.number = q.run.number
  BY DEF Request, Run, InRun
<1>2. Acquire(q) = OnStarted(m)
  BY DEF Acquire
<1> HIDE DEF m
<1>3. CASE q.kind.stream
  <2> DEFINE n == StartStream(m)
  <2>1. /\ n \in Request(A) /\ n.kind = q.kind /\ n.account = q.account
        /\ n.ended = q.ended /\ n.phase = "run" /\ n.text = q.text
        /\ n.run = m.run /\ n.gone = q.gone /\ n.status = "none"
        /\ n.workspace = q.workspace /\ n.head = IF m.head = "none" THEN "sse" ELSE m.head
    BY <1>1, StartStreamProps DEF Same
  <2>2. Acquire(q) = n
    BY <1>1, <1>2, <1>3 DEF OnStarted
  <2> HIDE DEF n
  <2> QED
    BY <1>1, <1>3, <2>1, <2>2 DEF Same, InRun, Attended
<1>4. CASE ~q.kind.stream
  <2>1. Acquire(q) = m
    BY <1>1, <1>2, <1>4 DEF OnStarted
  <2> QED
    BY <1>1, <1>4, <2>1 DEF Same, InRun, Attended
<1> QED
  BY <1>3, <1>4

\* Text of the agent: a stream then shows text of this run only.
LEMMA EmitProps ==
  ASSUME NEW A, NEW q \in Request(A), InRun(q), Attended(q)
  PROVE  LET n == Emit(q) IN Same(A, q, n) /\ InRun(n) /\ Attended(n)
<1> DEFINE m == [q EXCEPT !.run.emitted = TRUE]
<1>1. /\ m \in Request(A) /\ m.kind = q.kind /\ m.account = q.account
      /\ m.ended = q.ended /\ m.phase = "run" /\ m.text = q.text /\ m.gone = q.gone /\ m.status = "none"
      /\ m.workspace = q.workspace /\ m.head = q.head
      /\ m.run.child = q.run.child /\ m.run.path = q.run.path /\ m.run.emitted = TRUE
      /\ m.run.number = q.run.number
  BY DEF Request, Run, InRun
<1>2. Emit(q) = IF q.kind.stream THEN [Write(m, "text") EXCEPT !.text = @ \cup {q.run.number}] ELSE m
  BY DEF Emit
<1> HIDE DEF m
<1>3. CASE q.kind.stream
  <2>0. "text" \in Lasts
    BY DEF Lasts
  <2> DEFINE n == Write(m, "text")
             k == [n EXCEPT !.text = @ \cup {q.run.number}]
  <2>1. /\ n \in Request(A) /\ n.kind = q.kind /\ n.account = q.account
        /\ n.ended = q.ended /\ n.phase = "run" /\ n.text = q.text
        /\ n.run = m.run /\ n.gone = q.gone /\ n.status = "none"
        /\ n.workspace = q.workspace /\ n.head = IF m.head = "none" THEN "sse" ELSE m.head
    BY <1>1, <2>0, WriteProps DEF Same
  <2> HIDE DEF n
  <2>2. q.run.number \in Nat
    BY DEF Request, Run
  <2>3. /\ k \in Request(A) /\ k.kind = q.kind /\ k.account = q.account
        /\ k.ended = q.ended /\ k.phase = "run"
        /\ k.text = q.text \cup {q.run.number} /\ k.run = m.run /\ k.gone = q.gone
        /\ k.status = "none" /\ k.workspace = q.workspace /\ k.head = n.head
    BY <2>1, <2>2 DEF Request
  <2>4. Emit(q) = k
    BY <1>2, <1>3 DEF n
  <2> HIDE DEF k
  <2> QED
    BY <1>1, <1>3, <2>1, <2>3, <2>4 DEF Same, InRun, Attended
<1>4. CASE ~q.kind.stream
  <2>1. Emit(q) = m
    BY <1>2, <1>4
  <2> QED
    BY <1>1, <1>4, <2>1 DEF Same, InRun, Attended
<1> QED
  BY <1>3, <1>4

\* The line of the CLI that announces its result.
LEMMA ParseResultProps ==
  ASSUME NEW A, NEW q \in Request(A), NEW cfg, InRun(q), Attended(q), q.kind.stream
  PROVE  LET n == ParseResult(cfg, q) IN Same(A, q, n) /\ InRun(n) /\ Attended(n)
<1> DEFINE m == [q EXCEPT !.run.parsed = TRUE]
           e == IF q.kind.api = "messages" THEN "message_stop" ELSE "[DONE]"
           n == Write(m, e)
<1>1. /\ m \in Request(A) /\ m.kind = q.kind /\ m.account = q.account
      /\ m.ended = q.ended /\ m.phase = "run" /\ m.text = q.text /\ m.gone = q.gone /\ m.status = "none"
      /\ m.workspace = q.workspace /\ m.head = q.head
      /\ m.run.child = q.run.child /\ m.run.path = q.run.path /\ m.run.emitted = q.run.emitted
      /\ m.run.number = q.run.number
  BY DEF Request, Run, InRun
<1>2. ParseResult(cfg, q) = IF cfg.acp THEN m ELSE n
  BY DEF ParseResult
<1>3. e \in Lasts
  BY DEF Lasts
<1> HIDE DEF m, e
<1>4. /\ n \in Request(A) /\ n.kind = q.kind /\ n.account = q.account
      /\ n.ended = q.ended /\ n.phase = "run" /\ n.text = q.text
      /\ n.run = m.run /\ n.gone = q.gone /\ n.status = "none"
      /\ n.workspace = q.workspace /\ n.head = IF m.head = "none" THEN "sse" ELSE m.head
  BY <1>1, <1>3, WriteProps DEF Same
<1> HIDE DEF n
<1>5. Same(A, q, m) /\ InRun(m) /\ Attended(m)
  BY <1>1 DEF Same, InRun, Attended
<1>6. Same(A, q, n) /\ InRun(n) /\ Attended(n)
  BY <1>1, <1>4 DEF Same, InRun, Attended
<1> QED
  BY <1>2, <1>5, <1>6

-----------------------------------------------------------------------------
(***************************************************************************)
(* What the handlers make of a run that has settled.                       *)
(***************************************************************************)
\* A run has settled: its child is not running and its workspace is removed.
Ended(q) == InRun(q) /\ q.run.child \notin Running /\ ~q.workspace

\* The answer to it: the request is over, or has another run.
Answered(A, acp, q, n) ==
  Same(A, q, n) /\ (Closed(acp, n) \/ (InRun(n) /\ Attended(n)))

\* What a request is over with, when nothing is added to its text.
LEMMA Closes ==
  ASSUME NEW A, NEW acp, NEW q \in Request(A), Ended(q), NEW n, Same(A, q, n),
         n.phase = "done", n.text = q.text, n.run = q.run, n.workspace = q.workspace,
         acp /\ n.head = "sse" /\ n.ended /\ ~n.gone =>
           n.last \in IF q.kind.api = "messages" THEN {"message_stop", "error"} ELSE {"[DONE]"}
  PROVE  Answered(A, acp, q, n)
<1>1. q.run.number \in Nat
  BY DEF Request, Run
<1>2. q.text \subseteq {q.run.number}
  BY DEF Ended, InRun
<1> QED
  BY <1>1, <1>2 DEF Answered, Closed, Same, Ended

\* One JSON body.
LEMMA JsonCloses ==
  ASSUME NEW A, NEW acp, NEW q \in Request(A), Ended(q), q.head = "none", NEW st \in Statuses
  PROVE  Answered(A, acp, q, Json(q, st))
<1> DEFINE n == Json(q, st)
<1>1. /\ Same(A, q, n) /\ n.phase = "done" /\ n.text = q.text /\ n.run = q.run
      /\ n.workspace = q.workspace /\ n.head = "json"
  BY JsonProps
<1> HIDE DEF n
<1>2. Answered(A, acp, q, n)
  BY <1>1, Closes
<1> QED
  BY <1>2 DEF n

\* The end of a request that has no answer.
LEMMA OverCloses ==
  ASSUME NEW A, NEW acp, NEW q \in Request(A), Ended(q), q.head = "none" \/ q.gone
  PROVE  Answered(A, acp, q, Over(q))
<1> DEFINE n == Over(q)
<1>1. /\ Same(A, q, n) /\ n.phase = "done" /\ n.text = q.text /\ n.run = q.run
      /\ n.workspace = q.workspace /\ n.head = q.head /\ n.gone = q.gone
  BY OverProps
<1> HIDE DEF n
<1>2. Answered(A, acp, q, n)
  BY <1>1, Closes
<1> QED
  BY <1>2 DEF n

\* The end of a stream that nobody reads, or that the CLI's lines have ended.
LEMMA SilenceCloses ==
  ASSUME NEW A, NEW acp, NEW q \in Request(A), Ended(q), ~acp \/ q.gone
  PROVE  Answered(A, acp, q, End(q))
<1> DEFINE n == End(q)
<1>1. /\ Same(A, q, n) /\ n.phase = "done" /\ n.text = q.text /\ n.run = q.run
      /\ n.workspace = q.workspace /\ n.head = q.head /\ n.gone = q.gone
  BY EndProps
<1> HIDE DEF n
<1>2. Answered(A, acp, q, n)
  BY <1>1, Closes
<1> QED
  BY <1>2 DEF n

\* Events before the last one.
LEMMA WriteEnded ==
  ASSUME NEW A, NEW q \in Request(A), Ended(q), q.kind.stream, NEW e \in Lasts
  PROVE  LET n == Write(q, e) IN Same(A, q, n) /\ Ended(n) /\ n.gone = q.gone
<1> DEFINE n == Write(q, e)
<1>1. /\ Same(A, q, n) /\ n.ended = q.ended /\ n.phase = q.phase
      /\ n.text = q.text /\ n.run = q.run /\ n.gone = q.gone
      /\ n.status = q.status /\ n.workspace = q.workspace
      /\ n.head = IF q.head = "none" THEN "sse" ELSE q.head
  BY WriteProps
<1> HIDE DEF n
<1>2. Same(A, q, n) /\ Ended(n) /\ n.gone = q.gone
  BY <1>1 DEF Same, Ended, InRun
<1> QED
  BY <1>2 DEF n

\* The last event of a stream.
LEMMA LastCloses ==
  ASSUME NEW A, NEW acp, NEW q \in Request(A), Ended(q),
         NEW e \in IF q.kind.api = "messages" THEN {"message_stop", "error"} ELSE {"[DONE]"}
  PROVE  Answered(A, acp, q, End(Write(q, e)))
<1> DEFINE m == Write(q, e)
           n == End(m)
<1>1. e \in Lasts
  BY DEF Lasts
<1>2. /\ m \in Request(A) /\ m.kind = q.kind /\ m.account = q.account
      /\ m.text = q.text /\ m.run = q.run /\ m.workspace = q.workspace /\ m.last = e
  BY <1>1, WriteProps DEF Same
<1> HIDE DEF m
<1>3. /\ n \in Request(A) /\ n.kind = q.kind /\ n.account = q.account /\ n.phase = "done"
      /\ n.text = q.text /\ n.run = q.run /\ n.workspace = q.workspace /\ n.last = e
  BY <1>2, EndProps DEF Same
<1> HIDE DEF n
<1>4. Answered(A, acp, q, n)
  BY <1>3, Closes DEF Same
<1> QED
  BY <1>4 DEF n, m

\* Two of them.
LEMMA LastTwoClose ==
  ASSUME NEW A, NEW acp, NEW q \in Request(A), Ended(q), q.kind.stream, NEW d \in Lasts,
         NEW e \in IF q.kind.api = "messages" THEN {"message_stop", "error"} ELSE {"[DONE]"}
  PROVE  Answered(A, acp, q, End(Write(Write(q, d), e)))
<1> DEFINE m == Write(q, d)
<1>1. Same(A, q, m) /\ Ended(m)
  BY WriteEnded
<1> HIDE DEF m
<1>2. Answered(A, acp, m, End(Write(m, e)))
  BY <1>1, LastCloses DEF Same
<1> QED
  BY <1>1, <1>2 DEF Answered, Same, m

\* The answer of a stream.
LEMMA StreamAnswers ==
  ASSUME NEW A, NEW q \in Request(A), Ended(q), q.kind.stream, NEW o \in {"ok", "failed", "queue", "threw"}
  PROVE  Answered(A, config.acp, q, StreamAnswer(q, o))
<1> DEFINE acp == config.acp
<1>1. /\ "stop" \in Lasts /\ "error" \in Lasts /\ "response.completed" \in Lasts
      /\ "busy" \in Statuses
  BY DEF Lasts, Statuses
<1>2. q.kind.api \in {"chat", "responses", "messages"}
  BY KindType
<1>3. CASE ~acp
  <2>1. Answered(A, acp, q, End(q))
    BY <1>3, SilenceCloses
  <2>2. Answered(A, acp, q, End(StartStream(q)))
    <3> DEFINE m == StartStream(q)
    <3>1. /\ Same(A, q, m) /\ Ended(m)
      <4>1. /\ Same(A, q, m) /\ m.ended = q.ended /\ m.phase = q.phase /\ m.text = q.text /\ m.run = q.run
            /\ m.status = q.status /\ m.workspace = q.workspace
            /\ m.head = IF q.head = "none" THEN "sse" ELSE q.head
        BY StartStreamProps
      <4> HIDE DEF m
      <4> QED
        BY <4>1 DEF Same, Ended, InRun
    <3> HIDE DEF m
    <3>2. Answered(A, acp, m, End(m))
      BY <1>3, <3>1, SilenceCloses DEF Same
    <3> QED
      BY <3>1, <3>2 DEF Answered, Same, m
  <2> QED
    BY <1>3, <2>1, <2>2 DEF StreamAnswer, CliStream
<1>4. ASSUME NEW e \in {"error", "[DONE]"}, e = "error" <=> q.kind.api = "messages"
      PROVE  Answered(A, acp, q, Thrown(q, o, e))
  <2>1. CASE q.gone
    <3>1. Answered(A, acp, q, End(q))
      BY <2>1, SilenceCloses
    <3> QED
      BY <2>1, <3>1 DEF Thrown
  <2>2. CASE ~q.gone /\ o = "queue" /\ q.head = "none"
    <3>1. Answered(A, acp, q, Json(q, "busy"))
      BY <1>1, <2>2, JsonCloses
    <3> QED
      BY <2>2, <3>1 DEF Thrown
  <2>3. CASE ~q.gone /\ ~(o = "queue" /\ q.head = "none")
    <3>1. e \in IF q.kind.api = "messages" THEN {"message_stop", "error"} ELSE {"[DONE]"}
      BY <1>4
    <3>2. Answered(A, acp, q, End(Write(q, e)))
      BY <3>1, LastCloses
    <3> QED
      BY <2>3, <3>2 DEF Thrown, Report
  <2> QED
    BY <2>1, <2>2, <2>3
<1>5. ASSUME NEW d \in {"error", "stop", "response.completed"}, q.kind.api # "messages"
      PROVE  Answered(A, acp, q, End(Write(Write(q, d), "[DONE]")))
  BY <1>1, <1>5, LastTwoClose
<1>6. CASE acp /\ q.kind.api = "chat"
  <2>1. /\ Answered(A, acp, q, Thrown(q, o, "[DONE]"))
        /\ Answered(A, acp, q, End(Write(Write(q, "error"), "[DONE]")))
        /\ Answered(A, acp, q, End(Write(Write(q, "stop"), "[DONE]")))
    BY <1>4, <1>5, <1>6
  <2> QED
    BY <1>6, <2>1 DEF StreamAnswer, ChatStream
<1>7. CASE acp /\ q.kind.api = "responses"
  <2>1. /\ Answered(A, acp, q, Thrown(q, o, "[DONE]"))
        /\ Answered(A, acp, q, End(Write(Write(q, "error"), "[DONE]")))
        /\ Answered(A, acp, q, End(Write(Write(q, "response.completed"), "[DONE]")))
    BY <1>4, <1>5, <1>7
  <2> QED
    BY <1>7, <2>1 DEF StreamAnswer, ResponsesStream
<1>8. CASE acp /\ q.kind.api = "messages"
  <2>1. Answered(A, acp, q, Thrown(q, o, "error"))
    BY <1>4, <1>8
  <2>2. q.gone => Answered(A, acp, q, End(q))
    BY SilenceCloses
  <2>3. ASSUME NEW e \in {"message_stop", "error"}
        PROVE  Answered(A, acp, q, End(Write(q, e)))
    BY <1>8, LastCloses
  <2> QED
    BY <1>8, <2>1, <2>2, <2>3 DEF StreamAnswer, MessagesStream
<1> QED
  BY <1>2, <1>3, <1>6, <1>7, <1>8

\* The answer that is one body, with the repairs before it.
LEMMA SyncAnswers ==
  ASSUME NEW A, NEW q \in Request(A), Ended(q), ~q.kind.stream,
         NEW o \in {"ok", "failed", "queue", "threw"},
         NEW usable \in BOOLEAN, NEW workspaceFails \in BOOLEAN
  PROVE  Answered(A, config.acp, q, SyncAnswer(q, o, usable, workspaceFails))
<1> DEFINE acp == config.acp
<1>1. q.head = "none" /\ q.text = {} /\ q.run.number \in Nat
  BY DEF Ended, InRun, Request, Run
<1>2. ASSUME NEW st \in {"busy", "failed", "crashed", "exhausted"}
      PROVE  Answered(A, acp, q, Json(q, st))
  <2>1. st \in Statuses
    BY DEF Statuses
  <2> QED
    BY <1>1, <2>1, JsonCloses
<1>3. Answered(A, acp, q, Over(q))
  BY <1>1, OverCloses
<1>4. Answered(A, acp, q, Usable(q))
  <2> DEFINE m == Json(q, "ok")
             t == IF q.run.emitted THEN {q.run.number} ELSE {}
             n == [m EXCEPT !.text = @ \cup t]
  <2>0. "ok" \in Statuses
    BY DEF Statuses
  <2>1. /\ m \in Request(A) /\ m.kind = q.kind /\ m.account = q.account /\ m.phase = "done"
        /\ m.text = {} /\ m.run = q.run /\ m.workspace = q.workspace /\ m.head = "json"
    BY <1>1, <2>0, JsonProps DEF Same
  <2>2. t \subseteq {q.run.number} /\ t \in SUBSET Nat
    BY <1>1
  <2>3. Usable(q) = n
    BY DEF Usable
  <2> HIDE DEF m, t
  <2>4. /\ n \in Request(A) /\ n.kind = q.kind /\ n.account = q.account /\ n.phase = "done"
        /\ n.text = t /\ n.run = q.run /\ n.workspace = q.workspace /\ n.head = "json"
    BY <2>1, <2>2 DEF Request
  <2> HIDE DEF n
  <2> QED
    BY <1>1, <2>2, <2>3, <2>4 DEF Answered, Same, Closed, Ended
<1>5. Answered(A, acp, q, Repair(q, workspaceFails))
  <2> DEFINE k == q.attempt + 1
             b == q.kind.isolated
             m == [q EXCEPT !.attempt = k, !.workspace = b]
  <2>0. k \in Nat /\ b \in BOOLEAN
    BY KindType DEF Request
  <2> HIDE DEF k, b
  <2>a. /\ m \in Request(A) /\ m.kind = q.kind
        /\ m.account = q.account /\ m.ended = q.ended /\ m.phase = q.phase
        /\ m.text = q.text /\ m.status = q.status /\ m.head = q.head /\ m.workspace = b
    BY <2>0 DEF Request
  <2>b. q.phase = "run" /\ q.status = "none" /\ ~q.ended
    BY DEF Ended, InRun
  <2>1. /\ m \in Request(A) /\ m.kind = q.kind /\ m.account = q.account /\ ~m.ended /\ m.phase = "run"
        /\ m.text = {} /\ m.status = "none" /\ m.head = "none" /\ m.workspace = q.kind.isolated
    BY <1>1, <2>a, <2>b DEF b
  <2>2. Repair(q, workspaceFails) \in {Json(q, "exhausted"), Over(q), StartRun(config, m)}
    BY DEF Repair, k, b
  <2> HIDE DEF m
  <2>3. InRun(m) /\ (m.kind.isolated => m.workspace)
    BY <2>1 DEF InRun
  <2>4. LET n == StartRun(config, m) IN Same(A, m, n) /\ InRun(n) /\ Attended(n)
    BY <2>1, <2>3, StartRunProps
  <2>5. Answered(A, acp, q, StartRun(config, m))
    BY <2>1, <2>4 DEF Answered, Same
  <2> QED
    BY <1>2, <1>3, <2>2, <2>5
<1> QED
  BY <1>2, <1>3, <1>4, <1>5 DEF SyncAnswer, RepairAnswer

\* cleanupRun, and then the answer.
Answer(q, o, usable, workspaceFails) ==
  LET c == CleanupRun(q, o)
  IN  IF q.kind.stream THEN StreamAnswer(c, o) ELSE SyncAnswer(c, o, usable, workspaceFails)

\* Whatever a run ends with, its request is over or has another run.
LEMMA RunAnswers ==
  ASSUME NEW A, NEW q \in Request(A), InRun(q), q.run.child \notin Running,
         NEW o \in {"ok", "failed", "queue", "threw"},
         NEW usable \in BOOLEAN, NEW workspaceFails \in BOOLEAN
  PROVE  Answered(A, config.acp, q, Answer(q, o, usable, workspaceFails))
<1> DEFINE c == CleanupRun(q, o)
<1>1. /\ c \in Request(A) /\ c.kind = q.kind /\ c.account = q.account /\ c.run = q.run
      /\ c.ended = q.ended /\ c.phase = q.phase /\ c.text = q.text /\ c.status = q.status /\ c.head = q.head
      /\ c.workspace = FALSE
  BY DEF CleanupRun, Request
<1>2. Answer(q, o, usable, workspaceFails) =
        IF q.kind.stream THEN StreamAnswer(c, o) ELSE SyncAnswer(c, o, usable, workspaceFails)
  BY DEF Answer
<1> HIDE DEF c
<1>3. Ended(c)
  BY <1>1 DEF Ended, InRun
<1>4. CASE q.kind.stream
  <2>1. Answered(A, config.acp, c, StreamAnswer(c, o))
    BY <1>1, <1>3, <1>4, StreamAnswers
  <2> QED
    BY <1>1, <1>2, <1>4, <2>1 DEF Answered, Same
<1>5. CASE ~q.kind.stream
  <2>1. Answered(A, config.acp, c, SyncAnswer(c, o, usable, workspaceFails))
    BY <1>1, <1>3, <1>5, SyncAnswers
  <2> QED
    BY <1>1, <1>2, <1>5, <2>1 DEF Answered, Same
<1> QED
  BY <1>4, <1>5

-----------------------------------------------------------------------------
(***************************************************************************)
(* The steps of one request in its run that are no end of the run.         *)
(***************************************************************************)
\* The request is still in its run, as it should be.
Kept(A, q, n) == Same(A, q, n) /\ InRun(n) /\ Attended(n)

\* The CLI run that follows a pooled one has no text before it.
LEMMA FallBackProps ==
  ASSUME NEW A, NEW q \in Request(A), InRun(q), Attended(q), NEW e, FallsBack(q, e)
  PROVE  Kept(A, q, CompatibilityRun(q))
<1>1. q.text = {} /\ (q.kind.isolated => q.workspace)
  BY DEF FallsBack, InRun, Attended
<1> QED
  BY <1>1, SpawnProps DEF CompatibilityRun, Kept

\* The prompt of a one-shot process is sent.
LEMMA PromptProps ==
  ASSUME NEW A, NEW q \in Request(A), InRun(q), Attended(q)
  PROVE  Kept(A, q, [q EXCEPT !.run.step = "prompt"])
<1> DEFINE n == [q EXCEPT !.run.step = "prompt"]
<1>0. "prompt" \in Steps
  BY DEF Steps
<1>1. /\ n \in Request(A) /\ n.kind = q.kind /\ n.account = q.account
      /\ n.ended = q.ended /\ n.phase = q.phase /\ n.text = q.text /\ n.status = q.status /\ n.head = q.head
      /\ n.workspace = q.workspace /\ n.gone = q.gone
      /\ n.run.number = q.run.number /\ n.run.emitted = q.run.emitted
      /\ n.run.child = q.run.child /\ n.run.path = q.run.path
  BY <1>0 DEF Request, Run
<1> HIDE DEF n
<1>2. Kept(A, q, n)
  BY <1>1 DEF Kept, Same, InRun, Attended
<1> QED
  BY <1>2 DEF n

\* The child of a run in another state.
WithChild(q, c) == [q EXCEPT !.run.child = c]

\* The child of a run is killed, or gone: the run is not over by that.
LEMMA ChildProps ==
  ASSUME NEW A, NEW q \in Request(A), InRun(q), NEW c \in {"killed", "gone"}
  PROVE  /\ Same(A, q, WithChild(q, c)) /\ InRun(WithChild(q, c))
         /\ WithChild(q, c).run.child = c /\ WithChild(q, c).run.path = q.run.path
         /\ WithChild(q, c).workspace = q.workspace /\ WithChild(q, c).gone = q.gone
<1> DEFINE n == WithChild(q, c)
<1>0. c \in Children
  BY DEF Children
<1>1. /\ n \in Request(A) /\ n.kind = q.kind /\ n.account = q.account
      /\ n.ended = q.ended /\ n.phase = q.phase /\ n.text = q.text /\ n.status = q.status /\ n.head = q.head
      /\ n.workspace = q.workspace /\ n.gone = q.gone
      /\ n.run.number = q.run.number /\ n.run.emitted = q.run.emitted
      /\ n.run.child = c /\ n.run.path = q.run.path
  BY <1>0 DEF Request, Run, WithChild
<1> HIDE DEF n
<1>2. /\ Same(A, q, n) /\ InRun(n) /\ n.run.child = c /\ n.run.path = q.run.path
      /\ n.workspace = q.workspace /\ n.gone = q.gone
  BY <1>1 DEF Same, InRun
<1> QED
  BY <1>2 DEF n

\* The child is told to stop, by the client that leaves or by the shutdown: the
\* request is as sound as before.
LEMMA ToldProps ==
  ASSUME NEW A, NEW acp, NEW q \in Request(A), Sound(acp, q),
         NEW n \in Request(A), n.kind = q.kind, n.phase = q.phase, n.text = q.text,
         n.status = q.status, n.head = q.head, n.workspace = q.workspace, n.last = q.last,
         n.ended = q.ended, q.gone => n.gone, n.gone => n.run.child # "alive",
         n.run.number = q.run.number, n.run.emitted = q.run.emitted, n.run.path = q.run.path,
         n.run.child = q.run.child \/ (q.run.child = "alive" /\ n.run.child = "term")
  PROVE  Sound(acp, n)
<1>1. CASE q.phase \in {"idle", "read"} /\ Untouched(q)
  BY <1>1 DEF Sound, Untouched
<1>2. CASE InRun(q) /\ Attended(q)
  <2>1. InRun(n)
    BY <1>2 DEF InRun
  <2>2. Attended(n)
    BY <1>2 DEF Attended
  <2> QED
    BY <2>1, <2>2 DEF Sound
<1>3. CASE Closed(acp, q)
  <2>1. n.run.child \notin Running
    BY <1>3 DEF Closed, Running
  <2> QED
    BY <1>3, <2>1 DEF Closed, Sound
<1> QED
  BY <1>1, <1>2, <1>3 DEF Sound

\* abortOnClientDisconnect.
LEMMA AbortProps ==
  ASSUME NEW A, NEW acp, NEW q \in Request(A), Sound(acp, q)
  PROVE  LET n == Abort(q) IN
         Same(A, q, n) /\ n.phase = q.phase /\ n.gone /\ Sound(acp, n)
<1> DEFINE c == IF q.run.child = "alive" THEN "term" ELSE q.run.child
           n == [q EXCEPT !.gone = TRUE, !.run.child = c]
<1>1. c \in Children
  BY DEF Children, Request, Run
<1>2. Abort(q) = n
  BY DEF Abort
<1>3. c # "alive" /\ (c = q.run.child \/ (q.run.child = "alive" /\ c = "term"))
  OBVIOUS
<1> HIDE DEF c
<1>4. /\ n \in Request(A) /\ n.kind = q.kind /\ n.account = q.account
      /\ n.phase = q.phase /\ n.text = q.text /\ n.status = q.status /\ n.head = q.head
      /\ n.workspace = q.workspace /\ n.last = q.last /\ n.ended = q.ended /\ n.gone = TRUE
      /\ n.run.number = q.run.number /\ n.run.emitted = q.run.emitted
      /\ n.run.child = c /\ n.run.path = q.run.path
  BY <1>1 DEF Request, Run
<1> HIDE DEF n
<1>5. Sound(acp, n)
  BY <1>3, <1>4, ToldProps
<1> QED
  BY <1>2, <1>4, <1>5 DEF Same

\* killAllChildProcesses.
LEMMA KillTrackedProps ==
  ASSUME NEW A, NEW acp, NEW q \in Request(A), Sound(acp, q)
  PROVE  LET n == KillTracked(q) IN
         Same(A, q, n) /\ n.phase = q.phase /\ Sound(acp, n)
<1> DEFINE c == IF q.run.tracked /\ q.run.child = "alive" THEN "term" ELSE q.run.child
           n == [q EXCEPT !.run.tracked = FALSE, !.run.child = c]
<1>1. c \in Children
  BY DEF Children, Request, Run
<1>2. KillTracked(q) = n
  BY DEF KillTracked
<1>3. c = q.run.child \/ (q.run.child = "alive" /\ c = "term")
  OBVIOUS
<1> HIDE DEF c
<1>4. /\ n \in Request(A) /\ n.kind = q.kind /\ n.account = q.account
      /\ n.phase = q.phase /\ n.text = q.text /\ n.status = q.status /\ n.head = q.head
      /\ n.workspace = q.workspace /\ n.last = q.last /\ n.ended = q.ended /\ n.gone = q.gone
      /\ n.run.number = q.run.number /\ n.run.emitted = q.run.emitted
      /\ n.run.child = c /\ n.run.path = q.run.path
  BY <1>1 DEF Request, Run
<1> HIDE DEF n
<1>6. q.gone => q.run.child # "alive"
  BY DEF Sound, Untouched, Attended, Closed, Running
<1>5. Sound(acp, n)
  BY <1>3, <1>4, <1>6, ToldProps
<1> QED
  BY <1>2, <1>4, <1>5 DEF Same

-----------------------------------------------------------------------------
(***************************************************************************)
(* The account counters.                                                   *)
(***************************************************************************)
Ledger(p) ==
  /\ p = [count |-> p.count, used |-> p.used, limited |-> p.limited]
  /\ p.count \in [Counters -> [Accounts -> Nat]]

Active(p, b) == p.count["active"][b]

OneLess == -1

\* From p to n the runs in progress of account a change by d, of no other.
Moves(p, n, a, d) ==
  \A b \in Accounts : Active(n, b) = Active(p, b) + IF b = a THEN d ELSE 0

\* One counter of one account.
LEMMA CountedProps ==
  ASSUME NEW p, Ledger(p), NEW a, NEW c \in Counters
  PROVE  LET n == Counted(p, a, c) IN
         Ledger(n) /\ Moves(p, n, a, IF c = "active" THEN 1 ELSE 0)
<1> DEFINE n == Counted(p, a, c)
           k == [p.count EXCEPT ![c][a] = @ + 1]
<1>0. "active" \in Counters
  BY DEF Counters
<1>1. CASE a = NoAccount
  <2>1. n = p
    BY <1>1 DEF Counted
  <2>2. \A b \in Accounts : b # a /\ Active(p, b) \in Nat
    BY <1>0, <1>1, AccountsAssumption DEF Ledger, Active
  <2> QED
    BY <2>1, <2>2 DEF Moves
<1>2. CASE a # NoAccount
  <2>1. n = [p EXCEPT !.count = k]
    BY <1>2 DEF Counted
  <2>2. k \in [Counters -> [Accounts -> Nat]]
    <3> DEFINE row == p.count[c]
               new == [row EXCEPT ![a] = row[a] + 1]
    <3>1. row \in [Accounts -> Nat]
      BY DEF Ledger
    <3>2. k = [p.count EXCEPT ![c] = new]
      OBVIOUS
    <3> HIDE DEF row
    <3>3. a \in Accounts => row[a] + 1 \in Nat
      BY <3>1
    <3>5. new \in [Accounts -> Nat]
      BY <3>1, <3>3
    <3> HIDE DEF new
    <3> QED
      BY <3>2, <3>5 DEF Ledger
  <2>3. \A b \in Accounts :
          k["active"][b] = p.count["active"][b] + IF b = a /\ c = "active" THEN 1 ELSE 0
    BY <1>0 DEF Ledger
  <2> HIDE DEF k
  <2>4. n = [count |-> k, used |-> p.used, limited |-> p.limited]
    BY <2>1 DEF Ledger
  <2> HIDE DEF n
  <2>5. Ledger(n)
    BY <2>2, <2>4 DEF Ledger
  <2>6. \A b \in Accounts : Active(n, b) = Active(p, b) + IF b = a /\ c = "active" THEN 1 ELSE 0
    BY <2>3, <2>4 DEF Active
  <2> QED
    BY <2>5, <2>6 DEF Moves, n
<1> QED
  BY <1>1, <1>2

\* reportRequestStart.
LEMMA ReportStartProps ==
  ASSUME NEW p, Ledger(p), NEW a
  PROVE  Ledger(ReportStart(p, a)) /\ Moves(p, ReportStart(p, a), a, 1)
<1> DEFINE m == Counted(p, a, "active")
           n == Counted(m, a, "total")
<1>0. "active" \in Counters /\ "total" \in Counters
  BY DEF Counters
<1>1. Ledger(m) /\ Moves(p, m, a, 1)
  BY <1>0, CountedProps
<1>2. n = ReportStart(p, a)
  BY DEF ReportStart
<1> HIDE DEF m
<1>3. Ledger(n) /\ Moves(m, n, a, 0)
  BY <1>0, <1>1, CountedProps
<1> HIDE DEF n
<1>4. \A b \in Accounts : Active(p, b) \in Nat /\ Active(m, b) \in Nat
  BY <1>0, <1>1 DEF Ledger, Active
<1>5. Moves(p, n, a, 1)
  BY <1>1, <1>3, <1>4 DEF Moves
<1> QED
  BY <1>2, <1>3, <1>5

\* reportRequestEnd, of a run that is counted.
LEMMA ReportEndProps ==
  ASSUME NEW p, Ledger(p), NEW a, a \in Accounts => Active(p, a) > 0
  PROVE  Ledger(ReportEnd(p, a)) /\ Moves(p, ReportEnd(p, a), a, OneLess)
<1> DEFINE n == ReportEnd(p, a)
           k == [p.count EXCEPT !["active"][a] = IF @ > 0 THEN @ - 1 ELSE @]
<1>0. "active" \in Counters
  BY DEF Counters
<1>1. CASE a = NoAccount
  <2>1. n = p
    BY <1>1 DEF ReportEnd
  <2>2. \A b \in Accounts : b # a /\ Active(p, b) \in Nat
    BY <1>0, <1>1, AccountsAssumption DEF Ledger, Active
  <2> QED
    BY <2>1, <2>2 DEF Moves
<1>2. CASE a # NoAccount
  <2>1. n = [p EXCEPT !.count = k]
    BY <1>2 DEF ReportEnd
  <2>2. k \in [Counters -> [Accounts -> Nat]]
    <3> DEFINE row == p.count["active"]
               less == IF row[a] > 0 THEN row[a] - 1 ELSE row[a]
               new == [row EXCEPT ![a] = less]
    <3>1. row \in [Accounts -> Nat]
      BY <1>0 DEF Ledger
    <3>2. k = [p.count EXCEPT !["active"] = new]
      OBVIOUS
    <3> HIDE DEF row
    <3>3. a \in Accounts => less \in Nat
      BY <3>1
    <3> HIDE DEF less
    <3>4. new \in [Accounts -> Nat]
      BY <3>1, <3>3
    <3> HIDE DEF new
    <3> QED
      BY <1>0, <3>2, <3>4 DEF Ledger
  <2>3. \A b \in Accounts :
          k["active"][b] = p.count["active"][b] + IF b = a THEN OneLess ELSE 0
    BY <1>0 DEF Ledger, Active, OneLess
  <2> HIDE DEF k
  <2>4. n = [count |-> k, used |-> p.used, limited |-> p.limited]
    BY <2>1 DEF Ledger
  <2> HIDE DEF n
  <2>5. Ledger(n)
    BY <2>2, <2>4 DEF Ledger
  <2>6. \A b \in Accounts : Active(n, b) = Active(p, b) + IF b = a THEN OneLess ELSE 0
    BY <2>3, <2>4 DEF Active
  <2> QED
    BY <2>5, <2>6 DEF Moves, n
<1> QED
  BY <1>1, <1>2

\* What changes the orders of accounts changes no counter.
LEMMA OrderProps ==
  ASSUME NEW p, Ledger(p), NEW a
  PROVE  /\ Ledger(Taken(p, a)) /\ Taken(p, a).count = p.count
         /\ Ledger(ReportRateLimit(p, a)) /\ ReportRateLimit(p, a).count = p.count
         /\ Ledger(Recovered(p)) /\ Recovered(p).count = p.count
<1>1. ASSUME NEW u
      PROVE  Ledger([p EXCEPT !.used = u]) /\ [p EXCEPT !.used = u].count = p.count
  <2>1. [p EXCEPT !.used = u] = [count |-> p.count, used |-> u, limited |-> p.limited]
    BY DEF Ledger
  <2> QED
    BY <2>1 DEF Ledger
<1>2. ASSUME NEW v
      PROVE  Ledger([p EXCEPT !.limited = v]) /\ [p EXCEPT !.limited = v].count = p.count
  <2>1. [p EXCEPT !.limited = v] = [count |-> p.count, used |-> p.used, limited |-> v]
    BY DEF Ledger
  <2> QED
    BY <2>1 DEF Ledger
<1> DEFINE t == MovedToEnd(p.used, a)
           m == MovedToEnd(p.limited, a)
           l == Tail(p.limited)
           x == [p EXCEPT !.used = t]
           y == [p EXCEPT !.limited = m]
           z == [p EXCEPT !.limited = l]
<1>3. /\ Taken(p, a) = IF a = NoAccount THEN p ELSE x
      /\ ReportRateLimit(p, a) = IF a = NoAccount THEN p ELSE y
      /\ Recovered(p) = z
  BY DEF Taken, ReportRateLimit, Recovered
<1> HIDE DEF t, m, l
<1>4. /\ Ledger(x) /\ x.count = p.count
      /\ Ledger(y) /\ y.count = p.count
      /\ Ledger(z) /\ z.count = p.count
  BY <1>1, <1>2
<1> HIDE DEF x, y, z
<1> QED
  BY <1>3, <1>4

\* What the accounts are told of a run that has settled: one run less in
\* progress, or the next one begun in the same step.
LEMMA TallyProps ==
  ASSUME NEW p, Ledger(p), NEW q, NEW n, NEW o, q.account \in Accounts => Active(p, q.account) > 0
  PROVE  /\ Ledger(Tally(p, q, n, o))
         /\ Moves(p, Tally(p, q, n, o), q.account, IF n.phase = "run" THEN 0 ELSE OneLess)
<1> DEFINE a == q.account
           e == ReportEnd(p, a)
           t == Tally(p, q, n, o)
<1>0. "active" \in Counters /\ "success" \in Counters /\ "errors" \in Counters
  BY DEF Counters
<1>1. Ledger(e) /\ Moves(p, e, a, OneLess)
  BY ReportEndProps
<1>2. t \in {ReportStart(e, a), Counted(e, a, "success"), Counted(e, a, "errors"), e}
      /\ (n.phase = "run" => t = ReportStart(e, a))
      /\ (n.phase # "run" => t \in {Counted(e, a, "success"), Counted(e, a, "errors"), e})
  BY DEF Tally
<1> HIDE DEF e, t, a
<1>3. \A b \in Accounts : Active(p, b) \in Nat /\ Active(e, b) \in Nat
  BY <1>0, <1>1 DEF Ledger, Active
<1>4. CASE n.phase = "run"
  <2>1. Ledger(t) /\ Moves(e, t, a, 1)
    BY <1>1, <1>2, <1>4, ReportStartProps
  <2>2. Moves(p, t, a, 0)
    BY <1>1, <1>3, <2>1 DEF Moves, OneLess
  <2> QED
    BY <1>4, <2>1, <2>2 DEF a, t
<1>5. CASE n.phase # "run"
  <2>1. Ledger(Counted(e, a, "success")) /\ Moves(e, Counted(e, a, "success"), a, 0)
    BY <1>0, <1>1, CountedProps
  <2>2. Ledger(Counted(e, a, "errors")) /\ Moves(e, Counted(e, a, "errors"), a, 0)
    BY <1>0, <1>1, CountedProps
  <2>3. Moves(e, e, a, 0)
    BY <1>3 DEF Moves
  <2>4. Ledger(t) /\ Moves(e, t, a, 0)
    BY <1>1, <1>2, <1>5, <2>1, <2>2, <2>3
  <2>5. Moves(p, t, a, OneLess)
    BY <1>1, <1>3, <2>4 DEF Moves, OneLess
  <2> QED
    BY <1>5, <2>4, <2>5 DEF a, t
<1> QED
  BY <1>4, <1>5

-----------------------------------------------------------------------------
(***************************************************************************)
(* The counters against the requests in progress.                          *)
(***************************************************************************)
Busy(q, b) == q.phase = "run" /\ q.account = b

InProgress(rq, b) == {r \in Requests : Busy(rq[r], b)}

Runs(rq, b) == Cardinality(InProgress(rq, b))

Balanced(p, rq) == \A b \in Accounts : Active(p, b) = Runs(rq, b)

\* The runs in progress of an account can be counted.
LEMMA InProgressFinite ==
  \A rq, b : IsFiniteSet(InProgress(rq, b)) /\ Runs(rq, b) \in Nat
<1> TAKE rq, b
<1>1. InProgress(rq, b) \subseteq Requests
  BY DEF InProgress
<1>2. IsFiniteSet(InProgress(rq, b))
  BY <1>1, RequestsAssumption, FS_Subset
<1> QED
  BY <1>2, FS_CardinalityType DEF Runs

\* A request leaves, or joins, the runs in progress of an account.
LEMMA BusyCount ==
  ASSUME NEW rq, NEW rq2, NEW r \in Requests, \A x \in Requests : x # r => rq2[x] = rq[x], NEW b
  PROVE  /\ Busy(rq[r], b) /\ ~Busy(rq2[r], b) => Runs(rq2, b) = Runs(rq, b) + OneLess
         /\ ~Busy(rq[r], b) /\ Busy(rq2[r], b) => Runs(rq2, b) = Runs(rq, b) + 1
<1> DEFINE S == InProgress(rq, b)
           T == InProgress(rq2, b)
<1>2. IsFiniteSet(S) /\ Cardinality(S) \in Nat /\ IsFiniteSet(T) /\ Cardinality(T) \in Nat
  BY InProgressFinite DEF Runs
<1>3. \A x \in Requests : x # r => (x \in S <=> x \in T)
  BY DEF InProgress
<1>4. /\ S \subseteq Requests /\ T \subseteq Requests
      /\ r \in S <=> Busy(rq[r], b)
      /\ r \in T <=> Busy(rq2[r], b)
  BY DEF InProgress
<1> HIDE DEF S, T
<1>6. ASSUME r \in S, r \notin T PROVE Cardinality(T) = Cardinality(S) + OneLess
  <2>1. T = S \ {r}
    BY <1>3, <1>4, <1>6
  <2>2. Cardinality(T) = Cardinality(S) - 1
    BY <1>2, <1>6, <2>1, FS_RemoveElement
  <2> QED
    BY <1>2, <2>2 DEF OneLess
<1>7. ASSUME r \notin S, r \in T PROVE Cardinality(T) = Cardinality(S) + 1
  <2>1. T = S \cup {r}
    BY <1>3, <1>4, <1>7
  <2> QED
    BY <1>2, <1>7, <2>1, FS_AddElement
<1> QED
  BY <1>4, <1>6, <1>7 DEF S, T, Runs

\* A step that begins and ends no run, or ends one and begins the next.
LEMMA RebalancedSame ==
  ASSUME NEW p, NEW p2, NEW rq, NEW rq2, NEW r \in Requests, Balanced(p, rq),
         \A x \in Requests : x # r => rq2[x] = rq[x],
         NEW a, Moves(p, p2, a, 0), \A b : Busy(rq2[r], b) <=> Busy(rq[r], b)
  PROVE  Balanced(p2, rq2)
<1> SUFFICES ASSUME NEW b \in Accounts
             PROVE  Active(p2, b) = Runs(rq2, b)
  BY DEF Balanced
<1>1. Runs(rq, b) \in Nat /\ Active(p, b) = Runs(rq, b) /\ Active(p2, b) = Active(p, b) + 0
  BY InProgressFinite DEF Balanced, Moves
<1>2. Runs(rq2, b) = Runs(rq, b)
  <2>1. InProgress(rq2, b) = InProgress(rq, b)
    BY DEF InProgress
  <2> QED
    BY <2>1 DEF Runs
<1> QED
  BY <1>1, <1>2

\* A run begins on the account of the request.
LEMMA RebalancedBegin ==
  ASSUME NEW p, NEW p2, NEW rq, NEW rq2, NEW r \in Requests, Balanced(p, rq),
         \A x \in Requests : x # r => rq2[x] = rq[x],
         rq[r].phase # "run", rq2[r].phase = "run", Moves(p, p2, rq2[r].account, 1)
  PROVE  Balanced(p2, rq2)
<1> SUFFICES ASSUME NEW b \in Accounts
             PROVE  Active(p2, b) = Runs(rq2, b)
  BY DEF Balanced
<1>1. /\ Runs(rq, b) \in Nat /\ Active(p, b) = Runs(rq, b)
      /\ Active(p2, b) = Active(p, b) + IF b = rq2[r].account THEN 1 ELSE 0
  BY InProgressFinite DEF Balanced, Moves
<1>2. ~Busy(rq[r], b) /\ (Busy(rq2[r], b) <=> b = rq2[r].account)
  BY DEF Busy
<1>3. Runs(rq2, b) = Runs(rq, b) + IF b = rq2[r].account THEN 1 ELSE 0
  <2>1. CASE b = rq2[r].account
    BY <1>1, <1>2, <2>1, BusyCount
  <2>2. CASE b # rq2[r].account
    <3>1. InProgress(rq2, b) = InProgress(rq, b)
      BY <1>2, <2>2 DEF InProgress
    <3>2. Runs(rq2, b) = Runs(rq, b)
      BY <3>1 DEF Runs
    <3> QED
      BY <1>1, <2>2, <3>2
  <2> QED
    BY <2>1, <2>2
<1> QED
  BY <1>1, <1>3

\* A run ends, on the account of the request.
LEMMA RebalancedEnd ==
  ASSUME NEW p, NEW p2, NEW rq, NEW rq2, NEW r \in Requests, Balanced(p, rq),
         \A x \in Requests : x # r => rq2[x] = rq[x],
         rq[r].phase = "run", rq2[r].phase # "run", Moves(p, p2, rq[r].account, OneLess)
  PROVE  Balanced(p2, rq2)
<1> SUFFICES ASSUME NEW b \in Accounts
             PROVE  Active(p2, b) = Runs(rq2, b)
  BY DEF Balanced
<1>1. /\ Runs(rq, b) \in Nat /\ Active(p, b) = Runs(rq, b)
      /\ Active(p2, b) = Active(p, b) + IF b = rq[r].account THEN OneLess ELSE 0
  BY InProgressFinite DEF Balanced, Moves
<1>2. ~Busy(rq2[r], b) /\ (Busy(rq[r], b) <=> b = rq[r].account)
  BY DEF Busy
<1>3. Runs(rq2, b) = Runs(rq, b) + IF b = rq[r].account THEN OneLess ELSE 0
  <2>1. CASE b = rq[r].account
    BY <1>1, <1>2, <2>1, BusyCount
  <2>2. CASE b # rq[r].account
    <3>1. InProgress(rq2, b) = InProgress(rq, b)
      BY <1>2, <2>2 DEF InProgress
    <3>2. Runs(rq2, b) = Runs(rq, b)
      BY <3>1 DEF Runs
    <3> QED
      BY <1>1, <2>2, <3>2
  <2> QED
    BY <2>1, <2>2
<1> QED
  BY <1>1, <1>3

\* The account of a run in progress has a run to end.
LEMMA RunCounted ==
  ASSUME NEW p, NEW rq, Balanced(p, rq), NEW r \in Requests, rq[r].phase = "run"
  PROVE  rq[r].account \in Accounts => Active(p, rq[r].account) > 0
<1> SUFFICES ASSUME rq[r].account \in Accounts
             PROVE  Active(p, rq[r].account) > 0
  OBVIOUS
<1> DEFINE S == InProgress(rq, rq[r].account)
<1>1. r \in S
  BY DEF InProgress, Busy
<1>2. IsFiniteSet(S) /\ Cardinality(S) \in Nat
  BY InProgressFinite DEF Runs
<1>3. Active(p, rq[r].account) = Cardinality(S)
  BY DEF Balanced, Runs
<1> HIDE DEF S
<1>4. Cardinality(S) # 0
  BY <1>1, <1>2, FS_EmptySet
<1> QED
  BY <1>2, <1>3, <1>4

-----------------------------------------------------------------------------
(***************************************************************************)
(* The inductive invariant.                                                *)
(***************************************************************************)
\* Every request is one of the model's, and sound.
EachSound ==
  /\ req = [r \in Requests |-> req[r]]
  /\ \A r \in Requests : req[r] \in Request({req[r].account}) /\ Sound(config.acp, req[r])

\* The process does not exit under a client that is still connected.
ExitLast ==
  gateway = "down" => \A r \in Requests : req[r].phase \in {"read", "run"} => req[r].gone

RequestsInvariant == EachSound /\ ExitLast /\ Ledger(accounts) /\ Balanced(accounts, req)

\* A step of one request that begins and ends no run.
LEMMA StepKept ==
  ASSUME RequestsInvariant, Up, NEW r \in Requests, NEW n, Becomes(r, n),
         UNCHANGED <<config, gateway, accounts>>, Same({req[r].account}, req[r], n),
         n.phase = "run" <=> req[r].phase = "run", Sound(config.acp, n)
  PROVE  RequestsInvariant'
<1> USE DEF RequestsInvariant
<1>1. /\ req' = [x \in Requests |-> req'[x]] /\ req'[r] = n
      /\ \A x \in Requests : x # r => req'[x] = req[x]
  BY DEF Becomes, EachSound
<1>2. EachSound'
  BY <1>1 DEF EachSound, Same
<1>3. ExitLast'
  BY DEF ExitLast, Up
<1>4. Moves(accounts, accounts, NoAccount, 0)
  <2>1. \A b \in Accounts : Active(accounts, b) \in Nat
    BY DEF Ledger, Active, Counters
  <2> QED
    BY <2>1 DEF Moves
<1>5. \A b : Busy(req'[r], b) <=> Busy(req[r], b)
  BY <1>1 DEF Busy, Same
<1>6. Balanced(accounts, req')
  BY <1>1, <1>4, <1>5, RebalancedSame
<1> QED
  BY <1>2, <1>3, <1>6

\* The end of a run.
LEMMA StepSettled ==
  ASSUME RequestsInvariant, Up, NEW r \in Requests, NEW q, NEW o \in {"ok", "failed", "queue", "threw"},
         Same({req[r].account}, req[r], q), InRun(q), q.run.child \notin Running,
         req[r].phase = "run", Settle(r, q, o)
  PROVE  RequestsInvariant'
<1> USE DEF RequestsInvariant
<1> DEFINE a == req[r].account
<1>1. PICK usable \in BOOLEAN, workspaceFails \in BOOLEAN, limited \in BOOLEAN :
        LET n == Answer(q, o, usable, workspaceFails)
            p == Tally(accounts, q, n, o)
        IN  /\ Becomes(r, n)
            /\ accounts' = IF limited /\ o \in {"ok", "failed"}
                           THEN ReportRateLimit(p, q.account) ELSE p
            /\ UNCHANGED <<config, gateway>>
  BY DEF Settle, Answer
<1> DEFINE n == Answer(q, o, usable, workspaceFails)
           p == Tally(accounts, q, n, o)
<1>2. q \in Request({a}) /\ q.kind = req[r].kind /\ q.account = a
  BY DEF Same
<1>3. Answered({a}, config.acp, q, n)
  BY <1>2, RunAnswers
<1>4. a \in Accounts => Active(accounts, a) > 0
  BY RunCounted
<1>5. Ledger(p) /\ Moves(accounts, p, a, IF n.phase = "run" THEN 0 ELSE OneLess)
  BY <1>2, <1>4, TallyProps
<1>6. Becomes(r, n) /\ accounts' \in {p, ReportRateLimit(p, q.account)} /\ UNCHANGED <<config, gateway>>
  BY <1>1
<1> HIDE DEF n, p
<1>7. Ledger(accounts') /\ accounts'.count = p.count
  BY <1>5, <1>6, OrderProps
<1>8. Moves(accounts, accounts', a, IF n.phase = "run" THEN 0 ELSE OneLess)
  BY <1>5, <1>7 DEF Moves, Active
<1>9. /\ req' = [x \in Requests |-> req'[x]] /\ req'[r] = n
      /\ \A x \in Requests : x # r => req'[x] = req[x]
  BY <1>6 DEF Becomes, EachSound
<1>10. n \in Request({a}) /\ n.account = a /\ Sound(config.acp, n)
  BY <1>2, <1>3 DEF Answered, Same, Sound
<1>11. EachSound'
  BY <1>6, <1>9, <1>10 DEF EachSound
<1>12. ExitLast'
  BY <1>6 DEF ExitLast, Up
<1>13. CASE n.phase = "run"
  <2>1. \A b : Busy(req'[r], b) <=> Busy(req[r], b)
    BY <1>9, <1>10, <1>13 DEF Busy
  <2>2. Moves(accounts, accounts', a, 0)
    BY <1>8, <1>13
  <2>3. Balanced(accounts', req')
    BY <1>9, <2>1, <2>2, RebalancedSame
  <2> QED
    BY <1>7, <1>11, <1>12, <2>3
<1>14. CASE n.phase # "run"
  <2>2. Moves(accounts, accounts', a, OneLess)
    BY <1>8, <1>14
  <2>1. req'[r].phase # "run"
    BY <1>9, <1>14
  <2>3. Balanced(accounts', req')
    <3>1. \A x \in Requests : x # r => req'[x] = req[x]
      BY <1>9
    <3>2. Balanced(accounts, req)
      OBVIOUS
    <3> QED
      BY <2>1, <2>2, <3>1, <3>2, RebalancedEnd
  <2> QED
    BY <1>7, <1>11, <1>12, <2>3
<1> QED
  BY <1>13, <1>14

\* Initially every request is untouched and every counter is zero.
LEMMA InitInvariant == Init => RequestsInvariant
<1> SUFFICES ASSUME Init PROVE RequestsInvariant
  OBVIOUS
<1>1. ASSUME NEW k \in Kinds
      PROVE  /\ Fresh(k) \in Request({NoAccount}) /\ Fresh(k).account = NoAccount
             /\ Fresh(k).phase = "idle" /\ Untouched(Fresh(k))
  <2>1. NoRun \in Run
    BY DEF NoRun, Run, Paths, Steps, Children
  <2>2. NoRun.child = "none"
    BY DEF NoRun
  <2>3. "none" \in Heads /\ "none" \in Lasts /\ "none" \in Statuses
    BY DEF Heads, Lasts, Statuses
  <2> QED
    BY <2>1, <2>2, <2>3 DEF Fresh, Request, Untouched
<1>2. \A r \in Requests : \E k \in Kinds : req[r] = Fresh(k)
  BY DEF Init
<1>3. req = [r \in Requests |-> req[r]]
  BY DEF Init
<1>4. EachSound
  BY <1>1, <1>2, <1>3 DEF EachSound, Sound
<1>5. ExitLast
  BY DEF ExitLast, Init
<1>6. Ledger(accounts) /\ \A b \in Accounts : Active(accounts, b) = 0
  <2>1. accounts = FreshPool
    BY DEF Init
  <2> QED
    BY <2>1 DEF FreshPool, Ledger, Active, Counters
<1>7. Balanced(accounts, req)
  <2> SUFFICES ASSUME NEW b \in Accounts PROVE Active(accounts, b) = Runs(req, b)
    BY DEF Balanced
  <2>1. InProgress(req, b) = {}
    BY <1>1, <1>2 DEF InProgress, Busy
  <2> QED
    BY <1>6, <2>1, FS_EmptySet DEF Runs
<1> QED
  BY <1>4, <1>5, <1>6, <1>7 DEF RequestsInvariant

-----------------------------------------------------------------------------
(***************************************************************************)
(* The steps.                                                              *)
(***************************************************************************)
\* A request, its account aside; in its run, when its phase says so.
LEMMA RequestState ==
  ASSUME RequestsInvariant, NEW r \in Requests
  PROVE  LET q == req[r] IN
         /\ q \in Request({q.account}) /\ Sound(config.acp, q)
         /\ q.phase = "run" => InRun(q) /\ Attended(q)
         /\ q.phase \in {"idle", "read"} => Untouched(q)
<1>1. req[r] \in Request({req[r].account}) /\ Sound(config.acp, req[r])
  BY DEF RequestsInvariant, EachSound
<1>2. \/ req[r].phase \in {"idle", "read"} /\ Untouched(req[r])
      \/ req[r].phase = "run" /\ InRun(req[r]) /\ Attended(req[r])
      \/ req[r].phase = "done"
  BY <1>1 DEF Sound, Closed, InRun
<1> QED
  BY <1>1, <1>2

\* A step within a run.
LEMMA StepInRun ==
  ASSUME RequestsInvariant, Up, NEW r \in Requests, NEW n, Becomes(r, n), req[r].phase = "run",
         UNCHANGED <<config, gateway, accounts>>, Kept({req[r].account}, req[r], n)
  PROVE  RequestsInvariant'
<1>1. Same({req[r].account}, req[r], n) /\ n.phase = "run" /\ Sound(config.acp, n)
  BY DEF Kept, InRun, Sound
<1> QED
  BY <1>1, StepKept

\* A request arrives.
LEMMA ArrivesKeeps ==
  ASSUME RequestsInvariant, NEW r \in Requests, Arrives(r)
  PROVE  RequestsInvariant'
<1> DEFINE q == req[r]
           n == [q EXCEPT !.phase = "read"]
<1>1. q \in Request({q.account}) /\ Untouched(q)
  BY RequestState DEF Arrives
<1>2. Becomes(r, n) /\ UNCHANGED <<config, gateway, accounts>> /\ Up /\ q.phase = "idle"
  BY DEF Arrives, Up
<1>3. n \in Request({q.account}) /\ n.kind = q.kind /\ n.account = q.account /\ n.phase = "read"
  BY <1>1 DEF Request
<1>4. Untouched(n)
  BY <1>1 DEF Untouched, Request
<1>5. Sound(config.acp, n)
  BY <1>3, <1>4 DEF Sound
<1> HIDE DEF n
<1>6. Same({req[r].account}, req[r], n) /\ (n.phase = "run" <=> req[r].phase = "run")
  BY <1>2, <1>3 DEF Same
<1> QED
  BY <1>2, <1>5, <1>6, StepKept

\* A request refused before any run, with its workspace or without one.
LEMMA RefusedKeeps ==
  ASSUME RequestsInvariant, NEW r \in Requests, Refused(r) \/ PromptRefused(r)
  PROVE  RequestsInvariant'
<1> DEFINE q == req[r]
           m == Json(q, "refused")
<1>1. q \in Request({q.account}) /\ Untouched(q)
  BY RequestState DEF Refused, PromptRefused
<1>2. /\ UNCHANGED <<config, gateway, accounts>> /\ Up /\ q.phase = "read"
      /\ Becomes(r, m) \/ Becomes(r, [m EXCEPT !.workspace = q.kind.isolated])
  BY DEF Refused, PromptRefused
<1>3. "refused" \in Statuses
  BY DEF Statuses
<1>4. /\ m \in Request({q.account}) /\ m.kind = q.kind /\ m.account = q.account /\ m.phase = "done"
      /\ m.text = {} /\ m.run.child = "none" /\ m.head = "json" /\ m.status = "refused"
  BY <1>1, <1>3, JsonProps DEF Same, Untouched
<1> HIDE DEF m
<1>5. ASSUME NEW n \in Request({q.account}), n.kind = q.kind, n.account = q.account, n.phase = "done",
             n.text = {}, n.run.child = "none", n.head = "json", n.status = "refused", Becomes(r, n)
      PROVE  RequestsInvariant'
  <2>1. Sound(config.acp, n)
    BY <1>5 DEF Sound, Closed, Running
  <2>2. Same({req[r].account}, req[r], n) /\ (n.phase = "run" <=> req[r].phase = "run")
    BY <1>2, <1>5 DEF Same
  <2> QED
    BY <1>2, <1>5, <2>1, <2>2, StepKept
<1>6. CASE Becomes(r, m)
  BY <1>4, <1>5, <1>6
<1>7. CASE Becomes(r, [m EXCEPT !.workspace = q.kind.isolated])
  <2> DEFINE b == q.kind.isolated
             n == [m EXCEPT !.workspace = b]
  <2>1. b \in BOOLEAN
    BY <1>1, KindType
  <2> HIDE DEF b
  <2>2. /\ n \in Request({q.account}) /\ n.kind = q.kind /\ n.account = q.account /\ n.phase = "done"
        /\ n.text = {} /\ n.run.child = "none" /\ n.head = "json" /\ n.status = "refused"
    BY <1>4, <2>1 DEF Request
  <2>3. Becomes(r, n)
    BY <1>7 DEF b
  <2> HIDE DEF n
  <2> QED
    BY <1>5, <2>2, <2>3
<1> QED
  BY <1>2, <1>6, <1>7

\* A run begins, on the account that the rotation gives.
LEMMA BeginsKeeps ==
  ASSUME RequestsInvariant, NEW r \in Requests, Begins(r)
  PROVE  RequestsInvariant'
<1> DEFINE q == req[r]
           a == IF config.rotating THEN NextAccount(accounts) ELSE NoAccount
           b == q.workspace \/ q.kind.isolated
           m == [q EXCEPT !.phase = "run", !.account = a, !.workspace = b]
           n == StartRun(config, m)
           p == ReportStart(Taken(accounts, a), a)
<1>1. q \in Request({q.account}) /\ Untouched(q)
  BY RequestState DEF Begins
<1>2. Becomes(r, n) /\ accounts' = p /\ UNCHANGED <<config, gateway>> /\ Up /\ q.phase = "read"
  BY DEF Begins
<1> HIDE DEF a
<1>3. b \in BOOLEAN /\ (q.kind.isolated => b)
  BY <1>1, KindType DEF Request
<1> HIDE DEF b
<1>4. /\ m \in Request({a}) /\ m.kind = q.kind /\ m.account = a
      /\ m.ended = q.ended /\ m.phase = "run" /\ m.text = q.text
      /\ m.workspace = b /\ m.status = q.status /\ m.head = q.head
  BY <1>1, <1>3 DEF Request
<1> HIDE DEF m
<1>5. m.text = {} /\ InRun(m) /\ (m.kind.isolated => m.workspace)
  BY <1>1, <1>3, <1>4 DEF InRun, Untouched
<1>6. Same({a}, m, n) /\ InRun(n) /\ Attended(n)
  BY <1>4, <1>5, StartRunProps
<1> HIDE DEF n
<1>7. Ledger(p) /\ Moves(accounts, p, a, 1)
  <2> DEFINE t == Taken(accounts, a)
  <2>1. Ledger(t) /\ t.count = accounts.count
    BY OrderProps DEF RequestsInvariant
  <2>2. p = ReportStart(t, a)
    OBVIOUS
  <2> HIDE DEF t, p
  <2>3. Ledger(p) /\ Moves(t, p, a, 1)
    BY <2>1, <2>2, ReportStartProps
  <2> QED
    BY <2>1, <2>3 DEF Moves, Active
<1> HIDE DEF p
<1>8. /\ req' = [x \in Requests |-> req'[x]] /\ req'[r] = n
      /\ \A x \in Requests : x # r => req'[x] = req[x]
  BY <1>2 DEF Becomes, RequestsInvariant, EachSound
<1>9. n \in Request({a}) /\ n.account = a /\ n.phase = "run" /\ Sound(config.acp, n)
  BY <1>4, <1>6 DEF Same, InRun, Sound
<1>10. EachSound'
  BY <1>2, <1>8, <1>9 DEF RequestsInvariant, EachSound
<1>11. ExitLast'
  BY <1>2 DEF ExitLast, Up
<1>12. Balanced(accounts', req')
  <2>1. \A x \in Requests : x # r => req'[x] = req[x]
    BY <1>8
  <2>2. Balanced(accounts, req)
    BY DEF RequestsInvariant
  <2>3. req[r].phase # "run" /\ req'[r].phase = "run" /\ Moves(accounts, accounts', req'[r].account, 1)
    BY <1>2, <1>7, <1>8, <1>9
  <2> QED
    BY <2>1, <2>2, <2>3, RebalancedBegin
<1> QED
  BY <1>2, <1>7, <1>10, <1>11, <1>12 DEF RequestsInvariant

\* The events of a run that do not end it: a worker takes it, its agent speaks,
\* its prompt is sent, the CLI announces its result, a slow CLI is killed.
LEMMA EventsKeep ==
  ASSUME RequestsInvariant, NEW r \in Requests,
         PoolAcquired(r) \/ Emits(r) \/ OneShotSetUp(r) \/ CliResult(r)
  PROVE  RequestsInvariant'
<1> DEFINE q == req[r]
           A == {q.account}
<1>1. Up /\ q.phase = "run" /\ UNCHANGED <<config, gateway, accounts>>
  BY DEF PoolAcquired, Emits, OneShotSetUp, CliResult, On
<1>2. q \in Request(A) /\ InRun(q) /\ Attended(q)
  BY <1>1, RequestState
<1>3. ASSUME NEW n, Becomes(r, n), Kept(A, q, n) PROVE RequestsInvariant'
  BY <1>1, <1>3, StepInRun
<1>4. CASE PoolAcquired(r)
  <2>1. Kept(A, q, Acquire(q))
    BY <1>2, AcquireProps DEF Kept
  <2> QED
    BY <1>3, <1>4, <2>1 DEF PoolAcquired
<1>5. CASE Emits(r)
  <2>1. Kept(A, q, Emit(q))
    BY <1>2, EmitProps DEF Kept
  <2> QED
    BY <1>3, <1>5, <2>1 DEF Emits
<1>6. CASE OneShotSetUp(r)
  <2>1. Kept(A, q, [q EXCEPT !.run.step = "prompt"])
    BY <1>2, PromptProps
  <2> QED
    BY <1>3, <1>6, <2>1 DEF OneShotSetUp
<1>7. CASE CliResult(r)
  <2>1. Kept(A, q, ParseResult(config, q))
    BY <1>2, <1>7, ParseResultProps DEF Kept, CliResult
  <2> QED
    BY <1>3, <1>7, <2>1 DEF CliResult
<1> QED
  BY <1>4, <1>5, <1>6, <1>7

\* A pooled call returns or throws: the end of the run, or the CLI after it.
LEMMA PoolSettlesKeeps ==
  ASSUME RequestsInvariant, NEW r \in Requests, PoolSettles(r)
  PROVE  RequestsInvariant'
<1> DEFINE q == req[r]
           A == {q.account}
<1>1. Up /\ q.phase = "run" /\ q.run.path = "pool"
  BY DEF PoolSettles, PoolReturns, PoolThrows, On
<1>2. q \in Request(A) /\ InRun(q) /\ Attended(q)
  BY <1>1, RequestState
<1>3. Same(A, q, q) /\ q.run.child \notin Running
  BY <1>1, <1>2 DEF Same, Attended, Running
<1>4. ASSUME NEW o \in {"ok", "failed", "queue", "threw"}, Settle(r, q, o)
      PROVE  RequestsInvariant'
  BY <1>1, <1>2, <1>3, <1>4, StepSettled
<1>5. CASE PoolReturns(r)
  BY <1>4, <1>5 DEF PoolReturns
<1>6. CASE PoolThrows(r)
  <2>1. PICK queueError \in BOOLEAN :
          IF FallsBack(q, queueError)
          THEN /\ Becomes(r, CompatibilityRun(q))
               /\ UNCHANGED <<config, gateway, accounts>>
          ELSE Settle(r, q, IF queueError THEN "queue" ELSE "threw")
    BY <1>6 DEF PoolThrows
  <2>2. CASE FallsBack(q, queueError)
    <3>1. Kept(A, q, CompatibilityRun(q))
      BY <1>2, <2>2, FallBackProps
    <3> QED
      BY <1>1, <2>1, <2>2, <3>1, StepInRun
  <2>3. CASE ~FallsBack(q, queueError)
    <3> DEFINE o == IF queueError THEN "queue" ELSE "threw"
    <3>1. Settle(r, q, o) /\ o \in {"ok", "failed", "queue", "threw"}
      BY <2>1, <2>3
    <3> HIDE DEF o
    <3> QED
      BY <1>4, <3>1
  <2> QED
    BY <2>2, <2>3
<1> QED
  BY <1>5, <1>6 DEF PoolSettles

\* The end of a process, by itself or by the timer of its run.
LEMMA ChildSettlesKeeps ==
  ASSUME RequestsInvariant, NEW r \in Requests,
         OneShotPrompted(r) \/ OneShotBreaks(r) \/ ChildCloses(r) \/ SpawnFails(r) \/ TimesOut(r)
  PROVE  RequestsInvariant'
<1> DEFINE q == req[r]
           A == {q.account}
<1>1. Up /\ q.phase = "run"
  BY DEF OneShotPrompted, OneShotBreaks, ChildCloses, SpawnFails, TimesOut, On
<1>2. q \in Request(A) /\ InRun(q) /\ Attended(q)
  BY <1>1, RequestState
<1>3. ASSUME NEW c \in {"killed", "gone"}, NEW o \in {"ok", "failed", "queue", "threw"},
             Settle(r, WithChild(q, c), o)
      PROVE  RequestsInvariant'
  <2> DEFINE m == WithChild(q, c)
  <2>1. Same(A, q, m) /\ InRun(m) /\ m.run.child = c
    BY <1>2, ChildProps
  <2>2. Settle(r, m, o)
    BY <1>3
  <2> HIDE DEF m
  <2>3. m.run.child \notin Running
    BY <2>1 DEF Running
  <2> QED
    BY <1>1, <2>1, <2>2, <2>3, StepSettled
<1>4. CASE \E o \in {"ok", "failed"} : Settle(r, OneShotFinish(q), o)
  BY <1>3, <1>4 DEF OneShotFinish, WithChild
<1>5. CASE \E o \in {"ok", "failed", "threw"} : Settle(r, [q EXCEPT !.run.child = "gone"], o)
  BY <1>3, <1>5 DEF WithChild
<1>6. CASE /\ On(r, "cli") /\ Becomes(r, [q EXCEPT !.run.child = "killed"])
           /\ UNCHANGED <<config, gateway, accounts>>
  <2> DEFINE m == WithChild(q, "killed")
  <2>1. /\ Same(A, q, m) /\ InRun(m) /\ m.run.child = "killed" /\ m.run.path = q.run.path
        /\ m.workspace = q.workspace /\ m.gone = q.gone
    BY <1>2, ChildProps
  <2>2. Becomes(r, m) /\ q.run.path = "cli" /\ UNCHANGED <<config, gateway, accounts>>
    BY <1>6 DEF On, WithChild
  <2> HIDE DEF m
  <2>3. Kept(A, q, m)
    BY <1>2, <2>1, <2>2 DEF Kept, Attended, Same
  <2> QED
    BY <1>1, <2>2, <2>3, StepInRun
<1> QED
  BY <1>4, <1>5, <1>6 DEF OneShotPrompted, OneShotBreaks, ChildCloses, SpawnFails, TimesOut

\* A client leaves.
LEMMA ClientLeavesKeeps ==
  ASSUME RequestsInvariant, NEW r \in Requests, ClientLeaves(r)
  PROVE  RequestsInvariant'
<1> DEFINE q == req[r]
           n == Abort(q)
<1>1. q \in Request({q.account}) /\ Sound(config.acp, q)
  BY RequestState
<1>2. Becomes(r, n) /\ Up /\ UNCHANGED <<config, gateway, accounts>>
  BY DEF ClientLeaves
<1>3. Same({q.account}, q, n) /\ n.phase = q.phase /\ Sound(config.acp, n)
  BY <1>1, AbortProps
<1> HIDE DEF n
<1> QED
  BY <1>2, <1>3, StepKept

\* The shutdown tells every tracked child to stop.
LEMMA ShutdownKeeps ==
  ASSUME RequestsInvariant, Shutdown
  PROVE  RequestsInvariant'
<1>1. /\ req' = [r \in Requests |-> KillTracked(req[r])]
      /\ gateway' = "closing" /\ UNCHANGED <<config, accounts>>
  BY DEF Shutdown
<1>2. ASSUME NEW r \in Requests
      PROVE  /\ Same({req[r].account}, req[r], req'[r]) /\ req'[r].phase = req[r].phase
             /\ Sound(config.acp, req'[r])
  <2>1. req[r] \in Request({req[r].account}) /\ Sound(config.acp, req[r])
    BY RequestState
  <2>2. req'[r] = KillTracked(req[r])
    BY <1>1
  <2> QED
    BY <2>1, <2>2, KillTrackedProps
<1>3. EachSound'
  BY <1>1, <1>2 DEF EachSound, Same
<1>4. ExitLast'
  BY <1>1 DEF ExitLast
<1>5. Balanced(accounts, req')
  <2>1. ASSUME NEW b PROVE InProgress(req', b) = InProgress(req, b)
    BY <1>2 DEF InProgress, Busy, Same
  <2> QED
    BY <2>1 DEF Balanced, Runs, RequestsInvariant
<1> QED
  BY <1>1, <1>3, <1>4, <1>5 DEF RequestsInvariant

\* Every step keeps the invariant.
LEMMA NextInvariant == RequestsInvariant /\ [Next]_vars => RequestsInvariant'
<1> SUFFICES ASSUME RequestsInvariant, [Next]_vars PROVE RequestsInvariant'
  OBVIOUS
<1>1. CASE UNCHANGED vars
  BY <1>1 DEF vars, RequestsInvariant, EachSound, ExitLast
<1>2. ASSUME NEW r \in Requests,
             Arrives(r) \/ Refused(r) \/ PromptRefused(r) \/ Begins(r) \/ ClientLeaves(r)
      PROVE  RequestsInvariant'
  BY <1>2, ArrivesKeeps, RefusedKeeps, BeginsKeeps, ClientLeavesKeeps
<1>3. ASSUME NEW r \in Requests, RunSteps(r) PROVE RequestsInvariant'
  BY <1>3, EventsKeep, PoolSettlesKeeps, ChildSettlesKeeps DEF RunSteps
<1>4. CASE AccountRecovers
  <2>1. accounts' = Recovered(accounts) /\ UNCHANGED <<config, gateway, req>>
    BY <1>4 DEF AccountRecovers
  <2>2. Ledger(accounts') /\ accounts'.count = accounts.count
    BY <2>1, OrderProps DEF RequestsInvariant
  <2>3. Balanced(accounts', req)
    BY <2>2 DEF Balanced, Active, RequestsInvariant
  <2> QED
    BY <2>1, <2>2, <2>3 DEF RequestsInvariant, EachSound, ExitLast
<1>5. CASE Shutdown
  BY <1>5, ShutdownKeeps
<1>6. CASE Exit
  <2>1. UNCHANGED <<config, req, accounts>> /\ ExitLast'
    BY <1>6 DEF Exit, ExitLast
  <2> QED
    BY <2>1 DEF RequestsInvariant, EachSound
<1> QED
  BY <1>1, <1>2, <1>3, <1>4, <1>5, <1>6 DEF Next

\* So it holds in every state.
LEMMA AlwaysInvariant == Spec => []RequestsInvariant
BY InitInvariant, NextInvariant, PTL DEF Spec

-----------------------------------------------------------------------------
(***************************************************************************)
(* What Requests checks.                                                   *)
(***************************************************************************)
\* accounts.ts:106: the counter of an account is the number of its runs in
\* progress, on every path out of a run.
THEOREM CountersExact == Spec => []ActiveAccounted
<1>1. RequestsInvariant => ActiveAccounted
  BY DEF RequestsInvariant, Balanced, Active, Runs, InProgress, Busy, ActiveAccounted
<1> QED
  BY <1>1, AlwaysInvariant, PTL

\* executor.ts:522: the text of a response comes from one run.
THEOREM TextOfOneRun == Spec => []OneSource
<1>1. ASSUME RequestsInvariant, NEW r \in Requests
      PROVE  Cardinality(req[r].text) <= 1
  <2> DEFINE q == req[r]
  <2>1. q \in Request({q.account}) /\ Sound(config.acp, q)
    BY <1>1, RequestState
  <2>2. q.run.number \in Nat
    BY <2>1 DEF Request, Run
  <2>3. \E n \in Nat : q.text \subseteq {n}
    BY <2>1, <2>2 DEF Sound, Untouched, InRun, Closed
  <2> HIDE DEF q
  <2>4. PICK n \in Nat : q.text \subseteq {n}
    BY <2>3
  <2>5. q.text = {} \/ q.text = {n}
    BY <2>4
  <2> QED
    <3>1. Cardinality({}) = 0 /\ Cardinality({n}) = 1
      BY FS_EmptySet, FS_Singleton
    <3>2. Cardinality(q.text) \in {0, 1}
      BY <2>5, <3>1
    <3>3. Cardinality(q.text) <= 1
      BY <3>2
    <3> QED
      BY <3>3 DEF q
<1>2. RequestsInvariant => OneSource
  BY <1>1 DEF OneSource
<1> QED
  BY <1>2, AlwaysInvariant, PTL

\* openai-chat.ts:849, anthropic-messages.ts:836: no ACP stream ends, while its
\* client reads, without what tells the client that it has ended.
THEOREM StreamsEnd == Spec => []StreamsClosed
<1>1. ASSUME RequestsInvariant, NEW r \in Requests,
             config.acp, req[r].head = "sse", req[r].ended, ~req[r].gone
      PROVE  req[r].last \in IF req[r].kind.api = "messages" THEN {"message_stop", "error"} ELSE {"[DONE]"}
  <2>1. Sound(config.acp, req[r])
    BY <1>1, RequestState
  <2> QED
    BY <1>1, <2>1 DEF Sound, Untouched, InRun, Closed
<1>2. RequestsInvariant => StreamsClosed
  BY <1>1 DEF StreamsClosed
<1> QED
  BY <1>2, AlwaysInvariant, PTL

\* executor.ts:464: the temporary workspace outlives the processes that work in
\* it, and no request outlives it.
THEOREM WorkspacesGo == Spec => []WorkspaceLifetime
<1>1. ASSUME RequestsInvariant, NEW r \in Requests,
             req[r].kind.isolated, req[r].status # "refused"
      PROVE  /\ req[r].run.child \in Running => req[r].workspace
             /\ req[r].phase = "done" => ~req[r].workspace
  <2>1. Sound(config.acp, req[r])
    BY <1>1, RequestState
  <2> QED
    BY <1>1, <2>1 DEF Sound, Untouched, InRun, Attended, Closed, Running
<1>2. RequestsInvariant => WorkspaceLifetime
  BY <1>1 DEF WorkspaceLifetime
<1> QED
  BY <1>2, AlwaysInvariant, PTL

\* server.ts:86: when the gateway exits, every agent process has been told to
\* stop.
THEOREM NobodyUntold == Spec => []NoAgentUntold
<1>1. ASSUME RequestsInvariant, gateway = "down", NEW r \in Requests
      PROVE  req[r].run.child # "alive"
  <2>1. /\ Sound(config.acp, req[r])
        /\ req[r].phase \in {"read", "run"} => req[r].gone
    BY <1>1, RequestState DEF RequestsInvariant, ExitLast
  <2> QED
    BY <2>1 DEF Sound, Untouched, InRun, Attended, Closed, Running
<1>2. RequestsInvariant => NoAgentUntold
  BY <1>1 DEF NoAgentUntold
<1> QED
  BY <1>2, AlwaysInvariant, PTL
=============================================================================

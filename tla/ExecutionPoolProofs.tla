------------------------ MODULE ExecutionPoolProofs ------------------------
(***************************************************************************)
(* Theorems about ExecutionPool, for every number of lanes, workers and    *)
(* requests and every pool configuration.                                  *)
(***************************************************************************)
EXTENDS ExecutionPool, QueueFacts, FiniteSetTheorems

(***************************************************************************)
(* Types.                                                                  *)
(***************************************************************************)
\* A call that has just got its place is a Call record.
LEMMA CallAtType ==
  ASSUME NEW phase \in Phase, NEW w \in Workers \cup {NoWorker}, NEW l \in Lanes
  PROVE  CallAt(phase, w, l) \in Call
BY DEF CallAt, Call

\* So is one that has not begun, or has settled.
LEMMA NoCallType ==
  ASSUME NEW r \in Requests
  PROVE  NoCall(r) \in Call
BY CallAtType, PoolConstants DEF NoCall, Phase

\* Settling calls keeps the type of req.
LEMMA LeavingType ==
  ASSUME NEW rq \in [Requests -> Call], NEW rs \in SUBSET Requests
  PROVE  Leaving(rq, rs) \in [Requests -> Call]
<1> SUFFICES ASSUME NEW r \in Requests
             PROVE  (IF r \in rs THEN NoCall(r) ELSE [rq[r] EXCEPT !.ahead = @ \ rs]) \in Call
  BY DEF Leaving
<1>1. CASE r \in rs
  BY <1>1, NoCallType
<1>2. CASE r \notin rs
  BY <1>2 DEF Call
<1> QED
  BY <1>1, <1>2

\* Handing a worker to a call keeps the type of req.
LEMMA HoldType ==
  ASSUME NEW rq \in [Requests -> Call], NEW r \in Requests, NEW phase \in Phase,
         NEW w \in Workers, NEW l \in Lanes
  PROVE  Hold(rq, r, phase, w, l) \in [Requests -> Call]
<1>1. Leaving(rq, {r}) \in [Requests -> Call]
  BY LeavingType
<1>2. CallAt(phase, w, l) \in Call
  BY CallAtType
<1> QED
  BY <1>1, <1>2 DEF Hold

\* #ensureSize keeps the types of what it changes.
LEMMA SpawnType ==
  ASSUME workers \in [Lanes -> SUBSET Workers],
         NEW l \in Lanes, NEW n, NEW kind \in {"ensure", "replenish"},
         NEW bz \in SUBSET Workers, NEW rq \in [Requests -> Call],
         NEW tk \in SUBSET Task,
         Spawn(l, n, kind, bz, rq, tk)
  PROVE  /\ workers' \in [Lanes -> SUBSET Workers] /\ busy' \subseteq Workers
         /\ req' \in [Requests -> Call] /\ tasks' \subseteq Task
<1>1. PICK new \in SUBSET Unused :
        /\ workers' = [workers EXCEPT ![l] = @ \cup new]
        /\ busy' = bz \cup new
        /\ req' = rq
        /\ tasks' = tk \cup {[kind |-> kind, lane |-> l, pending |-> new, dead |-> {}]}
  BY DEF Spawn
<1>2. new \subseteq Workers
  BY DEF Unused
<1>3. [kind |-> kind, lane |-> l, pending |-> new, dead |-> {}] \in Task
  BY <1>2 DEF Task
<1> QED
  BY <1>1, <1>2, <1>3

\* #serveWaiter keeps the types of what it changes.
LEMMA ServeType ==
  ASSUME TypeOK, NEW l \in Lanes,
         NEW bz \in SUBSET Workers, NEW rq \in [Requests -> Call],
         NEW tk \in SUBSET Task,
         ServeWaiter(l, bz, rq, tk)
  PROVE  /\ workers' \in [Lanes -> SUBSET Workers] /\ busy' \subseteq Workers
         /\ req' \in [Requests -> Call] /\ tasks' \subseteq Task
         /\ waiters' \in [Lanes -> Seq(Requests)]
<1> DEFINE fit == (workers[l] \ bz) \ worn
           Prefix(n) == {waiters[l][i] : i \in 1..n}
<1>1. /\ waiters[l] \in Seq(Requests) /\ workers[l] \subseteq Workers
      /\ workers \in [Lanes -> SUBSET Workers] /\ waiters \in [Lanes -> Seq(Requests)]
  BY DEF TypeOK
<1>2. ASSUME NEW n \in 0..Len(waiters[l])
      PROVE  Prefix(n) \in SUBSET Requests
  BY <1>1, <1>2
<1>3. ASSUME NEW w \in fit, NEW n \in Live(l),
             busy' = bz \cup {w},
             req' = Hold(Leaving(rq, Prefix(n - 1)), waiters[l][n], "running", w, l),
             waiters' = [waiters EXCEPT ![l] = SubSeq(@, n + 1, Len(@))],
             tasks' = tk, UNCHANGED workers
      PROVE  /\ busy' \subseteq Workers
             /\ req' \in [Requests -> Call]
             /\ waiters' \in [Lanes -> Seq(Requests)]
  <2>1. n \in 1..Len(waiters[l]) /\ waiters[l][n] \in Requests /\ w \in Workers
    BY <1>1, <1>3 DEF Live
  <2>2. Leaving(rq, Prefix(n - 1)) \in [Requests -> Call]
    <3>1. n - 1 \in 0..Len(waiters[l])
      BY <2>1, <1>1
    <3> QED
      BY <3>1, <1>2, LeavingType
  <2>3. req' \in [Requests -> Call]
    BY <1>3, <2>1, <2>2, HoldType DEF Phase, Leased
  <2>4. SubSeq(waiters[l], n + 1, Len(waiters[l])) \in Seq(Requests)
    <3>1. \A i \in n + 1 .. Len(waiters[l]) : waiters[l][i] \in Requests
      BY <1>1, <2>1
    <3> QED
      BY <3>1, <2>1, <1>1, SubSeqProperties
  <2> QED
    BY <1>1, <1>3, <2>1, <2>3, <2>4
<1>4. ASSUME busy' = bz, req' = Leaving(rq, Prefix(Len(waiters[l]))),
             waiters' = [waiters EXCEPT ![l] = <<>>], tasks' = tk, UNCHANGED workers
      PROVE  /\ req' \in [Requests -> Call]
             /\ waiters' \in [Lanes -> Seq(Requests)]
  <2>1. Len(waiters[l]) \in 0..Len(waiters[l])
    BY <1>1
  <2>2. Leaving(rq, Prefix(Len(waiters[l]))) \in [Requests -> Call]
    BY <1>2, <2>1, LeavingType
  <2> QED
    BY <1>1, <1>4, <2>2
<1>5. ASSUME NEW n, Spawn(l, n, "replenish", bz, rq, tk), UNCHANGED waiters
      PROVE  /\ workers' \in [Lanes -> SUBSET Workers] /\ busy' \subseteq Workers
             /\ req' \in [Requests -> Call] /\ tasks' \subseteq Task
             /\ waiters' \in [Lanes -> Seq(Requests)]
  BY <1>1, <1>5, SpawnType
<1>6. ASSUME busy' = bz, req' = rq, tasks' = tk, UNCHANGED <<workers, waiters>>
      PROVE  /\ workers' \in [Lanes -> SUBSET Workers] /\ busy' \subseteq Workers
             /\ req' \in [Requests -> Call] /\ tasks' \subseteq Task
             /\ waiters' \in [Lanes -> Seq(Requests)]
  BY <1>1, <1>6
<1> QED
  BY <1>1, <1>3, <1>4, <1>5, <1>6 DEF ServeWaiter

\* A call that goes on without a worker is a Call record.
LEMMA GoesType ==
  ASSUME req \in [Requests -> Call], NEW r \in Requests, NEW phase \in Phase,
         NEW l \in Lanes, NEW stage \in 1..3, NEW rest \in SUBSET Workers
  PROVE  Goes(r, phase, l, stage, rest) \in [Requests -> Call]
<1>1. req[r].aborted \in BOOLEAN /\ req[r].ahead \in SUBSET Requests
  BY DEF Call
<1>2. [phase |-> phase, worker |-> NoWorker, lane |-> l, stage |-> stage,
       rest |-> rest, aborted |-> req[r].aborted, ahead |-> req[r].ahead] \in Call
  BY <1>1 DEF Call
<1> QED
  BY <1>2 DEF Goes

LEMMA PhaseType ==
  ASSUME req \in [Requests -> Call], NEW r \in Requests, NEW phase \in Phase
  PROVE  [req EXCEPT ![r].phase = phase] \in [Requests -> Call]
BY DEF Call

LEMMA AbortedType ==
  ASSUME req \in [Requests -> Call], NEW r \in Requests
  PROVE  [req EXCEPT ![r].aborted = TRUE] \in [Requests -> Call]
<1>1. ASSUME NEW gone \in BOOLEAN
      PROVE  [req EXCEPT ![r].aborted = gone] \in [Requests -> Call]
  BY DEF Call
<1> QED
  BY <1>1

LEMMA ReplaceType ==
  ASSUME tasks \subseteq Task, NEW t \in tasks, NEW kind \in {"ensure", "replenish"},
         NEW pending \in SUBSET Workers, NEW dead \in SUBSET Workers
  PROVE  Replace(t, kind, pending, dead) \subseteq Task
<1>1. [kind |-> kind, lane |-> t.lane, pending |-> pending, dead |-> dead] \in Task
  BY DEF Task
<1> QED
  BY <1>1 DEF Replace

\* An entry taken out of a queue leaves a queue.
LEMMA DequeueType ==
  ASSUME TypeOK, NEW r \in Requests, Dequeue(r)
  PROVE  waiters' \in [Lanes -> Seq(Requests)]
<1> DEFINE l == Home[r]
<1>1. l \in Lanes /\ waiters \in [Lanes -> Seq(Requests)] /\ waiters[l] \in Seq(Requests)
  BY PoolConstants DEF TypeOK
<1>2. PICK i \in DOMAIN waiters[l] : waiters' = [waiters EXCEPT ![l] = RemoveAt(@, i)]
  BY DEF Dequeue
<1>3. i \in 1..Len(waiters[l])
  BY <1>1
<1> DEFINE before == SubSeq(waiters[l], 1, i - 1)
           after == SubSeq(waiters[l], i + 1, Len(waiters[l]))
<1>4. before \in Seq(Requests)
  <2>1. \A k \in 1 .. i - 1 : waiters[l][k] \in Requests
    BY <1>1, <1>3
  <2> QED
    BY <2>1, <1>1, <1>3, SubSeqProperties
<1>5. after \in Seq(Requests)
  <2>1. \A k \in i + 1 .. Len(waiters[l]) : waiters[l][k] \in Requests
    BY <1>1, <1>3
  <2> QED
    BY <2>1, <1>1, <1>3, SubSeqProperties
<1>6. before \o after \in Seq(Requests)
  BY <1>4, <1>5
<1> QED
  BY <1>1, <1>2, <1>6 DEF RemoveAt

\* The counts the pool computes are integers.
LEMMA CountTypes ==
  ASSUME TypeOK, NEW l \in Lanes
  PROVE  /\ TargetSize(l) \in Nat /\ WarmFloor(l) \in Nat /\ WarmFloor(l) <= TargetSize(l)
         /\ Cardinality(workers[l]) \in Nat
         /\ Cardinality(workers[l] \cap busy) \in Nat
         /\ IsFiniteSet(workers[l])
<1>1. TargetSize(l) \in Nat /\ WarmFloor(l) \in Nat /\ WarmFloor(l) <= TargetSize(l)
  BY PoolConstants DEF TargetSize, WarmFloor, Smaller, Larger
<1>2. workers[l] \subseteq Workers
  BY DEF TypeOK
<1>3. IsFiniteSet(workers[l]) /\ IsFiniteSet(workers[l] \cap busy)
  BY <1>2, PoolConstants, FS_Subset
<1> QED
  BY <1>1, <1>3, FS_CardinalityType

-----------------------------------------------------------------------------
LEMMA NextStageType ==
  ASSUME TypeOK, NEW r \in Requests, NextStage(r)
  PROVE  req' \in [Requests -> Call] /\ waiters' \in [Lanes -> Seq(Requests)]
<1> DEFINE l == Home[r]
<1>1. /\ l \in Lanes /\ Lender[l] \in Lanes
      /\ req \in [Requests -> Call]
      /\ waiters \in [Lanes -> Seq(Requests)]
  BY PoolConstants DEF TypeOK
<1>2. /\ Goes(r, "entering", Lender[l], 2, {}) \in [Requests -> Call]
      /\ Goes(r, "entering", l, 3, {}) \in [Requests -> Call]
      /\ Goes(r, "queued", l, 1, {}) \in [Requests -> Call]
  BY <1>1, GoesType DEF Phase, Microtask
<1>4. Leave(r) \in [Requests -> Call]
  BY <1>1, LeavingType DEF Leave
<1>3. Append(waiters[l], r) \in Seq(Requests)
  BY <1>1
<1> QED
  BY <1>1, <1>2, <1>3, <1>4 DEF NextStage

LEMMA AttemptType ==
  ASSUME TypeOK, NEW r \in Requests, NEW rest \in SUBSET Workers, Attempt(r, rest)
  PROVE  /\ workers' \in [Lanes -> SUBSET Workers]
         /\ busy' \subseteq Workers /\ worn' \subseteq Workers
         /\ waiters' \in [Lanes -> Seq(Requests)]
         /\ req' \in [Requests -> Call]
         /\ tasks' \subseteq Task
<1> DEFINE l == req[r].lane
<1>1. /\ l \in Lanes /\ req \in [Requests -> Call] /\ req[r].stage \in 1..3
      /\ workers \in [Lanes -> SUBSET Workers]
      /\ busy \subseteq Workers /\ worn \subseteq Workers
      /\ waiters \in [Lanes -> Seq(Requests)] /\ tasks \subseteq Task
  BY DEF TypeOK, Call
<1>2. ASSUME NEW w \in Stale(l, rest),
             workers' = [workers EXCEPT ![l] = @ \ {w}],
             worn' = worn \ {w},
             req' = Goes(r, "discarding", l, req[r].stage, rest \ {w}),
             UNCHANGED <<busy, waiters, tasks>>
      PROVE  /\ workers' \in [Lanes -> SUBSET Workers] /\ worn' \subseteq Workers
             /\ req' \in [Requests -> Call]
  BY <1>1, <1>2, GoesType DEF Phase, Closing
<1>3. ASSUME NEW w \in Fit(l), busy' = busy \cup {w}, req' = Hold(req, r, "running", w, l)
      PROVE  busy' \subseteq Workers /\ req' \in [Requests -> Call]
  <2>1. w \in Workers
    BY <1>1, <1>3 DEF Fit, Idle
  <2> QED
    BY <1>1, <1>3, <2>1, HoldType DEF Phase, Leased
<1>4. ASSUME NEW w \in Unused, workers' = [workers EXCEPT ![l] = @ \cup {w}],
             busy' = busy \cup {w}, req' = Hold(req, r, "starting", w, l)
      PROVE  /\ workers' \in [Lanes -> SUBSET Workers] /\ busy' \subseteq Workers
             /\ req' \in [Requests -> Call]
  <2>1. w \in Workers
    BY <1>4 DEF Unused
  <2> QED
    BY <1>1, <1>4, <2>1, HoldType DEF Phase, Leased
<1>5. ASSUME NextStage(r)
      PROVE  /\ req' \in [Requests -> Call] /\ waiters' \in [Lanes -> Seq(Requests)]
             /\ UNCHANGED <<workers, busy, worn, tasks>>
  BY <1>5, NextStageType DEF NextStage
<1> QED
  BY <1>1, <1>2, <1>3, <1>4, <1>5 DEF Attempt

-----------------------------------------------------------------------------
LEMMA TypeInit == Init => TypeOK
<1> SUFFICES ASSUME Init PROVE TypeOK
  OBVIOUS
<1>1. req \in [Requests -> Call]
  BY NoCallType DEF Init
<1>2. primed \subseteq Lanes /\ closed \in BOOLEAN /\ failures \in Nat
  BY PoolConstants DEF Init
<1>3. waiters \in [Lanes -> Seq(Requests)] /\ retiring \in [Lanes -> Nat]
  BY DEF Init
<1> QED
  BY <1>1, <1>2, <1>3 DEF Init, TypeOK

\* Every action keeps the types.
LEMMA TypeNext == TypeOK /\ [Next]_vars => TypeOK'
<1> SUFFICES ASSUME TypeOK, [Next]_vars PROVE TypeOK'
  OBVIOUS
<1> USE DEF TypeOK
<1>0. /\ workers \in [Lanes -> SUBSET Workers] /\ busy \subseteq Workers
      /\ worn \subseteq Workers /\ tasks \subseteq Task
      /\ req \in [Requests -> Call] /\ waiters \in [Lanes -> Seq(Requests)]
  OBVIOUS
<1> HIDE DEF TypeOK
<1>1. ASSUME NEW r \in Requests, Arrive(r)
      PROVE  TypeOK'
  <2>1. req' \in [Requests -> Call]
    <3>1. ASSUME NEW gone \in BOOLEAN
          PROVE  [phase |-> "entering", worker |-> NoWorker, lane |-> Home[r],
                  stage |-> 1, rest |-> {}, aborted |-> gone,
                  ahead |-> {q \in Requests : req[q].phase = "queued"}] \in Call
      BY PoolConstants DEF Call, Phase, Microtask
    <3> QED
      BY <3>1, <1>0, <1>1 DEF Arrive
  <2> QED
    BY <2>1, <1>1 DEF Arrive, TypeOK
<1>2. ASSUME NEW r \in Requests, Enter(r)
      PROVE  TypeOK'
  <2>1. workers[req[r].lane] \subseteq Workers
    BY <1>0 DEF Call
  <2>2. CASE req' = Leave(r) /\ UNCHANGED <<workers, busy, worn, waiters, tasks>>
    BY <2>2, <1>0, <1>2, LeavingType DEF Leave, Enter, TypeOK
  <2>3. CASE NextStage(r)
    BY <2>3, <1>2, NextStageType DEF NextStage, Enter, TypeOK
  <2>4. CASE Attempt(r, workers[req[r].lane])
    BY <2>1, <2>4, <1>2, AttemptType DEF Enter, TypeOK
  <2> QED
    BY <2>2, <2>3, <2>4, <1>2 DEF Enter
<1>3. ASSUME NEW r \in Requests, Resume(r)
      PROVE  TypeOK'
  <2>1. req[r].rest \subseteq Workers
    BY <1>0 DEF Call
  <2> QED
    BY <2>1, <1>3, AttemptType DEF Resume, TypeOK
<1>4. ASSUME NEW r \in Requests, Started(r)
      PROVE  TypeOK'
  BY <1>0, <1>4, PhaseType DEF Started, TypeOK, Phase, Leased
<1>5. ASSUME NEW r \in Requests, StartFailed(r)
      PROVE  TypeOK'
  <2>1. req[r].lane \in Lanes
    BY <1>0 DEF Call
  <2>2. req' \in [Requests -> Call]
    BY <2>1, <1>0, <1>5, GoesType DEF StartFailed, Phase, Closing
  <2> QED
    BY <2>1, <2>2, <1>5 DEF StartFailed, StartMayFail, TypeOK
<1>6. ASSUME NEW r \in Requests, ChildGone(r)
      PROVE  TypeOK'
  <2>1. req[r].lane \in Lanes
    BY <1>0 DEF Call
  <2>2. /\ [req EXCEPT ![r].phase = "resuming"] \in [Requests -> Call]
        /\ [req EXCEPT ![r].phase = "replenishing"] \in [Requests -> Call]
    BY <1>0, PhaseType DEF Phase, Microtask
  <2>3. Leave(r) \in [Requests -> Call]
    BY <1>0, LeavingType DEF Leave
  <2>4. PICK rq \in [Requests -> Call] : ServeWaiter(req[r].lane, busy, rq, tasks)
    BY <2>2, <2>3, <1>6 DEF ChildGone, Closing
  <2> QED
    BY <2>1, <2>4, <1>0, <1>6, ServeType DEF ChildGone, TypeOK
<1>7. ASSUME NEW r \in Requests, RunEnds(r)
      PROVE  TypeOK'
  <2> DEFINE l == req[r].lane
             w == req[r].worker
  <2>1. l \in Lanes
    BY <1>0 DEF Call
  <2>2. Leave(r) \in [Requests -> Call]
    BY <1>0, LeavingType DEF Leave
  <2>3. CASE w \notin workers[l]
    BY <2>1, <2>2, <2>3, <1>7 DEF RunEnds, WorkerBucket, TypeOK
  <2>4. CASE w \in workers[l] /\ Discards(w)
    <3>1. Goes(r, "releasing", l, 1, {}) \in [Requests -> Call]
      BY <2>1, <1>0, GoesType DEF Phase, Closing
    <3> QED
      BY <2>1, <2>4, <3>1, <1>7 DEF RunEnds, WorkerBucket, TypeOK
  <2>5. CASE w \in workers[l] /\ ~Discards(w)
    <3>1. ServeWaiter(l, busy \ {w}, Leave(r), tasks)
      BY <2>5, <1>7 DEF RunEnds, WorkerBucket
    <3>2. busy \ {w} \subseteq Workers
      BY <1>0
    <3> QED
      BY <2>1, <2>2, <2>5, <3>1, <3>2, <1>0, <1>7, ServeType
      DEF RunEnds, WorkerBucket, ScheduleTrim, TypeOK
  <2> QED
    BY <2>3, <2>4, <2>5
<1>8. ASSUME NEW r \in Requests, ReplenishAfterRelease(r)
      PROVE  TypeOK'
  <2> DEFINE l == req[r].lane
  <2>1. l \in Lanes /\ Leave(r) \in [Requests -> Call]
    BY <1>0, LeavingType DEF Leave, Call
  <2>2. CASE UNCHANGED waiters /\ \E n \in {DemandTarget(l) - Cardinality(workers[l])} :
               Spawn(l, n, "replenish", busy, Leave(r), tasks)
    BY <2>1, <2>2, <1>0, <1>8, SpawnType DEF ReplenishAfterRelease, TypeOK
  <2>3. CASE ServeWaiter(l, busy, Leave(r), tasks)
    BY <2>1, <2>3, <1>0, <1>8, ServeType DEF ReplenishAfterRelease, TypeOK
  <2> QED
    BY <2>2, <2>3, <1>8 DEF ReplenishAfterRelease
<1>9. ASSUME NEW r \in Requests, Abort(r) \/ QueueTimeout(r)
      PROVE  TypeOK'
  <2>1. Leave(r) \in [Requests -> Call]
    BY <1>0, LeavingType DEF Leave
  <2>2. [req EXCEPT ![r].aborted = TRUE] \in [Requests -> Call]
    BY <1>0, AbortedType
  <2> QED
    BY <2>1, <2>2, <1>9, DequeueType DEF Abort, QueueTimeout, TypeOK
<1>10. ASSUME NEW t \in tasks, TaskStep(t)
       PROVE  TypeOK'
  <2>1. PICK w \in t.pending \cup t.dead :
          TaskReady(t, w) \/ TaskStartFailed(t, w) \/ TaskRejects(t, w)
    BY <1>10 DEF TaskStep
  <2>2. /\ t.lane \in Lanes /\ t.kind \in {"ensure", "replenish"}
        /\ t.pending \subseteq Workers /\ t.dead \subseteq Workers
    BY <1>0 DEF Task
  <2>3. CASE TaskReady(t, w)
    <3>1. CASE ServeWaiter(t.lane, busy \ {w}, req, tasks \ {t})
      <4>1. busy \ {w} \subseteq Workers /\ tasks \ {t} \subseteq Task
        BY <1>0
      <4> QED
        BY <4>1, <3>1, <2>2, <2>3, <1>0, ServeType DEF TaskReady, TypeOK
    <3>2. CASE /\ busy' = busy \ {w}
               /\ tasks' = Replace(t, t.kind, t.pending \ {w}, t.dead)
               /\ UNCHANGED <<workers, waiters, req>>
      <4>1. tasks' \subseteq Task
        BY <3>2, <2>2, <1>0, ReplaceType
      <4> QED
        BY <4>1, <3>2, <2>3 DEF TaskReady, TypeOK
    <3> QED
      BY <3>1, <3>2, <2>3 DEF TaskReady
  <2>4. CASE TaskStartFailed(t, w)
    <3>1. tasks' \subseteq Task
      BY <2>2, <2>4, <1>0, ReplaceType DEF TaskStartFailed
    <3>2. workers' \in [Lanes -> SUBSET Workers] /\ busy' \subseteq Workers
      BY <1>0, <2>2, <2>4 DEF TaskStartFailed
    <3>3. failures' \in Nat
      BY <2>4 DEF TaskStartFailed, StartMayFail, TypeOK
    <3> QED
      BY <3>1, <3>2, <3>3, <2>4 DEF TaskStartFailed, TypeOK
  <2>5. CASE TaskRejects(t, w)
    <3>1. tasks' \subseteq Task
      BY <2>2, <2>5, <1>0, ReplaceType DEF TaskRejects
    <3>2. req' \in [Requests -> Call] /\ waiters' \in [Lanes -> Seq(Requests)]
      <4>1. CASE /\ waiters[t.lane] # <<>>
                 /\ req' = Leave(Head(waiters[t.lane]))
                 /\ waiters' = [waiters EXCEPT ![t.lane] = Tail(@)]
        <5>1. waiters[t.lane] \in Seq(Requests)
          BY <1>0, <2>2
        <5>2. Head(waiters[t.lane]) \in Requests /\ Tail(waiters[t.lane]) \in Seq(Requests)
          BY <4>1, <5>1, HeadTailProperties
        <5>3. Leave(Head(waiters[t.lane])) \in [Requests -> Call]
          BY <5>2, <1>0, LeavingType DEF Leave
        <5> QED
          BY <4>1, <5>2, <5>3, <1>0
      <4>2. CASE UNCHANGED <<req, waiters>>
        BY <4>2, <1>0
      <4> QED
        BY <4>1, <4>2, <2>5 DEF TaskRejects
    <3> QED
      BY <3>1, <3>2, <2>5 DEF TaskRejects, TypeOK
  <2> QED
    BY <2>1, <2>3, <2>4, <2>5
<1>11. ASSUME NEW l \in Lanes, Trim(l)
       PROVE  TypeOK'
  <2> DEFINE excess == Cardinality(workers[l])
                         - Larger(WarmFloor(l), Cardinality(workers[l] \cap busy))
  <2>1. excess \in Int
    BY CountTypes DEF Larger
  <2>2. CASE \E gone \in SUBSET Idle(l) :
               /\ workers' = [workers EXCEPT ![l] = @ \ gone]
               /\ worn' = worn \ gone
               /\ retiring' = [retiring EXCEPT ![l] = excess] /\ excess > 0
    BY <2>1, <2>2, <1>11 DEF Trim, TypeOK
  <2>3. CASE UNCHANGED <<workers, worn, retiring>>
    BY <2>3, <1>11 DEF Trim, TypeOK
  <2> QED
    BY <2>2, <2>3, <1>11 DEF Trim
<1>12. ASSUME NEW l \in Lanes, Retired(l)
       PROVE  TypeOK'
  <2>1. retiring' \in [Lanes -> Nat]
    BY <1>12 DEF Retired, OneGone, TypeOK
  <2>2. CASE \E n \in {WarmFloor(l) - Cardinality(workers[l])} :
               Spawn(l, n, "ensure", busy, req, tasks)
    BY <2>1, <2>2, <1>0, <1>12, SpawnType DEF Retired, TypeOK
  <2>3. CASE UNCHANGED <<workers, busy, req, tasks>>
    BY <2>1, <2>3, <1>12 DEF Retired, TypeOK
  <2> QED
    BY <2>2, <2>3, <1>12 DEF Retired
<1>13. ASSUME NEW l \in Lanes, Prime(l)
       PROVE  TypeOK'
  <2>1. CASE \E n \in {WarmFloor(l) - Cardinality(workers[l])} :
               Spawn(l, n, "ensure", busy, req, tasks)
    BY <2>1, <1>0, <1>13, SpawnType DEF Prime, TypeOK
  <2>2. CASE UNCHANGED <<workers, busy, req, tasks>>
    BY <2>2, <1>13 DEF Prime, TypeOK
  <2> QED
    BY <2>1, <2>2, <1>13 DEF Prime
<1>14. ASSUME NEW w \in Workers, WearOut(w)
       PROVE  TypeOK'
  BY <1>14 DEF WearOut, TypeOK
<1>15. ASSUME CloseAll
       PROVE  TypeOK'
  <2>1. {r \in Requests : req[r].phase = "queued"} \in SUBSET Requests
    OBVIOUS
  <2>2. req' \in [Requests -> Call]
    BY <2>1, <1>0, <1>15, LeavingType DEF CloseAll
  <2>3. waiters' \in [Lanes -> Seq(Requests)]
    BY <1>15 DEF CloseAll
  <2> QED
    BY <2>2, <2>3, <1>15 DEF CloseAll, TypeOK
<1>16. CASE UNCHANGED vars
  BY <1>16 DEF vars, TypeOK
<1> QED
  BY <1>1, <1>2, <1>3, <1>4, <1>5, <1>6, <1>7, <1>8, <1>9, <1>10, <1>11, <1>12,
     <1>13, <1>14, <1>15, <1>16 DEF Next, RequestStep

\* TypeOK: in every reachable state of execution-pool.ts's pool the buckets hold
\* workers, the queues hold requests, and every call is at a place of its way.
THEOREM TypeCorrect == Spec => []TypeOK
BY TypeInit, TypeNext, PTL DEF Spec

-----------------------------------------------------------------------------
(***************************************************************************)
(* Leases.  The inductive invariant speaks of the buckets ws, the busy     *)
(* flags bz, the calls rq and the continuations tk apart from the          *)
(* variables, because #serveWaiter starts from what its caller has already *)
(* changed.                                                                *)
(***************************************************************************)
Holder(rq) == {r \in Requests : rq[r].phase \in Leased}

LeaseInv(ws, bz, rq, tk) ==
  /\ \A r, q \in Holder(rq) : r # q => rq[r].worker # rq[q].worker
  /\ \A r \in Holder(rq), l \in Lanes : rq[r].worker \notin ws[l] \ bz
  /\ \A t \in tk, l \in Lanes : t.pending \cap (ws[l] \ bz) = {}
  /\ \A t \in tk, r \in Holder(rq) : rq[r].worker \notin t.pending
  /\ \A t, u \in tk : t # u => t.pending \cap u.pending = {}

KeptAlive(ws, rq) ==
  \A r \in Requests : rq[r].phase = "running" => rq[r].worker \in ws[rq[r].lane]

\* The calls of qr lease nothing that those of rq do not.
NoNewLease(qr, rq) ==
  \A r \in Holder(qr) :
    /\ r \in Holder(rq)
    /\ qr[r].worker = rq[r].worker /\ qr[r].lane = rq[r].lane
    /\ qr[r].phase = "running" => rq[r].phase = "running"

LEMMA LeaseShrinks ==
  ASSUME NEW ws, NEW bz, NEW rq, NEW tk, NEW wt, NEW bt, NEW rt, NEW tt,
         LeaseInv(ws, bz, rq, tk),
         NoNewLease(rt, rq), tt \subseteq tk,
         \A l \in Lanes : wt[l] \ bt \subseteq ws[l] \ bz
  PROVE  LeaseInv(wt, bt, rt, tt)
BY DEF LeaseInv, NoNewLease, Holder

LEMMA AliveShrinks ==
  ASSUME NEW ws, NEW rq, NEW wt, NEW rt,
         KeptAlive(ws, rq), NoNewLease(rt, rq),
         \A r \in Holder(rt) : rt[r].phase = "running" =>
           (rt[r].worker \in ws[rt[r].lane] => rt[r].worker \in wt[rt[r].lane])
  PROVE  KeptAlive(wt, rt)
BY DEF KeptAlive, NoNewLease, Holder, Leased

\* Settling calls gives leases up and grants none.
LEMMA LeavingNoLease ==
  ASSUME NEW rq \in [Requests -> Call], NEW rs \in SUBSET Requests
  PROVE  /\ NoNewLease(Leaving(rq, rs), rq)
         /\ \A r \in rs : Leaving(rq, rs)[r].phase = "out"
         /\ \A r \in Holder(Leaving(rq, rs)) : r \notin rs
<1>1. \A r \in rs : Leaving(rq, rs)[r].phase = "out"
  BY DEF Leaving, NoCall, CallAt
<1>2. \A r \in Requests \ rs :
        /\ Leaving(rq, rs)[r].phase = rq[r].phase
        /\ Leaving(rq, rs)[r].worker = rq[r].worker
        /\ Leaving(rq, rs)[r].lane = rq[r].lane
  BY DEF Leaving, Call
<1> QED
  BY <1>1, <1>2 DEF NoNewLease, Holder, Leased

\* A free worker is handed to a call: one that is idle, or a new one.
LEMMA LeaseGranted ==
  ASSUME NEW rq \in [Requests -> Call], NEW r \in Requests, NEW phase \in Leased,
         NEW w, NEW l \in Lanes, NEW ws, NEW bz, NEW tk, NEW wt,
         LeaseInv(ws, bz, rq, tk),
         \A q \in Holder(rq) : rq[q].worker # w,
         \A t \in tk : w \notin t.pending,
         \A k \in Lanes : wt[k] \subseteq ws[k] \cup {w}
  PROVE  LeaseInv(wt, bz \cup {w}, Hold(rq, r, phase, w, l), tk)
<1> DEFINE rt == Hold(rq, r, phase, w, l)
<1>1. /\ rt[r].worker = w
      /\ \A q \in Holder(rt) \ {r} : q \in Holder(rq) /\ rt[q].worker = rq[q].worker
  <2>1. Leaving(rq, {r}) \in [Requests -> Call]
    BY LeavingType
  <2>2. /\ rt[r] = CallAt(phase, w, l)
        /\ \A q \in Requests \ {r} : rt[q] = Leaving(rq, {r})[q]
    BY <2>1 DEF Hold
  <2>3. rt[r].worker = w
    BY <2>2 DEF CallAt
  <2>4. NoNewLease(Leaving(rq, {r}), rq)
    BY LeavingNoLease
  <2> QED
    BY <2>2, <2>3, <2>4 DEF NoNewLease, Holder
<1> HIDE DEF rt
<1>2. LeaseInv(wt, bz \cup {w}, rt, tk)
  BY <1>1 DEF LeaseInv
<1> QED
  BY <1>2 DEF rt

LEMMA AliveGranted ==
  ASSUME NEW rq \in [Requests -> Call], NEW r \in Requests, NEW phase \in Leased,
         NEW w, NEW l \in Lanes, NEW ws, NEW wt,
         KeptAlive(ws, rq), w \in wt[l], \A k \in Lanes : ws[k] \subseteq wt[k]
  PROVE  KeptAlive(wt, Hold(rq, r, phase, w, l))
<1> DEFINE rt == Hold(rq, r, phase, w, l)
<1>1. Leaving(rq, {r}) \in [Requests -> Call]
  BY LeavingType
<1>2. /\ rt[r] = CallAt(phase, w, l)
      /\ \A q \in Requests \ {r} : rt[q] = Leaving(rq, {r})[q]
  BY <1>1 DEF Hold
<1>3. rt[r].worker = w /\ rt[r].lane = l
  BY <1>2 DEF CallAt
<1>4. NoNewLease(Leaving(rq, {r}), rq)
  BY LeavingNoLease
<1>5. \A q \in Requests : rq[q].lane \in Lanes
  BY DEF Call
<1> HIDE DEF rt
<1>6. KeptAlive(wt, rt)
  <2> SUFFICES ASSUME NEW q \in Requests, rt[q].phase = "running"
               PROVE  rt[q].worker \in wt[rt[q].lane]
    BY DEF KeptAlive
  <2>1. CASE q = r
    BY <2>1, <1>3
  <2>2. CASE q # r
    <3>1. q \in Holder(Leaving(rq, {r})) /\ rt[q] = Leaving(rq, {r})[q]
      BY <2>2, <1>2 DEF Holder, Leased
    <3>2. rq[q].phase = "running" /\ rt[q].worker = rq[q].worker /\ rt[q].lane = rq[q].lane
      BY <3>1, <1>4 DEF NoNewLease
    <3> QED
      BY <3>2, <1>5 DEF KeptAlive
  <2> QED
    BY <2>1, <2>2
<1> QED
  BY <1>6 DEF rt

\* No call holds an unused identity, no continuation waits for one.
LEMMA UnusedIsFree ==
  /\ \A r \in Requests : req[r].worker \notin Unused
  /\ \A t \in tasks, w \in Unused : w \notin t.pending
<1> DEFINE A == UNION {workers[l] : l \in Lanes}
           B == UNION {t.pending \cup t.dead : t \in tasks}
           C == {req[r].worker : r \in Requests}
           D == UNION {req[r].rest : r \in Requests}
<1>1. Unused = Workers \ (A \cup B \cup C \cup D)
  BY DEF Unused
<1>2. \A r \in Requests : req[r].worker \in C
  OBVIOUS
<1>3. \A t \in tasks : t.pending \subseteq B
  OBVIOUS
<1> HIDE DEF A, B, C, D
<1> QED
  BY <1>1, <1>2, <1>3

\* #ensureSize: the new workers are unknown to everybody and marked busy.
LEMMA LeaseSpawned ==
  ASSUME workers \in [Lanes -> SUBSET Workers],
         NEW l \in Lanes, NEW n, NEW kind, NEW bz, NEW rq, NEW tk,
         LeaseInv(workers, bz, rq, tk), KeptAlive(workers, rq) \/ closed,
         NoNewLease(rq, req), tk \subseteq tasks,
         Spawn(l, n, kind, bz, rq, tk)
  PROVE  /\ LeaseInv(workers', busy', req', tasks')
         /\ KeptAlive(workers', req') \/ closed
<1>1. PICK new \in SUBSET Unused :
        /\ workers' = [workers EXCEPT ![l] = @ \cup new]
        /\ busy' = bz \cup new
        /\ req' = rq
        /\ tasks' = tk \cup {[kind |-> kind, lane |-> l, pending |-> new, dead |-> {}]}
  BY DEF Spawn
<1>2. \A r \in Holder(rq) : rq[r].worker \notin new
  <2>1. \A r \in Holder(rq) : rq[r].worker = req[r].worker /\ r \in Requests
    BY DEF NoNewLease, Holder
  <2> QED
    BY <2>1, UnusedIsFree
<1>6. \A t \in tk : t.pending \cap new = {}
  BY UnusedIsFree
<1>3. \A k \in Lanes : workers[k] \subseteq workers'[k] /\ workers'[k] \subseteq workers[k] \cup new
  BY <1>1
<1>4. LeaseInv(workers', busy', req', tasks')
  <2> DEFINE t0 == [kind |-> kind, lane |-> l, pending |-> new, dead |-> {}]
  <2>1. t0.pending = new /\ tasks' = tk \cup {t0}
    BY <1>1
  <2> HIDE DEF t0
  <2> QED
    BY <1>1, <1>2, <1>3, <1>6, <2>1 DEF LeaseInv
<1>5. KeptAlive(workers', req') \/ closed
  BY <1>1 DEF KeptAlive
<1> QED
  BY <1>4, <1>5

\* #serveWaiter grants an idle worker or starts new ones; neither disturbs the
\* leases that its caller left in rq.
LEMMA LeaseServed ==
  ASSUME TypeOK, NEW l \in Lanes, NEW bz, NEW rq \in [Requests -> Call], NEW tk,
         LeaseInv(workers, bz, rq, tk), KeptAlive(workers, rq) \/ closed,
         NoNewLease(rq, req), tk \subseteq tasks,
         ServeWaiter(l, bz, rq, tk)
  PROVE  /\ LeaseInv(workers', busy', req', tasks')
         /\ KeptAlive(workers', req') \/ closed
<1> DEFINE fit == (workers[l] \ bz) \ worn
           Prefix(n) == {waiters[l][i] : i \in 1..n}
<1>1. waiters[l] \in Seq(Requests) /\ workers \in [Lanes -> SUBSET Workers]
  BY DEF TypeOK
<1>2. ASSUME NEW n \in 0..Len(waiters[l])
      PROVE  /\ Leaving(rq, Prefix(n)) \in [Requests -> Call]
             /\ LeaseInv(workers, bz, Leaving(rq, Prefix(n)), tk)
             /\ KeptAlive(workers, Leaving(rq, Prefix(n))) \/ closed
  <2>1. Prefix(n) \in SUBSET Requests
    BY <1>1, <1>2
  <2> DEFINE qr == Leaving(rq, Prefix(n))
  <2>2. NoNewLease(qr, rq) /\ qr \in [Requests -> Call]
    BY <2>1, LeavingNoLease, LeavingType
  <2> HIDE DEF qr
  <2>3. LeaseInv(workers, bz, qr, tk)
    BY <2>2, LeaseShrinks
  <2>4. KeptAlive(workers, qr) \/ closed
    BY <2>2, AliveShrinks
  <2> QED
    BY <2>2, <2>3, <2>4 DEF qr
<1>3. ASSUME NEW w \in fit, NEW n \in Live(l),
             busy' = bz \cup {w},
             req' = Hold(Leaving(rq, Prefix(n - 1)), waiters[l][n], "running", w, l),
             tasks' = tk, UNCHANGED workers
      PROVE  /\ LeaseInv(workers', busy', req', tasks')
             /\ KeptAlive(workers', req') \/ closed
  <2>1. n - 1 \in 0..Len(waiters[l]) /\ waiters[l][n] \in Requests
    BY <1>1, <1>3 DEF Live
  <2> DEFINE qr == Leaving(rq, Prefix(n - 1))
  <2>2. /\ qr \in [Requests -> Call]
        /\ LeaseInv(workers, bz, qr, tk)
        /\ KeptAlive(workers, qr) \/ closed
    BY <2>1, <1>2
  <2>3. req' = Hold(qr, waiters[l][n], "running", w, l)
    BY <1>3
  <2> HIDE DEF qr
  <2>4. w \in workers[l] \ bz
    BY <1>3
  <2>5. /\ \A q \in Holder(qr) : qr[q].worker # w
        /\ \A t \in tk : w \notin t.pending
    BY <2>2, <2>4 DEF LeaseInv
  <2>6. LeaseInv(workers, bz \cup {w}, Hold(qr, waiters[l][n], "running", w, l), tk)
    BY <2>1, <2>2, <2>5, LeaseGranted DEF Leased
  <2>7. KeptAlive(workers, Hold(qr, waiters[l][n], "running", w, l)) \/ closed
    BY <2>1, <2>2, <2>4, AliveGranted DEF Leased
  <2> QED
    BY <2>3, <2>6, <2>7, <1>3
<1>4. ASSUME busy' = bz, req' = Leaving(rq, Prefix(Len(waiters[l]))),
             tasks' = tk, UNCHANGED workers
      PROVE  /\ LeaseInv(workers', busy', req', tasks')
             /\ KeptAlive(workers', req') \/ closed
  <2>1. Len(waiters[l]) \in 0..Len(waiters[l])
    BY <1>1
  <2> QED
    BY <2>1, <1>2, <1>4
<1>5. ASSUME NEW n, Spawn(l, n, "replenish", bz, rq, tk)
      PROVE  /\ LeaseInv(workers', busy', req', tasks')
             /\ KeptAlive(workers', req') \/ closed
  BY <1>1, <1>5, LeaseSpawned
<1>6. ASSUME busy' = bz, req' = rq, tasks' = tk, UNCHANGED workers
      PROVE  /\ LeaseInv(workers', busy', req', tasks')
             /\ KeptAlive(workers', req') \/ closed
  BY <1>6
<1> QED
  BY <1>3, <1>4, <1>5, <1>6 DEF ServeWaiter

\* A lease ends: only the worker w of the call r becomes idle or leaves a bucket.
LEMMA LeaseEnds ==
  ASSUME NEW rq, NEW r \in Holder(rq), NEW ws, NEW bz, NEW tk, NEW wt, NEW rt,
         LeaseInv(ws, bz, rq, tk), NoNewLease(rt, rq), r \notin Holder(rt),
         \A l \in Lanes : /\ wt[l] \subseteq ws[l]
                          /\ ws[l] \ {rq[r].worker} \subseteq wt[l],
         \A q \in Requests : rt[q].lane \in Lanes
  PROVE  /\ LeaseInv(wt, bz \ {rq[r].worker}, rt, tk)
         /\ KeptAlive(ws, rq) => KeptAlive(wt, rt)
<1>1. \A q \in Holder(rt) : /\ q \in Holder(rq) /\ q # r
                            /\ rt[q].worker = rq[q].worker /\ rt[q].lane = rq[q].lane
                            /\ rt[q].worker # rq[r].worker
  BY DEF NoNewLease, LeaseInv
<1>2. LeaseInv(wt, bz \ {rq[r].worker}, rt, tk)
  BY <1>1 DEF LeaseInv
<1>3. ASSUME KeptAlive(ws, rq)
      PROVE  KeptAlive(wt, rt)
  <2> SUFFICES ASSUME NEW q \in Requests, rt[q].phase = "running"
               PROVE  rt[q].worker \in wt[rt[q].lane]
    BY DEF KeptAlive
  <2>1. q \in Holder(rt)
    BY DEF Holder, Leased
  <2>2. rq[q].worker \in ws[rq[q].lane]
    BY <1>3, <2>1 DEF NoNewLease, KeptAlive
  <2> QED
    BY <1>1, <2>1, <2>2
<1> QED
  BY <1>2, <1>3

\* A continuation goes on with fewer workers under construction: those that are
\* done become idle or leave their bucket.
LEMMA PendingEnds ==
  ASSUME NEW ws, NEW bz, NEW rq, NEW tk, NEW t \in tk, NEW done \in SUBSET t.pending,
         NEW wt, NEW u0, NEW tt \in SUBSET ((tk \ {t}) \cup {u0}),
         LeaseInv(ws, bz, rq, tk),
         u0.pending \subseteq t.pending \ done,
         \A l \in Lanes : wt[l] \subseteq ws[l]
  PROVE  LeaseInv(wt, bz \ done, rq, tt)
<1>1. \A u \in tt : \E v \in tk :
        /\ u.pending \subseteq v.pending
        /\ v # t => u = v
        /\ v = t => u = u0
  OBVIOUS
<1>2. \A u \in tt : u.pending \cap done = {}
  BY <1>1 DEF LeaseInv
<1>3. \A u, v \in tt : u # v => u.pending \cap v.pending = {}
  BY <1>1 DEF LeaseInv
<1>4. \A u \in tt, r \in Holder(rq) : rq[r].worker \notin u.pending
  BY <1>1 DEF LeaseInv
<1>5. \A u \in tt, l \in Lanes : u.pending \cap (wt[l] \ (bz \ done)) = {}
  BY <1>1, <1>2 DEF LeaseInv
<1>6. \A r \in Holder(rq), l \in Lanes : rq[r].worker \notin wt[l] \ (bz \ done)
  BY DEF LeaseInv
<1> QED
  BY <1>3, <1>4, <1>5, <1>6 DEF LeaseInv

\* A call that goes on without a worker leases none.
LEMMA GoesNoLease ==
  ASSUME req \in [Requests -> Call], NEW r \in Requests, NEW phase \in Phase \ Leased,
         NEW l, NEW stage, NEW rest
  PROVE  /\ NoNewLease(Goes(r, phase, l, stage, rest), req)
         /\ r \notin Holder(Goes(r, phase, l, stage, rest))
<1> DEFINE rt == Goes(r, phase, l, stage, rest)
<1>1. /\ rt[r].phase = phase
      /\ \A q \in Requests \ {r} : rt[q] = req[q]
  BY DEF Goes
<1> HIDE DEF rt
<1>2. NoNewLease(rt, req) /\ r \notin Holder(rt)
  BY <1>1 DEF NoNewLease, Holder
<1> QED
  BY <1>2 DEF rt

LEMMA PhaseNoLease ==
  ASSUME req \in [Requests -> Call], NEW r \in Requests, NEW phase \in Phase \ Leased
  PROVE  /\ NoNewLease([req EXCEPT ![r].phase = phase], req)
         /\ r \notin Holder([req EXCEPT ![r].phase = phase])
<1> DEFINE rt == [req EXCEPT ![r].phase = phase]
<1>1. /\ rt[r].phase = phase
      /\ \A q \in Requests \ {r} : rt[q] = req[q]
  BY DEF Call
<1> HIDE DEF rt
<1>2. NoNewLease(rt, req) /\ r \notin Holder(rt)
  BY <1>1 DEF NoNewLease, Holder
<1> QED
  BY <1>2 DEF rt

-----------------------------------------------------------------------------
LeaseState ==
  /\ LeaseInv(workers, busy, req, tasks)
  /\ KeptAlive(workers, req) \/ closed

\* Nothing that leases depend on changes but calls that give theirs up.
LEMMA LeaseKept ==
  ASSUME LeaseState, NoNewLease(req', req),
         UNCHANGED <<workers, busy, tasks>>, closed' = closed
  PROVE  LeaseState'
<1>1. LeaseInv(workers', busy', req', tasks')
  BY LeaseShrinks DEF LeaseState
<1>2. KeptAlive(workers', req') \/ closed'
  BY AliveShrinks DEF LeaseState
<1> QED
  BY <1>1, <1>2 DEF LeaseState

LEMMA LeaseNextStage ==
  ASSUME TypeOK, LeaseState, NEW r \in Requests, NextStage(r), closed' = closed
  PROVE  LeaseState'
<1>1. req \in [Requests -> Call]
  BY DEF TypeOK
<1>2. NoNewLease(Leave(r), req)
  BY <1>1, LeavingNoLease DEF Leave
<1>3. /\ NoNewLease(Goes(r, "entering", Lender[Home[r]], 2, {}), req)
      /\ NoNewLease(Goes(r, "entering", Home[r], 3, {}), req)
      /\ NoNewLease(Goes(r, "queued", Home[r], 1, {}), req)
  BY <1>1, GoesNoLease DEF Phase, Microtask, Leased
<1> QED
  BY <1>2, <1>3, LeaseKept DEF NextStage

LEMMA LeaseAttempt ==
  ASSUME TypeOK, LeaseState, NEW r \in Requests, NEW rest, Attempt(r, rest),
         closed' = closed
  PROVE  LeaseState'
<1> DEFINE l == req[r].lane
<1>1. /\ req \in [Requests -> Call] /\ workers \in [Lanes -> SUBSET Workers]
      /\ l \in Lanes
  BY DEF TypeOK, Call
<1>2. ASSUME NEW w \in Stale(l, rest),
             workers' = [workers EXCEPT ![l] = @ \ {w}],
             req' = Goes(r, "discarding", l, req[r].stage, rest \ {w}),
             UNCHANGED <<busy, tasks>>
      PROVE  LeaseState'
  <2>1. NoNewLease(req', req)
    BY <1>1, <1>2, GoesNoLease DEF Phase, Closing, Leased
  <2>2. \A k \in Lanes : /\ workers'[k] \subseteq workers[k]
                         /\ workers[k] \ {w} \subseteq workers'[k]
    BY <1>1, <1>2
  <2>3. \A q \in Holder(req) : req[q].worker # w
    BY <1>1, <1>2 DEF LeaseState, LeaseInv, Stale, Idle
  <2>4. LeaseInv(workers', busy', req', tasks')
    <3>1. \A k \in Lanes : workers'[k] \ busy' \subseteq workers[k] \ busy
      BY <1>2, <2>2
    <3>2. tasks' \subseteq tasks
      BY <1>2
    <3> QED
      BY <2>1, <3>1, <3>2, LeaseShrinks DEF LeaseState
  <2>5. \A q \in Holder(req') : /\ q \in Holder(req) /\ req'[q].lane \in Lanes
                                /\ req'[q].worker # w
    BY <1>1, <2>1, <2>3 DEF NoNewLease, Holder, Call
  <2>6. KeptAlive(workers', req') \/ closed'
    BY <2>1, <2>2, <2>5, AliveShrinks DEF LeaseState
  <2> QED
    BY <2>4, <2>6 DEF LeaseState
<1>3. ASSUME NEW w \in Fit(l), busy' = busy \cup {w}, req' = Hold(req, r, "running", w, l),
             UNCHANGED <<workers, tasks>>
      PROVE  LeaseState'
  <2>1. w \in workers[l] \ busy
    BY <1>3 DEF Fit, Idle
  <2>2. /\ \A q \in Holder(req) : req[q].worker # w
        /\ \A t \in tasks : w \notin t.pending
    BY <1>1, <2>1 DEF LeaseState, LeaseInv
  <2>3. LeaseInv(workers, busy \cup {w}, Hold(req, r, "running", w, l), tasks)
    BY <1>1, <2>2, LeaseGranted DEF LeaseState, Leased
  <2>4. KeptAlive(workers, Hold(req, r, "running", w, l)) \/ closed
    BY <1>1, <2>1, AliveGranted DEF LeaseState, Leased
  <2> QED
    BY <1>3, <2>3, <2>4 DEF LeaseState
<1>4. ASSUME NEW w \in Unused, workers' = [workers EXCEPT ![l] = @ \cup {w}],
             busy' = busy \cup {w}, req' = Hold(req, r, "starting", w, l),
             UNCHANGED tasks
      PROVE  LeaseState'
  <2>1. \A k \in Lanes : /\ workers[k] \subseteq workers'[k]
                         /\ workers'[k] \subseteq workers[k] \cup {w}
    BY <1>1, <1>4
  <2>2. w \in workers'[l]
    BY <1>1, <1>4
  <2>3. /\ \A q \in Holder(req) : req[q].worker # w
        /\ \A t \in tasks : w \notin t.pending
    BY UnusedIsFree DEF Holder
  <2>4. LeaseInv(workers', busy \cup {w}, Hold(req, r, "starting", w, l), tasks)
    BY <1>1, <2>1, <2>3, LeaseGranted DEF LeaseState, Leased
  <2>5. KeptAlive(workers', Hold(req, r, "starting", w, l)) \/ closed
    BY <1>1, <2>1, <2>2, AliveGranted DEF LeaseState, Leased
  <2> QED
    BY <1>4, <2>4, <2>5 DEF LeaseState
<1> QED
  BY <1>2, <1>3, <1>4, LeaseNextStage DEF Attempt

\* The leases a step of #serveWaiter leaves, in terms of its caller's updates.
LEMMA LeaseServedHere ==
  ASSUME TypeOK, LeaseState, NEW l \in Lanes, NEW bz, NEW rq \in [Requests -> Call],
         NEW tk, LeaseInv(workers, bz, rq, tk), NoNewLease(rq, req), tk \subseteq tasks,
         \/ ServeWaiter(l, bz, rq, tk)
         \/ \E n \in Int : Spawn(l, n, "replenish", bz, rq, tk),
         closed' = closed
  PROVE  LeaseState'
<1>1. KeptAlive(workers, rq) \/ closed
  BY AliveShrinks DEF LeaseState
<1>2. workers \in [Lanes -> SUBSET Workers]
  BY DEF TypeOK
<1> QED
  BY <1>1, <1>2, LeaseServed, LeaseSpawned DEF LeaseState

LEMMA LeaseInit == Init => LeaseState
BY DEF Init, LeaseState, LeaseInv, KeptAlive, Holder, Leased, NoCall, CallAt

LEMMA LeaseNext == TypeOK /\ LeaseState /\ [Next]_vars => LeaseState'
<1> SUFFICES ASSUME TypeOK, LeaseState, [Next]_vars PROVE LeaseState'
  OBVIOUS
<1>0. /\ workers \in [Lanes -> SUBSET Workers] /\ req \in [Requests -> Call]
      /\ waiters \in [Lanes -> Seq(Requests)] /\ tasks \subseteq Task
      /\ \A r \in Requests : req[r].lane \in Lanes /\ req[r].phase \in Phase
  BY DEF TypeOK, Call
<1>0a. \A r \in Requests : NoNewLease(Leave(r), req) /\ r \notin Holder(Leave(r))
  BY <1>0, LeavingNoLease DEF Leave
<1>0b. \A r \in Requests : Leave(r) \in [Requests -> Call]
  BY <1>0, LeavingType DEF Leave
<1>0c. NoNewLease(req, req)
  BY DEF NoNewLease
<1>1. ASSUME NEW r \in Requests, Arrive(r)
      PROVE  LeaseState'
  <2>1. /\ req'[r].phase = "entering"
        /\ \A q \in Requests \ {r} : req'[q] = req[q]
    BY <1>0, <1>1 DEF Arrive
  <2>2. NoNewLease(req', req)
    BY <2>1 DEF NoNewLease, Holder, Leased
  <2> QED
    BY <2>2, <1>1, LeaseKept DEF Arrive
<1>2. ASSUME NEW r \in Requests, Enter(r)
      PROVE  LeaseState'
  <2>1. CASE req' = Leave(r) /\ UNCHANGED <<workers, busy, worn, waiters, tasks>>
    BY <2>1, <1>0a, <1>2, LeaseKept DEF Enter
  <2> QED
    BY <2>1, <1>2, LeaseNextStage, LeaseAttempt DEF Enter
<1>3. ASSUME NEW r \in Requests, Resume(r)
      PROVE  LeaseState'
  BY <1>3, LeaseAttempt DEF Resume
<1>4. ASSUME NEW r \in Requests, Started(r)
      PROVE  LeaseState'
  <2>1. /\ req'[r].phase = "running" /\ req'[r].worker = req[r].worker
        /\ req'[r].lane = req[r].lane
        /\ \A q \in Requests \ {r} : req'[q] = req[q]
    BY <1>0, <1>4 DEF Started, Call
  <2>2. \A q \in Holder(req') : q \in Holder(req) /\ req'[q].worker = req[q].worker
    BY <1>4, <2>1 DEF Started, Holder, Leased
  <2>3. LeaseInv(workers', busy', req', tasks')
    <3>1. LeaseInv(workers, busy, req', tasks)
      BY <2>2 DEF LeaseState, LeaseInv
    <3> QED
      BY <3>1, <1>4 DEF Started
  <2>4. KeptAlive(workers', req') \/ closed'
    BY <2>1, <1>4 DEF Started, LeaseState, KeptAlive
  <2> QED
    BY <2>3, <2>4 DEF LeaseState
<1>5. ASSUME NEW r \in Requests, StartFailed(r)
      PROVE  LeaseState'
  <2>1. NoNewLease(req', req) /\ r \notin Holder(req')
    BY <1>0, <1>5, GoesNoLease DEF StartFailed, Phase, Closing, Leased
  <2>2. req' \in [Requests -> Call]
    BY <1>0, <1>5, GoesType DEF StartFailed, Phase, Closing
  <2>3. r \in Holder(req)
    BY <1>5 DEF StartFailed, Holder, Leased
  <2>4. \A k \in Lanes : /\ workers'[k] \subseteq workers[k]
                         /\ workers[k] \ {req[r].worker} \subseteq workers'[k]
    BY <1>0, <1>5 DEF StartFailed
  <2>5. \A q \in Requests : req'[q].lane \in Lanes
    BY <2>2 DEF Call
  <2>6. /\ LeaseInv(workers', busy \ {req[r].worker}, req', tasks)
        /\ KeptAlive(workers, req) => KeptAlive(workers', req')
    BY <2>1, <2>3, <2>4, <2>5, LeaseEnds DEF LeaseState
  <2> QED
    BY <2>6, <1>5 DEF StartFailed, LeaseState
<1>6. ASSUME NEW r \in Requests, ChildGone(r)
      PROVE  LeaseState'
  <2>1. /\ NoNewLease([req EXCEPT ![r].phase = "resuming"], req)
        /\ NoNewLease([req EXCEPT ![r].phase = "replenishing"], req)
    BY <1>0, PhaseNoLease DEF Phase, Microtask, Leased
  <2>2. /\ [req EXCEPT ![r].phase = "resuming"] \in [Requests -> Call]
        /\ [req EXCEPT ![r].phase = "replenishing"] \in [Requests -> Call]
    BY <1>0, PhaseType DEF Phase, Microtask
  <2>3. PICK rq \in [Requests -> Call] :
          NoNewLease(rq, req) /\ ServeWaiter(req[r].lane, busy, rq, tasks)
    BY <2>1, <2>2, <1>0a, <1>0b, <1>6 DEF ChildGone, Closing
  <2>4. LeaseInv(workers, busy, rq, tasks)
    BY <2>3, LeaseShrinks DEF LeaseState
  <2> QED
    BY <2>3, <2>4, <1>0, <1>6, LeaseServedHere DEF ChildGone
<1>7. ASSUME NEW r \in Requests, RunEnds(r)
      PROVE  LeaseState'
  <2> DEFINE l == req[r].lane
             w == req[r].worker
  <2>1. r \in Holder(req)
    BY <1>7 DEF RunEnds, Holder, Leased
  <2>2. CASE w \notin workers[l]
    BY <2>2, <1>0a, <1>7, LeaseKept DEF RunEnds, WorkerBucket
  <2>3. CASE w \in workers[l] /\ Discards(w)
    <3>1. req' = Goes(r, "releasing", l, 1, {})
      BY <2>3, <1>7 DEF RunEnds, WorkerBucket
    <3>2. NoNewLease(req', req) /\ r \notin Holder(req')
      BY <3>1, <1>0, GoesNoLease DEF Phase, Closing, Leased
    <3>3. \A q \in Requests : req'[q].lane \in Lanes
      <4>1. req' \in [Requests -> Call]
        BY <3>1, <1>0, GoesType DEF Phase, Closing
      <4> QED
        BY <4>1 DEF Call
    <3>4. \A k \in Lanes : /\ workers'[k] \subseteq workers[k]
                           /\ workers[k] \ {req[r].worker} \subseteq workers'[k]
      BY <2>3, <1>0, <1>7 DEF RunEnds, WorkerBucket
    <3>5. /\ LeaseInv(workers', busy \ {req[r].worker}, req', tasks)
          /\ KeptAlive(workers, req) => KeptAlive(workers', req')
      BY <2>1, <3>2, <3>3, <3>4, LeaseEnds DEF LeaseState
    <3> QED
      BY <3>5, <2>3, <1>7 DEF RunEnds, WorkerBucket, LeaseState
  <2>4. CASE w \in workers[l] /\ ~Discards(w)
    <3>1. ServeWaiter(l, busy \ {w}, Leave(r), tasks)
      BY <2>4, <1>7 DEF RunEnds, WorkerBucket
    <3>2. \A q \in Requests : Leave(r)[q].lane \in Lanes
      BY <1>0b DEF Call
    <3>3. LeaseInv(workers, busy \ {w}, Leave(r), tasks)
      BY <2>1, <3>2, <1>0a, LeaseEnds DEF LeaseState
    <3> QED
      BY <3>1, <3>3, <1>0, <1>0a, <1>0b, <1>7, LeaseServedHere DEF RunEnds
  <2> QED
    BY <2>2, <2>3, <2>4
<1>8. ASSUME NEW r \in Requests, ReplenishAfterRelease(r)
      PROVE  LeaseState'
  <2> DEFINE l == req[r].lane
  <2>1. DemandTarget(l) - Cardinality(workers[l]) \in Int
    <3>1. Len(waiters[l]) \in Nat
      BY <1>0
    <3>2. /\ TargetSize(l) \in Nat /\ WarmFloor(l) \in Nat
          /\ Cardinality(workers[l]) \in Nat
      BY <1>0, CountTypes
    <3> QED
      BY <3>1, <3>2 DEF DemandTarget, Smaller, Larger
  <2>2. \/ ServeWaiter(l, busy, Leave(r), tasks)
        \/ \E n \in Int : Spawn(l, n, "replenish", busy, Leave(r), tasks)
    BY <2>1, <1>8 DEF ReplenishAfterRelease
  <2>3. LeaseInv(workers, busy, Leave(r), tasks)
    BY <1>0a, LeaseShrinks DEF LeaseState
  <2> QED
    BY <2>2, <2>3, <1>0, <1>0a, <1>0b, <1>8, LeaseServedHere DEF ReplenishAfterRelease
<1>9. ASSUME NEW r \in Requests, Abort(r) \/ QueueTimeout(r)
      PROVE  LeaseState'
  <2>1. CASE req' = Leave(r)
    BY <2>1, <1>0a, <1>9, LeaseKept DEF Abort, QueueTimeout
  <2>2. CASE req' = [req EXCEPT ![r].aborted = TRUE]
    <3>1. \A q \in Requests : /\ req'[q].phase = req[q].phase
                              /\ req'[q].worker = req[q].worker
                              /\ req'[q].lane = req[q].lane
      BY <2>2, <1>0 DEF Call
    <3>2. NoNewLease(req', req)
      BY <3>1 DEF NoNewLease, Holder
    <3> QED
      BY <3>2, <1>9, LeaseKept DEF Abort, QueueTimeout
  <2> QED
    BY <2>1, <2>2, <1>9 DEF Abort, QueueTimeout
<1>10. ASSUME NEW t \in tasks, TaskStep(t)
       PROVE  LeaseState'
  <2>1. PICK w \in t.pending \cup t.dead :
          TaskReady(t, w) \/ TaskStartFailed(t, w) \/ TaskRejects(t, w)
    BY <1>10 DEF TaskStep
  <2>2. t.lane \in Lanes
    BY <1>0 DEF Task
  \* What Replace leaves of the continuation t, with fewer workers to wait for.
  <2>3. ASSUME NEW done \in SUBSET t.pending, NEW kind, NEW dead, NEW wt,
               \A k \in Lanes : wt[k] \subseteq workers[k]
        PROVE  LeaseInv(wt, busy \ done, req, Replace(t, kind, t.pending \ done, dead))
    <3> DEFINE u0 == [kind |-> kind, lane |-> t.lane,
                      pending |-> t.pending \ done, dead |-> dead]
    <3>1. u0.pending = t.pending \ done
      OBVIOUS
    <3>2. Replace(t, kind, t.pending \ done, dead) \in SUBSET ((tasks \ {t}) \cup {u0})
      BY DEF Replace
    <3> HIDE DEF u0
    <3> QED
      BY <2>3, <3>1, <3>2, PendingEnds DEF LeaseState
  <2>4. CASE TaskReady(t, w)
    <3>1. w \in t.pending
      BY <2>4 DEF TaskReady
    <3>2. CASE ServeWaiter(t.lane, busy \ {w}, req, tasks \ {t})
      <4> DEFINE u0 == [pending |-> {}]
      <4>1. u0.pending = {}
        OBVIOUS
      <4> HIDE DEF u0
      <4>2. LeaseInv(workers, busy \ {w}, req, tasks \ {t})
        BY <3>1, <4>1, PendingEnds DEF LeaseState
      <4> QED
        BY <3>2, <4>2, <2>2, <2>4, <1>0, <1>0c, LeaseServedHere DEF TaskReady
    <3>3. CASE /\ busy' = busy \ {w}
               /\ tasks' = Replace(t, t.kind, t.pending \ {w}, t.dead)
               /\ UNCHANGED <<workers, waiters, req>>
      <4>1. LeaseInv(workers, busy \ {w}, req, Replace(t, t.kind, t.pending \ {w}, t.dead))
        BY <3>1, <2>3
      <4> QED
        BY <4>1, <3>3, <2>4 DEF TaskReady, LeaseState
    <3> QED
      BY <3>2, <3>3, <2>4 DEF TaskReady
  <2>5. CASE TaskStartFailed(t, w)
    <3>1. w \in t.pending
      BY <2>5 DEF TaskStartFailed
    <3>2. \A k \in Lanes : /\ workers'[k] \subseteq workers[k]
                           /\ workers[k] \ {w} \subseteq workers'[k]
      BY <1>0, <2>5 DEF TaskStartFailed
    <3>3. LeaseInv(workers', busy \ {w}, req,
                   Replace(t, t.kind, t.pending \ {w}, t.dead \cup {w}))
      BY <3>1, <3>2, <2>3
    <3>4. \A r \in Holder(req) : req[r].worker # w
      BY <3>1 DEF LeaseState, LeaseInv
    <3>5. KeptAlive(workers', req) \/ closed
      BY <3>2, <3>4, <1>0 DEF LeaseState, KeptAlive, Holder, Leased
    <3> QED
      BY <3>3, <3>5, <2>5 DEF TaskStartFailed, LeaseState
  <2>6. CASE TaskRejects(t, w)
    <3>1. LeaseInv(workers, busy, req, tasks')
      <4>1. LeaseInv(workers, busy \ {}, req,
                     Replace(t, "ensure", t.pending \ {}, t.dead \ {w}))
        BY <2>3
      <4>2. busy \ {} = busy /\ t.pending \ {} = t.pending
        OBVIOUS
      <4> QED
        BY <4>1, <4>2, <2>6 DEF TaskRejects
    <3>2. NoNewLease(req', req)
      <4>1. CASE waiters[t.lane] # <<>> /\ req' = Leave(Head(waiters[t.lane]))
        <5>1. Head(waiters[t.lane]) \in Requests
          BY <4>1, <1>0, <2>2, HeadTailProperties
        <5> QED
          BY <4>1, <5>1, <1>0a
      <4> QED
        BY <4>1, <1>0c, <2>6 DEF TaskRejects
    <3>3. LeaseInv(workers, busy, req', tasks')
      BY <3>1, <3>2, LeaseShrinks
    <3>4. KeptAlive(workers, req') \/ closed
      BY <3>2, AliveShrinks DEF LeaseState
    <3> QED
      BY <3>3, <3>4, <2>6 DEF TaskRejects, LeaseState
  <2> QED
    BY <2>1, <2>4, <2>5, <2>6
<1>11. ASSUME NEW l \in Lanes, Trim(l)
       PROVE  LeaseState'
  <2>1. PICK gone \in SUBSET Idle(l) : workers' = [workers EXCEPT ![l] = @ \ gone]
    <3>1. CASE UNCHANGED workers
      <4>1. workers' = [workers EXCEPT ![l] = @ \ {}]
        BY <3>1, <1>0
      <4> QED
        BY <4>1
    <3> QED
      BY <3>1, <1>11 DEF Trim
  <2>2. \A k \in Lanes : workers'[k] \subseteq workers[k]
    BY <2>1, <1>0
  <2>3. UNCHANGED <<busy, req, tasks, closed>>
    BY <1>11 DEF Trim
  <2>4. LeaseInv(workers', busy, req, tasks)
    BY <2>2, <1>0c, LeaseShrinks DEF LeaseState
  <2>5. \A r \in Holder(req) : req[r].worker \notin gone
    BY <2>1 DEF LeaseState, LeaseInv, Idle
  <2>6. KeptAlive(workers', req) \/ closed
    BY <2>1, <2>5, <1>0 DEF LeaseState, KeptAlive, Holder, Leased
  <2> QED
    BY <2>3, <2>4, <2>6 DEF LeaseState
<1>12. ASSUME NEW l \in Lanes, Retired(l) \/ Prime(l)
       PROVE  LeaseState'
  <2>1. CASE \E n : Spawn(l, n, "ensure", busy, req, tasks)
    BY <2>1, <1>0, <1>0c, <1>12, LeaseSpawned DEF Retired, Prime, LeaseState
  <2>2. CASE UNCHANGED <<workers, busy, req, tasks>>
    BY <2>2, <1>12 DEF Retired, Prime, LeaseState
  <2> QED
    BY <2>1, <2>2, <1>12 DEF Retired, Prime
<1>13. ASSUME NEW w \in Workers, WearOut(w)
       PROVE  LeaseState'
  BY <1>13 DEF WearOut, LeaseState
<1>14. ASSUME CloseAll
       PROVE  LeaseState'
  <2>1. NoNewLease(req', req)
    BY <1>0, <1>14, LeavingNoLease DEF CloseAll
  <2>2. \A k \in Lanes : workers'[k] \ busy' \subseteq workers[k] \ busy
    BY <1>14 DEF CloseAll
  <2>3. tasks' \subseteq tasks /\ closed'
    BY <1>14 DEF CloseAll
  <2>4. LeaseInv(workers', busy', req', tasks')
    BY <2>1, <2>2, <2>3, LeaseShrinks DEF LeaseState
  <2> QED
    BY <2>3, <2>4 DEF LeaseState
<1>15. CASE UNCHANGED vars
  BY <1>15 DEF vars, LeaseState
<1> QED
  BY <1>1, <1>2, <1>3, <1>4, <1>5, <1>6, <1>7, <1>8, <1>9, <1>10, <1>11, <1>12,
     <1>13, <1>14, <1>15 DEF Next, RequestStep

\* ExclusiveLease: whatever the interleaving of acquisitions, hand-overs,
\* recycling, warm-up, retirement and shutdown in execution-pool.ts, no two calls
\* hold the same worker and no held worker is idle in a bucket.
THEOREM LeasesExclusive == Spec => []ExclusiveLease
<1>1. LeaseState => ExclusiveLease
  BY DEF LeaseState, LeaseInv, ExclusiveLease, Holder, Idle
<1> QED
  BY <1>1, LeaseInit, LeaseNext, TypeInit, TypeNext, PTL DEF Spec

\* LeaseKeptAlive: an open pool of execution-pool.ts never drops a worker from
\* its bucket while a request runs on it.
THEOREM LeasesKeptAlive == Spec => []LeaseKeptAlive
<1>1. LeaseState => LeaseKeptAlive
  BY DEF LeaseState, LeaseKeptAlive, KeptAlive
<1> QED
  BY <1>1, LeaseInit, LeaseNext, TypeInit, TypeNext, PTL DEF Spec

-----------------------------------------------------------------------------
(***************************************************************************)
(* The physical ceiling: CeilingRespected is inductive, because every      *)
(* #ensureSize aims at a target of at most targetSize and counts the       *)
(* workers under construction.                                             *)
(***************************************************************************)
\* Taking workers out of a bucket keeps the ceiling.
LEMMA CeilingShrinks ==
  ASSUME TypeOK, CeilingRespected,
         \A l \in Lanes : workers'[l] \subseteq workers[l]
  PROVE  CeilingRespected'
<1> SUFFICES ASSUME NEW l \in Lanes
             PROVE  Cardinality(workers'[l]) <= TargetSize(l)
  BY DEF CeilingRespected, TargetSize
<1>1. IsFiniteSet(workers[l]) /\ Cardinality(workers[l]) \in Nat /\ TargetSize(l) \in Nat
  BY CountTypes
<1>2. Cardinality(workers'[l]) <= Cardinality(workers[l]) /\ Cardinality(workers'[l]) \in Nat
  BY <1>1, FS_Subset, FS_CardinalityType
<1> QED
  BY <1>1, <1>2 DEF CeilingRespected

\* So does adding no more than there is room for.
LEMMA CeilingGrows ==
  ASSUME TypeOK, CeilingRespected, NEW l \in Lanes, NEW new \in SUBSET Workers,
         workers' = [workers EXCEPT ![l] = @ \cup new],
         Cardinality(new) <= TargetSize(l) - Cardinality(workers[l])
  PROVE  CeilingRespected'
<1>1. workers \in [Lanes -> SUBSET Workers]
  BY DEF TypeOK
<1>2. /\ IsFiniteSet(workers[l]) /\ Cardinality(workers[l]) \in Nat
      /\ TargetSize(l) \in Nat
  BY CountTypes
<1>3. IsFiniteSet(new) /\ Cardinality(new) \in Nat
  BY PoolConstants, FS_Subset, FS_CardinalityType
<1>4. Cardinality(workers[l] \cup new) <= Cardinality(workers[l]) + Cardinality(new)
  <2>1. /\ Cardinality(workers[l] \cup new) =
             Cardinality(workers[l]) + Cardinality(new) - Cardinality(workers[l] \cap new)
        /\ IsFiniteSet(workers[l] \cap new)
    BY <1>2, <1>3, FS_Union, FS_Intersection
  <2>2. Cardinality(workers[l] \cap new) \in Nat
    BY <2>1, FS_CardinalityType
  <2> QED
    BY <2>1, <2>2, <1>2, <1>3
<1>5. IsFiniteSet(workers[l] \cup new) /\ Cardinality(workers[l] \cup new) \in Nat
  BY <1>2, <1>3, FS_Union, FS_CardinalityType
<1>6. Cardinality(workers'[l]) <= TargetSize(l)
  <2>1. workers'[l] = workers[l] \cup new
    BY <1>1
  <2>2. Cardinality(workers[l] \cup new) <= TargetSize(l)
    BY <1>2, <1>3, <1>4, <1>5
  <2> QED
    BY <2>1, <2>2
<1>7. \A k \in Lanes \ {l} : workers'[k] = workers[k]
  BY <1>1
<1> QED
  BY <1>6, <1>7 DEF CeilingRespected, TargetSize

LEMMA CeilingSpawned ==
  ASSUME TypeOK, CeilingRespected, NEW l \in Lanes, NEW n \in Int,
         n <= TargetSize(l) - Cardinality(workers[l]),
         NEW kind, NEW bz, NEW rq, NEW tk, Spawn(l, n, kind, bz, rq, tk)
  PROVE  CeilingRespected'
<1>1. PICK new \in SUBSET Unused :
        /\ Cardinality(new) = n
        /\ workers' = [workers EXCEPT ![l] = @ \cup new]
  BY DEF Spawn
<1>2. new \subseteq Workers
  BY DEF Unused
<1> QED
  BY <1>1, <1>2, CeilingGrows

\* The targets #ensureSize is called with are within the ceiling.
LEMMA TargetsWithin ==
  ASSUME TypeOK, NEW l \in Lanes
  PROVE  /\ DemandTarget(l) \in Int /\ DemandTarget(l) <= TargetSize(l)
         /\ WarmFloor(l) \in Int /\ WarmFloor(l) <= TargetSize(l)
         /\ Cardinality(workers[l]) \in Int
<1>1. Len(waiters[l]) \in Nat
  BY DEF TypeOK
<1>2. /\ TargetSize(l) \in Nat /\ WarmFloor(l) \in Nat /\ WarmFloor(l) <= TargetSize(l)
      /\ Cardinality(workers[l]) \in Nat
  BY CountTypes
<1> QED
  BY <1>1, <1>2 DEF DemandTarget, Smaller, Larger

LEMMA CeilingServed ==
  ASSUME TypeOK, CeilingRespected, NEW l \in Lanes, NEW bz, NEW rq, NEW tk,
         ServeWaiter(l, bz, rq, tk)
  PROVE  CeilingRespected'
<1>1. CASE UNCHANGED workers
  BY <1>1, CeilingShrinks
<1>2. CASE Spawn(l, DemandTarget(l) - Cardinality(workers[l]), "replenish", bz, rq, tk)
  <2> DEFINE n == DemandTarget(l) - Cardinality(workers[l])
  <2>1. n \in Int /\ n <= TargetSize(l) - Cardinality(workers[l])
    <3>1. /\ DemandTarget(l) \in Int /\ DemandTarget(l) <= TargetSize(l)
          /\ Cardinality(workers[l]) \in Nat /\ TargetSize(l) \in Nat
      BY TargetsWithin, CountTypes
    <3> QED
      BY <3>1
  <2>2. Spawn(l, n, "replenish", bz, rq, tk)
    BY <1>2
  <2> HIDE DEF n
  <2> QED
    BY <2>1, <2>2, CeilingSpawned
<1> QED
  BY <1>1, <1>2 DEF ServeWaiter

LEMMA CeilingInit == Init => CeilingRespected
<1> SUFFICES ASSUME Init, NEW l \in Lanes
             PROVE  Cardinality(workers[l]) <= TargetSize(l)
  BY DEF CeilingRespected
<1>1. TargetSize(l) \in Nat /\ WarmFloor(l) <= TargetSize(l)
  BY PoolConstants DEF TargetSize, WarmFloor, Smaller, Larger
<1> QED
  BY <1>1 DEF Init

LEMMA CeilingAttempt ==
  ASSUME TypeOK, CeilingRespected, NEW r \in Requests, NEW rest, Attempt(r, rest)
  PROVE  CeilingRespected'
<1> DEFINE l == req[r].lane
<1>1. workers \in [Lanes -> SUBSET Workers] /\ l \in Lanes
  BY DEF TypeOK, Call
<1>2. CASE \E w : workers' = [workers EXCEPT ![l] = @ \ {w}]
  <2>1. \A k \in Lanes : workers'[k] \subseteq workers[k]
    BY <1>1, <1>2
  <2> QED
    BY <2>1, CeilingShrinks
<1>3. CASE UNCHANGED workers
  BY <1>3, CeilingShrinks
<1>4. CASE /\ Cardinality(workers[l]) < TargetSize(l)
           /\ \E w \in Unused : workers' = [workers EXCEPT ![l] = @ \cup {w}]
  <2>1. PICK w \in Unused : workers' = [workers EXCEPT ![l] = @ \cup {w}]
    BY <1>4
  <2>2. {w} \in SUBSET Workers
    BY <2>1 DEF Unused
  <2>3. Cardinality({w}) = 1
    BY FS_Singleton
  <2>4. Cardinality({w}) <= TargetSize(l) - Cardinality(workers[l])
    <3>1. TargetSize(l) \in Nat /\ Cardinality(workers[l]) \in Nat
      BY <1>1, CountTypes
    <3> QED
      BY <3>1, <2>3, <1>4
  <2> QED
    BY <1>1, <2>1, <2>2, <2>4, CeilingGrows
<1> QED
  BY <1>2, <1>3, <1>4 DEF Attempt, NextStage

LEMMA CeilingNext == TypeOK /\ CeilingRespected /\ [Next]_vars => CeilingRespected'
<1> SUFFICES ASSUME TypeOK, CeilingRespected, [Next]_vars PROVE CeilingRespected'
  OBVIOUS
<1>0. /\ workers \in [Lanes -> SUBSET Workers] /\ tasks \subseteq Task
      /\ \A r \in Requests : req[r].lane \in Lanes
  BY DEF TypeOK, Call
<1>1. ASSUME UNCHANGED workers
      PROVE  CeilingRespected'
  BY <1>1, CeilingShrinks
<1>2. ASSUME NEW l \in Lanes, NEW gone, workers' = [workers EXCEPT ![l] = @ \ gone]
      PROVE  CeilingRespected'
  <2>1. \A k \in Lanes : workers'[k] \subseteq workers[k]
    BY <1>0, <1>2
  <2> QED
    BY <2>1, CeilingShrinks
\* The ensureSize of a warm-up, a retirement and a replenishment.
<1>3. ASSUME NEW l \in Lanes, NEW n \in {WarmFloor(l), DemandTarget(l)},
             NEW kind, NEW bz, NEW rq, NEW tk,
             Spawn(l, n - Cardinality(workers[l]), kind, bz, rq, tk)
      PROVE  CeilingRespected'
  <2> DEFINE m == n - Cardinality(workers[l])
  <2>1. m \in Int /\ m <= TargetSize(l) - Cardinality(workers[l])
    <3>1. /\ n \in Int /\ n <= TargetSize(l)
          /\ Cardinality(workers[l]) \in Nat /\ TargetSize(l) \in Nat
      BY TargetsWithin, CountTypes
    <3> QED
      BY <3>1
  <2>2. Spawn(l, m, kind, bz, rq, tk)
    BY <1>3
  <2> HIDE DEF m
  <2> QED
    BY <2>1, <2>2, CeilingSpawned
<1>4. ASSUME NEW r \in Requests, Enter(r) \/ Resume(r)
      PROVE  CeilingRespected'
  BY <1>1, <1>4, CeilingAttempt DEF Enter, Resume, NextStage
<1>5. ASSUME NEW r \in Requests, StartFailed(r)
      PROVE  CeilingRespected'
  BY <1>0, <1>2, <1>5 DEF StartFailed
<1>6. ASSUME NEW r \in Requests, ChildGone(r)
      PROVE  CeilingRespected'
  BY <1>0, <1>6, CeilingServed DEF ChildGone
<1>7. ASSUME NEW r \in Requests, RunEnds(r)
      PROVE  CeilingRespected'
  BY <1>0, <1>1, <1>2, <1>7, CeilingServed DEF RunEnds, WorkerBucket
<1>8. ASSUME NEW r \in Requests, ReplenishAfterRelease(r)
      PROVE  CeilingRespected'
  BY <1>0, <1>3, <1>8, CeilingServed DEF ReplenishAfterRelease
<1>9. ASSUME NEW t \in tasks, TaskStep(t)
      PROVE  CeilingRespected'
  <2>1. t.lane \in Lanes
    BY <1>0 DEF Task
  <2> QED
    BY <2>1, <1>1, <1>2, <1>9, CeilingServed
    DEF TaskStep, TaskReady, TaskStartFailed, TaskRejects
<1>10. ASSUME NEW l \in Lanes, Trim(l)
       PROVE  CeilingRespected'
  BY <1>1, <1>2, <1>10 DEF Trim
<1>11. ASSUME NEW l \in Lanes, Retired(l) \/ Prime(l)
       PROVE  CeilingRespected'
  BY <1>1, <1>3, <1>11 DEF Retired, Prime
<1>12. ASSUME CloseAll
       PROVE  CeilingRespected'
  <2>1. \A k \in Lanes : workers'[k] \subseteq workers[k]
    BY <1>12 DEF CloseAll
  <2> QED
    BY <2>1, CeilingShrinks
<1>13. ASSUME UNCHANGED vars
       PROVE  CeilingRespected'
  BY <1>1, <1>13 DEF vars
<1>14. ASSUME NEW r \in Requests, Arrive(r) \/ Started(r) \/ Abort(r) \/ QueueTimeout(r)
       PROVE  CeilingRespected'
  BY <1>1, <1>14 DEF Arrive, Started, Abort, QueueTimeout
<1>15. ASSUME NEW w \in Workers, WearOut(w)
       PROVE  CeilingRespected'
  BY <1>1, <1>15 DEF WearOut
<1> QED
  BY <1>4, <1>5, <1>6, <1>7, <1>8, <1>9, <1>10, <1>11, <1>12, <1>13, <1>14, <1>15
  DEF Next, RequestStep

\* CeilingRespected: whatever requests, replenishments, warm-up and retirement
\* of execution-pool.ts do at the same time, a bucket never holds more workers
\* than its poolSize, clamped to 1..8.
THEOREM CeilingHolds == Spec => []CeilingRespected
BY CeilingInit, CeilingNext, TypeInit, TypeNext, PTL DEF Spec

-----------------------------------------------------------------------------
(***************************************************************************)
(* Queues.  QueueSound is inductive; QueueOf states it for queues wt and   *)
(* calls rq, entry by entry, because #serveWaiter starts from its caller's *)
(* calls.                                                                  *)
(***************************************************************************)
QueueOf(wt, rq) ==
  \A l \in Lanes :
    /\ \A i \in Entries(wt[l]) : rq[wt[l][i]].phase = "queued" /\ Home[wt[l][i]] = l
    /\ \A r \in Requests :
         rq[r].phase = "queued" /\ Home[r] = l => \E i \in Entries(wt[l]) : wt[l][i] = r
    /\ Distinct(wt[l])
    /\ Len(wt[l]) <= queueMax[l]

LEMMA QueueOfSound ==
  ASSUME TypeOK
  PROVE  QueueOf(waiters, req) <=> QueueSound
<1>1. \A l \in Lanes : /\ waiters[l] \in Seq(Requests)
                       /\ DOMAIN waiters[l] = Entries(waiters[l])
                       /\ \A i \in Entries(waiters[l]) : waiters[l][i] \in Requests
  BY DEF TypeOK, Entries
<1> QED
  BY <1>1 DEF QueueOf, QueueSound, Distinct

\* The calls queued in rt are those queued in rq, without those of gone.
Unqueues(rt, rq, gone) ==
  \A r \in Requests : rt[r].phase = "queued" <=> rq[r].phase = "queued" /\ r \notin gone

\* Only calls that are not queued move on.
LEMMA QueueKept ==
  ASSUME NEW wt \in [Lanes -> Seq(Requests)], NEW rq, NEW rt, NEW gone,
         QueueOf(wt, rq), Unqueues(rt, rq, gone),
         \A r \in gone : rq[r].phase # "queued"
  PROVE  QueueOf(wt, rt)
<1>1. \A l \in Lanes : \A i \in Entries(wt[l]) : wt[l][i] \in Requests
  BY DEF Entries
<1>2. \A r \in Requests : rt[r].phase = "queued" <=> rq[r].phase = "queued"
  BY DEF Unqueues
<1> QED
  BY <1>1, <1>2 DEF QueueOf

\* The calls of gone, all of them queued in lane l, leave its queue and get on.
LEMMA QueueDropped ==
  ASSUME NEW wt \in [Lanes -> Seq(Requests)], NEW rq, NEW rt, NEW l \in Lanes,
         NEW t, NEW gone,
         QueueOf(wt, rq), Drops(Requests, t, wt[l], gone),
         \A r \in gone : \E i \in Entries(wt[l]) : wt[l][i] = r,
         Unqueues(rt, rq, gone)
  PROVE  QueueOf([wt EXCEPT ![l] = t], rt)
<1> DEFINE ut == [wt EXCEPT ![l] = t]
<1>1. \A k \in Lanes : \A i \in Entries(wt[k]) : wt[k][i] \in Requests
  BY DEF Entries
<1>2. ut[l] = t /\ \A k \in Lanes \ {l} : ut[k] = wt[k]
  OBVIOUS
<1> HIDE DEF ut
<1>3. /\ \A i \in Entries(t) : rt[t[i]].phase = "queued" /\ Home[t[i]] = l
      /\ \A r \in Requests :
           rt[r].phase = "queued" /\ Home[r] = l => \E i \in Entries(t) : t[i] = r
      /\ Distinct(t)
  BY <1>1 DEF QueueOf, Drops, Unqueues
<1>4. Len(t) <= queueMax[l]
  <2>1. Len(t) \in Nat /\ Len(wt[l]) \in Nat /\ queueMax[l] \in Nat
    BY PoolConstants DEF Drops
  <2> QED
    BY <2>1 DEF QueueOf, Drops
<1>5. ASSUME NEW k \in Lanes \ {l}
      PROVE  /\ \A i \in Entries(wt[k]) : rt[wt[k][i]].phase = "queued" /\ Home[wt[k][i]] = k
             /\ \A r \in Requests :
                  rt[r].phase = "queued" /\ Home[r] = k => \E i \in Entries(wt[k]) : wt[k][i] = r
  <2>1. \A r \in gone : Home[r] = l
    BY DEF QueueOf
  <2> QED
    BY <2>1, <1>1 DEF QueueOf, Unqueues
<1>6. QueueOf(ut, rt)
  <2> SUFFICES ASSUME NEW k \in Lanes
               PROVE  /\ \A i \in Entries(ut[k]) :
                           rt[ut[k][i]].phase = "queued" /\ Home[ut[k][i]] = k
                      /\ \A r \in Requests :
                           rt[r].phase = "queued" /\ Home[r] = k =>
                             \E i \in Entries(ut[k]) : ut[k][i] = r
                      /\ Distinct(ut[k])
                      /\ Len(ut[k]) <= queueMax[k]
    BY DEF QueueOf
  <2>1. CASE k = l
    BY <2>1, <1>2, <1>3, <1>4
  <2>2. CASE k # l
    BY <2>2, <1>2, <1>5 DEF QueueOf
  <2> QED
    BY <2>1, <2>2
<1> QED
  BY <1>6 DEF ut

\* What the steps of the code do to the set of queued calls.
LEMMA LeavingUnqueues ==
  ASSUME NEW rq \in [Requests -> Call], NEW rs \in SUBSET Requests
  PROVE  Unqueues(Leaving(rq, rs), rq, rs)
<1> SUFFICES ASSUME NEW r \in Requests
             PROVE  Leaving(rq, rs)[r].phase = IF r \in rs THEN "out" ELSE rq[r].phase
  BY DEF Unqueues
<1>1. NoCall(r).phase = "out"
  BY DEF NoCall, CallAt
<1>2. [rq[r] EXCEPT !.ahead = @ \ rs].phase = rq[r].phase
  BY DEF Call
<1> QED
  BY <1>1, <1>2 DEF Leaving

LEMMA HoldUnqueues ==
  ASSUME NEW rq \in [Requests -> Call], NEW r \in Requests, NEW phase \in Leased,
         NEW w, NEW l
  PROVE  Unqueues(Hold(rq, r, phase, w, l), rq, {r})
<1>1. /\ Unqueues(Leaving(rq, {r}), rq, {r})
      /\ Leaving(rq, {r}) \in [Requests -> Call]
  BY LeavingUnqueues, LeavingType
<1>2. CallAt(phase, w, l).phase # "queued"
  BY DEF CallAt, Leased
<1>3. /\ Hold(rq, r, phase, w, l)[r] = CallAt(phase, w, l)
      /\ \A q \in Requests \ {r} : Hold(rq, r, phase, w, l)[q] = Leaving(rq, {r})[q]
  BY <1>1 DEF Hold
<1> QED
  BY <1>1, <1>2, <1>3 DEF Unqueues

LEMMA GoesUnqueues ==
  ASSUME req \in [Requests -> Call], NEW r \in Requests,
         NEW phase \in Phase \ {"queued"}, NEW l, NEW stage, NEW rest
  PROVE  Unqueues(Goes(r, phase, l, stage, rest), req, {r})
<1>1. /\ Goes(r, phase, l, stage, rest)[r].phase = phase
      /\ \A q \in Requests \ {r} : Goes(r, phase, l, stage, rest)[q] = req[q]
  BY DEF Goes
<1> QED
  BY <1>1 DEF Unqueues

LEMMA PhaseUnqueues ==
  ASSUME req \in [Requests -> Call], NEW r \in Requests, NEW phase \in Phase \ {"queued"}
  PROVE  Unqueues([req EXCEPT ![r].phase = phase], req, {r})
<1>1. /\ [req EXCEPT ![r].phase = phase][r].phase = phase
      /\ \A q \in Requests \ {r} : [req EXCEPT ![r].phase = phase][q] = req[q]
  BY DEF Call
<1> QED
  BY <1>1 DEF Unqueues

\* #serveWaiter takes the queue that its caller left and answers its head.
LEMMA QueueServed ==
  ASSUME TypeOK, NEW l \in Lanes, NEW bz, NEW rq \in [Requests -> Call], NEW tk,
         QueueOf(waiters, rq), ServeWaiter(l, bz, rq, tk)
  PROVE  QueueOf(waiters', req')
<1> DEFINE fit == (workers[l] \ bz) \ worn
           Prefix(n) == {waiters[l][i] : i \in 1..n}
           s == waiters[l]
<1>1. waiters \in [Lanes -> Seq(Requests)] /\ s \in Seq(Requests) /\ Len(s) \in Nat
  BY DEF TypeOK
<1>2. \A i \in Entries(s) : s[i] \in Requests
  BY <1>1 DEF Entries
<1>3. Distinct(s)
  BY DEF QueueOf
<1>4. ASSUME NEW w \in fit, NEW n \in Live(l),
             req' = Hold(Leaving(rq, Prefix(n - 1)), s[n], "running", w, l),
             waiters' = [waiters EXCEPT ![l] = SubSeq(@, n + 1, Len(@))]
      PROVE  QueueOf(waiters', req')
  <2>1. n \in 1..Len(s) /\ n \in Entries(s) /\ s[n] \in Requests
    BY <1>1, <1>2, <1>4 DEF Live, Entries
  <2>2. \A m \in 0..Len(s) : \A r \in Prefix(m) :
          r \in Requests /\ \E i \in Entries(s) : s[i] = r
    BY <1>1, <1>2 DEF Entries
  <2>3. Prefix(n) = Prefix(n - 1) \cup {s[n]}
    <3>1. 1..n = (1 .. n - 1) \cup {n}
      BY <2>1, <1>1
    <3> QED
      BY <3>1
  <2> DEFINE qr == Leaving(rq, Prefix(n - 1))
             P == Prefix(n - 1)
             Q == Prefix(n)
             h == s[n]
  <2>4. n - 1 \in 0..Len(s) /\ n \in 0..Len(s)
    BY <2>1, <1>1
  <2>5. P \in SUBSET Requests
    BY <2>2, <2>4
  <2>6. Unqueues(qr, rq, P) /\ qr \in [Requests -> Call]
    BY <2>5, LeavingUnqueues, LeavingType
  <2>7. Unqueues(req', qr, {h})
    <3>1. req' = Hold(qr, h, "running", w, l)
      BY <1>4
    <3> HIDE DEF qr, h
    <3>2. h \in Requests
      BY <2>1 DEF h
    <3> QED
      BY <3>1, <3>2, <2>6, HoldUnqueues DEF Leased
  <2>8. Drops(Requests, SubSeq(s, n + 1, Len(s)), s, Q)
    BY <1>1, <1>3, <2>4, DropsFront
  <2>9. \A r \in Q : \E i \in Entries(s) : s[i] = r
    BY <2>2, <2>4
  <2>10. Q = P \cup {h}
    BY <2>3
  <2> HIDE DEF qr, P, Q, h
  <2>11. Unqueues(req', rq, Q)
    BY <2>6, <2>7, <2>10 DEF Unqueues
  <2> QED
    BY <1>1, <1>4, <2>8, <2>9, <2>11, QueueDropped
<1>5. ASSUME req' = Leaving(rq, Prefix(Len(s))), waiters' = [waiters EXCEPT ![l] = <<>>]
      PROVE  QueueOf(waiters', req')
  <2> DEFINE P == Prefix(Len(s))
  <2>1. P \in SUBSET Requests /\ \A r \in P : \E i \in Entries(s) : s[i] = r
    BY <1>1, <1>2 DEF Entries
  <2>2. Drops(Requests, <<>>, s, P)
    BY <1>1, DropsAll
  <2> HIDE DEF P
  <2>3. Unqueues(req', rq, P)
    BY <1>5, <2>1, LeavingUnqueues DEF P
  <2> QED
    BY <1>1, <1>5, <2>1, <2>2, <2>3, QueueDropped
<1>6. ASSUME req' = rq, UNCHANGED waiters
      PROVE  QueueOf(waiters', req')
  BY <1>6
<1> QED
  BY <1>4, <1>5, <1>6 DEF ServeWaiter, Spawn

\* The calls queued in rt are those queued in rq, and r.
Enqueues(rt, rq, r) ==
  \A q \in Requests : rt[q].phase = "queued" <=> rq[q].phase = "queued" \/ q = r

\* acquire puts a call that is not queued at the end of a queue with room.
LEMMA QueueJoined ==
  ASSUME NEW wt \in [Lanes -> Seq(Requests)], NEW rq, NEW rt, NEW r \in Requests,
         QueueOf(wt, rq), rq[r].phase # "queued",
         Len(wt[Home[r]]) < queueMax[Home[r]],
         Enqueues(rt, rq, r)
  PROVE  QueueOf([wt EXCEPT ![Home[r]] = Append(@, r)], rt)
<1> DEFINE l == Home[r]
           s == wt[l]
           t == Append(s, r)
           ut == [wt EXCEPT ![l] = t]
<1>1. l \in Lanes /\ s \in Seq(Requests) /\ Len(s) \in Nat /\ queueMax[l] \in Nat
  BY PoolConstants
<1>2. \A k \in Lanes : \A i \in Entries(wt[k]) : wt[k][i] \in Requests
  BY DEF Entries
<1>3. /\ Len(t) = Len(s) + 1
      /\ \A i \in Entries(s) : t[i] = s[i]
      /\ t[Len(s) + 1] = r
  BY <1>1, AppendProperties DEF Entries
<1>4. ut[l] = t /\ \A k \in Lanes \ {l} : ut[k] = wt[k]
  BY <1>1
<1>5. Len(t) <= queueMax[l]
  BY <1>1, <1>3
<1>6. Entries(t) = Entries(s) \cup {Len(s) + 1}
  BY <1>1, <1>3 DEF Entries
<1> HIDE DEF t, ut
<1>7. \A i \in Entries(s) : s[i] \in Requests /\ s[i] # r
  BY <1>1, <1>2 DEF QueueOf
<1>8. Distinct(t)
  <2>1. Distinct(s)
    BY <1>1 DEF QueueOf
  <2> QED
    BY <2>1, <1>3, <1>6, <1>7 DEF Distinct
<1>9. /\ \A i \in Entries(t) : rt[t[i]].phase = "queued" /\ Home[t[i]] = l
      /\ \A q \in Requests :
           rt[q].phase = "queued" /\ Home[q] = l => \E i \in Entries(t) : t[i] = q
  <2>1. \A i \in Entries(s) : rt[s[i]].phase = "queued" /\ Home[s[i]] = l
    BY <1>1, <1>7 DEF QueueOf, Enqueues
  <2>2. \A q \in Requests : rq[q].phase = "queued" /\ Home[q] = l => \E i \in Entries(s) : s[i] = q
    BY <1>1 DEF QueueOf
  <2> QED
    BY <2>1, <2>2, <1>3, <1>6 DEF Enqueues
<1>10. QueueOf(ut, rt)
  <2> SUFFICES ASSUME NEW k \in Lanes
               PROVE  /\ \A i \in Entries(ut[k]) :
                           rt[ut[k][i]].phase = "queued" /\ Home[ut[k][i]] = k
                      /\ \A q \in Requests :
                           rt[q].phase = "queued" /\ Home[q] = k =>
                             \E i \in Entries(ut[k]) : ut[k][i] = q
                      /\ Distinct(ut[k])
                      /\ Len(ut[k]) <= queueMax[k]
    BY DEF QueueOf
  <2>1. CASE k = l
    BY <2>1, <1>4, <1>5, <1>8, <1>9
  <2>2. CASE k # l
    <3>1. ut[k] = wt[k] /\ Home[r] # k
      BY <2>2, <1>4
    <3>2. /\ \A i \in Entries(wt[k]) : rt[wt[k][i]].phase = "queued" /\ Home[wt[k][i]] = k
          /\ \A q \in Requests :
               rt[q].phase = "queued" /\ Home[q] = k => \E i \in Entries(wt[k]) : wt[k][i] = q
      BY <3>1, <1>2 DEF QueueOf, Enqueues
    <3> QED
      BY <3>1, <3>2 DEF QueueOf
  <2> QED
    BY <2>1, <2>2
<1> QED
  BY <1>10 DEF ut, t

LEMMA QueueNextStage ==
  ASSUME TypeOK, QueueOf(waiters, req), NEW r \in Requests,
         req[r].phase # "queued", NextStage(r)
  PROVE  QueueOf(waiters', req')
<1>1. /\ req \in [Requests -> Call] /\ waiters \in [Lanes -> Seq(Requests)]
  BY DEF TypeOK
<1>2. /\ Unqueues(Leave(r), req, {r})
      /\ Unqueues(Goes(r, "entering", Lender[Home[r]], 2, {}), req, {r})
      /\ Unqueues(Goes(r, "entering", Home[r], 3, {}), req, {r})
  BY <1>1, LeavingUnqueues, GoesUnqueues DEF Leave, Phase, Microtask
<1>3. CASE UNCHANGED waiters /\ Unqueues(req', req, {r})
  BY <1>1, <1>3, QueueKept
<1>4. CASE /\ Len(waiters[Home[r]]) < queueMax[Home[r]]
           /\ req' = Goes(r, "queued", Home[r], 1, {})
           /\ waiters' = [waiters EXCEPT ![Home[r]] = Append(@, r)]
  <2>1. /\ req'[r].phase = "queued"
        /\ \A q \in Requests \ {r} : req'[q] = req[q]
    BY <1>1, <1>4 DEF Goes
  <2>2. Enqueues(req', req, r)
    BY <2>1 DEF Enqueues
  <2>3. QueueOf([waiters EXCEPT ![Home[r]] = Append(@, r)], req')
    BY <1>1, <1>4, <2>2, QueueJoined
  <2> QED
    BY <1>4, <2>3
<1> QED
  BY <1>2, <1>3, <1>4 DEF NextStage

LEMMA QueueAttempt ==
  ASSUME TypeOK, QueueOf(waiters, req), NEW r \in Requests,
         req[r].phase # "queued", NEW rest, Attempt(r, rest)
  PROVE  QueueOf(waiters', req')
<1>1. /\ req \in [Requests -> Call] /\ waiters \in [Lanes -> Seq(Requests)]
  BY DEF TypeOK
<1>2. ASSUME NEW l, NEW stage, NEW left, req' = Goes(r, "discarding", l, stage, left)
      PROVE  Unqueues(req', req, {r})
  BY <1>1, <1>2, GoesUnqueues DEF Phase, Closing
<1>3. ASSUME NEW phase \in Leased, NEW w, NEW l, req' = Hold(req, r, phase, w, l)
      PROVE  Unqueues(req', req, {r})
  BY <1>1, <1>3, HoldUnqueues
<1>4. ASSUME UNCHANGED waiters, Unqueues(req', req, {r})
      PROVE  QueueOf(waiters', req')
  BY <1>1, <1>4, QueueKept
<1> QED
  BY <1>2, <1>3, <1>4, QueueNextStage DEF Attempt, Leased

\* A call of the queue leaves it: its client went away, or its timer fired.
LEMMA QueueDequeued ==
  ASSUME TypeOK, QueueOf(waiters, req), NEW r \in Requests,
         Dequeue(r), req' = Leave(r)
  PROVE  QueueOf(waiters', req')
<1> DEFINE l == Home[r]
           s == waiters[l]
<1>1. /\ req \in [Requests -> Call] /\ waiters \in [Lanes -> Seq(Requests)]
      /\ l \in Lanes /\ s \in Seq(Requests) /\ DOMAIN s = Entries(s)
  BY PoolConstants DEF TypeOK, Entries
<1>2. PICK i \in Entries(s) : s[i] = r /\ waiters' = [waiters EXCEPT ![l] = RemoveAt(@, i)]
  BY <1>1 DEF Dequeue
<1>3. Distinct(s)
  BY <1>1 DEF QueueOf
<1> DEFINE t == RemoveAt(s, i)
           gone == {r}
<1>4. Drops(Requests, t, s, gone)
  BY <1>1, <1>2, <1>3, DropsOne
<1>5. Unqueues(req', req, gone)
  BY <1>1, LeavingUnqueues DEF Leave
<1>6. \A q \in gone : \E j \in Entries(s) : s[j] = q
  BY <1>2
<1>7. waiters' = [waiters EXCEPT ![l] = t]
  BY <1>2
<1> HIDE DEF t, gone
<1> QED
  BY <1>1, <1>4, <1>5, <1>6, <1>7, QueueDropped

\* A failed replenishment rejects the head of the queue.
LEMMA QueueRejected ==
  ASSUME TypeOK, QueueOf(waiters, req), NEW l \in Lanes, waiters[l] # <<>>,
         req' = Leave(Head(waiters[l])), waiters' = [waiters EXCEPT ![l] = Tail(@)]
  PROVE  QueueOf(waiters', req')
<1> DEFINE s == waiters[l]
           h == Head(s)
<1>1. /\ req \in [Requests -> Call] /\ waiters \in [Lanes -> Seq(Requests)]
      /\ s \in Seq(Requests) /\ Distinct(s)
  BY DEF TypeOK, QueueOf
<1>2. Drops(Requests, Tail(s), s, {h}) /\ h \in Requests /\ 1 \in Entries(s) /\ s[1] = h
  BY <1>1, DropsHead
<1>3. Unqueues(req', req, {h})
  BY <1>1, <1>2, LeavingUnqueues DEF Leave
<1>4. \A q \in {h} : \E j \in Entries(s) : s[j] = q
  BY <1>2
<1> QED
  BY <1>1, <1>2, <1>3, <1>4, QueueDropped

\* closeAllAcpPools empties every queue.
LEMMA QueueClosed ==
  ASSUME TypeOK, CloseAll
  PROVE  QueueOf(waiters', req')
<1> DEFINE rs == {r \in Requests : req[r].phase = "queued"}
<1>1. Unqueues(req', req, rs)
  BY LeavingUnqueues DEF TypeOK, CloseAll
<1>2. \A r \in Requests : req'[r].phase # "queued"
  BY <1>1 DEF Unqueues
<1>3. \A l \in Lanes : waiters'[l] = <<>> /\ Len(waiters'[l]) = 0 /\ queueMax[l] \in Nat
  BY PoolConstants DEF CloseAll
<1>4. \A l \in Lanes : Entries(waiters'[l]) = {}
  BY <1>3 DEF Entries
<1> QED
  BY <1>2, <1>3, <1>4 DEF QueueOf, Distinct

QueueState == QueueOf(waiters, req)

LEMMA QueueInit == Init => QueueState
<1> SUFFICES ASSUME Init PROVE QueueOf(waiters, req)
  BY DEF QueueState
<1>1. \A l \in Lanes : waiters[l] = <<>> /\ Len(waiters[l]) = 0 /\ queueMax[l] \in Nat
  BY PoolConstants DEF Init
<1>2. \A l \in Lanes : Entries(waiters[l]) = {}
  BY <1>1 DEF Entries
<1>3. \A l \in Lanes : Distinct(waiters[l]) /\ Len(waiters[l]) <= queueMax[l]
  BY <1>1, <1>2 DEF Distinct
<1>4. \A r \in Requests : req[r].phase = "out"
  BY DEF Init, NoCall, CallAt
<1> QED
  BY <1>2, <1>3, <1>4 DEF QueueOf

LEMMA QueueNext == TypeOK /\ QueueState /\ [Next]_vars => QueueState'
<1> SUFFICES ASSUME TypeOK, QueueOf(waiters, req), [Next]_vars
             PROVE  QueueOf(waiters', req')
  BY DEF QueueState
<1>0. /\ req \in [Requests -> Call] /\ waiters \in [Lanes -> Seq(Requests)]
      /\ tasks \subseteq Task
      /\ \A r \in Requests : req[r].lane \in Lanes
  BY DEF TypeOK, Call
\* The calls that settle, or move on, were not queued.
<1>0a. \A r \in Requests : Unqueues(Leave(r), req, {r}) /\ Leave(r) \in [Requests -> Call]
  BY <1>0, LeavingUnqueues, LeavingType DEF Leave
<1>0b. ASSUME NEW r \in Requests, req[r].phase # "queued", NEW rq, Unqueues(rq, req, {r})
       PROVE  QueueOf(waiters, rq)
  BY <1>0, <1>0b, QueueKept
<1>1. ASSUME UNCHANGED <<waiters, req>>
      PROVE  QueueOf(waiters', req')
  BY <1>1
<1>2. ASSUME NEW r \in Requests, Arrive(r)
      PROVE  QueueOf(waiters', req')
  <2>1. /\ req'[r].phase = "entering"
        /\ \A q \in Requests \ {r} : req'[q] = req[q]
    BY <1>0, <1>2 DEF Arrive
  <2>2. Unqueues(req', req, {r})
    BY <2>1 DEF Unqueues
  <2>3. req[r].phase # "queued"
    BY <1>2 DEF Arrive
  <2>4. QueueOf(waiters, req')
    BY <2>2, <2>3, <1>0b
  <2> QED
    BY <2>4, <1>2 DEF Arrive
<1>3. ASSUME NEW r \in Requests, Enter(r)
      PROVE  QueueOf(waiters', req')
  <2>1. req[r].phase # "queued"
    BY <1>3 DEF Enter
  <2>2. CASE req' = Leave(r) /\ UNCHANGED waiters
    BY <2>1, <2>2, <1>0a, <1>0b
  <2> QED
    BY <2>1, <2>2, <1>3, QueueNextStage, QueueAttempt DEF Enter
<1>4. ASSUME NEW r \in Requests, Resume(r)
      PROVE  QueueOf(waiters', req')
  <2>1. req[r].phase # "queued"
    BY <1>4 DEF Resume
  <2> QED
    BY <2>1, <1>4, QueueAttempt DEF Resume
<1>5. ASSUME NEW r \in Requests, Started(r)
      PROVE  QueueOf(waiters', req')
  <2>1. Unqueues(req', req, {r}) /\ req[r].phase # "queued"
    BY <1>0, <1>5, PhaseUnqueues DEF Started, Phase, Leased
  <2>2. QueueOf(waiters, req')
    BY <2>1, <1>0b
  <2> QED
    BY <2>2, <1>5 DEF Started
<1>6. ASSUME NEW r \in Requests, StartFailed(r)
      PROVE  QueueOf(waiters', req')
  <2>1. Unqueues(req', req, {r}) /\ req[r].phase # "queued"
    BY <1>0, <1>6, GoesUnqueues DEF StartFailed, Phase, Closing
  <2>2. QueueOf(waiters, req')
    BY <2>1, <1>0b
  <2> QED
    BY <2>2, <1>6 DEF StartFailed
<1>7. ASSUME NEW r \in Requests, ChildGone(r)
      PROVE  QueueOf(waiters', req')
  <2> DEFINE l == req[r].lane
  <2>1. l \in Lanes /\ req[r].phase \in Closing /\ req[r].phase # "queued"
    BY <1>0, <1>7 DEF ChildGone, Closing
  <2>2. ASSUME NEW phase \in {"resuming", "replenishing"},
               ServeWaiter(l, busy, [req EXCEPT ![r].phase = phase], tasks)
        PROVE  QueueOf(waiters', req')
    <3> DEFINE rq == [req EXCEPT ![r].phase = phase]
    <3>1. phase \in Phase \ {"queued"}
      BY DEF Phase, Microtask
    <3>2. Unqueues(rq, req, {r}) /\ rq \in [Requests -> Call]
      BY <1>0, <3>1, PhaseUnqueues, PhaseType
    <3>3. ServeWaiter(l, busy, rq, tasks)
      BY <2>2
    <3> HIDE DEF rq
    <3>4. QueueOf(waiters, rq)
      BY <2>1, <3>2, <1>0b
    <3> QED
      BY <2>1, <3>2, <3>3, <3>4, QueueServed
  <2>3. ASSUME ServeWaiter(l, busy, Leave(r), tasks)
        PROVE  QueueOf(waiters', req')
    BY <2>1, <2>3, <1>0a, <1>0b, QueueServed
  <2>4. CASE req[r].phase = "discarding"
    BY <2>2, <2>4, <1>7 DEF ChildGone
  <2>5. CASE req[r].phase = "failing"
    BY <2>3, <2>5, <1>7 DEF ChildGone
  <2>6. CASE req[r].phase = "releasing"
    BY <2>2, <2>6, <1>7 DEF ChildGone
  <2> QED
    BY <2>1, <2>4, <2>5, <2>6 DEF Closing
<1>8. ASSUME NEW r \in Requests, RunEnds(r)
      PROVE  QueueOf(waiters', req')
  <2> DEFINE l == WorkerBucket(r)
  <2>1. l \in Lanes /\ req[r].phase # "queued"
    BY <1>0, <1>8 DEF RunEnds, WorkerBucket
  <2>2. CASE req' = Leave(r) /\ UNCHANGED waiters
    BY <2>1, <2>2, <1>0a, <1>0b
  <2>3. CASE req' = Goes(r, "releasing", l, 1, {}) /\ UNCHANGED waiters
    <3>1. Unqueues(req', req, {r})
      BY <1>0, <2>3, GoesUnqueues DEF Phase, Closing
    <3> QED
      BY <2>1, <2>3, <3>1, <1>0b
  <2>4. CASE ServeWaiter(l, busy \ {req[r].worker}, Leave(r), tasks)
    BY <2>1, <2>4, <1>0a, <1>0b, QueueServed
  <2> QED
    BY <2>2, <2>3, <2>4, <1>8 DEF RunEnds
<1>9. ASSUME NEW r \in Requests, ReplenishAfterRelease(r)
      PROVE  QueueOf(waiters', req')
  <2>1. req[r].phase # "queued" /\ req[r].lane \in Lanes
    BY <1>0, <1>9 DEF ReplenishAfterRelease
  <2>2. QueueOf(waiters, Leave(r))
    BY <2>1, <1>0a, <1>0b
  <2>3. CASE ServeWaiter(req[r].lane, busy, Leave(r), tasks)
    BY <2>1, <2>2, <2>3, <1>0a, QueueServed
  <2>4. CASE req' = Leave(r) /\ UNCHANGED waiters
    BY <2>2, <2>4
  <2> QED
    BY <2>3, <2>4, <1>9 DEF ReplenishAfterRelease, Spawn
<1>10. ASSUME NEW r \in Requests, Abort(r)
       PROVE  QueueOf(waiters', req')
  <2>1. CASE Dequeue(r) /\ req' = Leave(r)
    BY <2>1, QueueDequeued
  <2>2. CASE /\ req[r].phase = "discarding"
             /\ req' = [req EXCEPT ![r].aborted = TRUE]
             /\ UNCHANGED waiters
    <3>1. \A q \in Requests : req'[q].phase = req[q].phase
      BY <1>0, <2>2 DEF Call
    <3>2. Unqueues(req', req, {r})
      BY <2>2, <3>1 DEF Unqueues
    <3> QED
      BY <2>2, <3>2, <1>0b
  <2> QED
    BY <2>1, <2>2, <1>10 DEF Abort
<1>11. ASSUME NEW r \in Requests, QueueTimeout(r)
       PROVE  QueueOf(waiters', req')
  BY <1>11, QueueDequeued DEF QueueTimeout
<1>12. ASSUME NEW t \in tasks, TaskStep(t)
       PROVE  QueueOf(waiters', req')
  <2>1. t.lane \in Lanes
    BY <1>0 DEF Task
  <2>2. PICK w \in t.pending \cup t.dead :
          TaskReady(t, w) \/ TaskStartFailed(t, w) \/ TaskRejects(t, w)
    BY <1>12 DEF TaskStep
  <2>3. CASE TaskReady(t, w)
    BY <1>0, <2>1, <2>3, <1>1, QueueServed DEF TaskReady
  <2>4. CASE TaskStartFailed(t, w)
    BY <2>4, <1>1 DEF TaskStartFailed
  <2>5. CASE TaskRejects(t, w)
    BY <2>1, <2>5, <1>1, QueueRejected DEF TaskRejects
  <2> QED
    BY <2>2, <2>3, <2>4, <2>5
<1>13. ASSUME NEW l \in Lanes, Trim(l) \/ Retired(l) \/ Prime(l)
       PROVE  QueueOf(waiters', req')
  BY <1>13, <1>1 DEF Trim, Retired, Prime, Spawn
<1>14. ASSUME NEW w \in Workers, WearOut(w)
       PROVE  QueueOf(waiters', req')
  BY <1>14, <1>1 DEF WearOut
<1>15. CASE CloseAll
  BY <1>15, QueueClosed
<1>16. CASE UNCHANGED vars
  BY <1>16, <1>1 DEF vars
<1> QED
  BY <1>2, <1>3, <1>4, <1>5, <1>6, <1>7, <1>8, <1>9, <1>10, <1>11, <1>12, <1>13, <1>14,
     <1>15, <1>16
  DEF Next, RequestStep

\* QueueSound: whatever aborts, timers, grants, rejections and shutdown do to
\* the waiters of execution-pool.ts, a queue holds the calls that wait, each
\* once and at most queueMax: none is answered twice and none is forgotten.
THEOREM QueuesSound == Spec => []QueueSound
<1>1. TypeOK /\ QueueState => QueueSound
  BY QueueOfSound DEF QueueState
<1> QED
  BY <1>1, QueueInit, QueueNext, TypeInit, TypeNext, PTL DEF Spec

-----------------------------------------------------------------------------
(***************************************************************************)
(* Order.  A call keeps the calls it found queued in ahead.  What NoBypass *)
(* needs of them: they wait; a call that is between a look at an empty     *)
(* queue and its worker found nobody in that queue; and those of a queued  *)
(* call's own lane stand before it.                                        *)
(***************************************************************************)
Between == {"discarding", "resuming"}

OrderOf(wt, rq) ==
  \A r \in Requests : \A q \in rq[r].ahead :
    /\ rq[q].phase = "queued"
    /\ rq[r].phase \in Between => Home[q] # rq[r].lane
    /\ rq[r].phase = "queued" /\ Home[q] = Home[r] => Before(wt[Home[r]], q, r)

\* The step part of NoBypass.
NoneBypassed ==
  \A r \in Requests : \A q \in req[r].ahead : Obtains(r, Home[q]) => req[q].aborted

\* A step that grants no lease lets nobody pass.
LEMMA NoLeaseNoBypass ==
  ASSUME NoNewLease(req', req)
  PROVE  NoneBypassed
BY DEF NoNewLease, Holder, NoneBypassed, Obtains

\* What a call of rt still has ahead, it had ahead in rq, where it stood alike.
Forgets(rt, rq) ==
  \A r \in Requests : \A q \in rt[r].ahead :
    /\ q \in rq[r].ahead
    /\ rq[q].phase = "queued" => rt[q].phase = "queued"
    /\ rt[r].phase \in Between =>
         Home[q] # rt[r].lane \/ (rq[r].phase \in Between /\ rt[r].lane = rq[r].lane)
    /\ rt[r].phase = "queued" => rq[r].phase = "queued"

\* The queues of wu hold the calls queued in rt in the order of wt.
KeepsOrder(wu, wt, rt) ==
  \A l \in Lanes : \A q, r \in Requests :
    /\ rt[q].phase = "queued" /\ rt[r].phase = "queued"
    /\ Home[q] = l /\ Home[r] = l
    /\ Before(wt[l], q, r)
    => Before(wu[l], q, r)

LEMMA OrderKept ==
  ASSUME NEW wt, NEW wu, NEW rq, NEW rt \in [Requests -> Call],
         OrderOf(wt, rq), Forgets(rt, rq), KeepsOrder(wu, wt, rt)
  PROVE  OrderOf(wu, rt)
<1> SUFFICES ASSUME NEW r \in Requests, NEW q \in rt[r].ahead
             PROVE  /\ rt[q].phase = "queued"
                    /\ rt[r].phase \in Between => Home[q] # rt[r].lane
                    /\ rt[r].phase = "queued" /\ Home[q] = Home[r] =>
                         Before(wu[Home[r]], q, r)
  BY DEF OrderOf
<1>1. q \in Requests
  BY DEF Call
<1>2. /\ rq[q].phase = "queued"
      /\ rq[r].phase \in Between => Home[q] # rq[r].lane
      /\ rq[r].phase = "queued" /\ Home[q] = Home[r] => Before(wt[Home[r]], q, r)
  BY DEF OrderOf, Forgets
<1>3. rt[q].phase = "queued"
  BY <1>2 DEF Forgets
<1>4. rt[r].phase \in Between => Home[q] # rt[r].lane
  BY <1>2 DEF Forgets
<1>5. ASSUME rt[r].phase = "queued", Home[q] = Home[r]
      PROVE  Before(wu[Home[r]], q, r)
  <2>1. Before(wt[Home[r]], q, r)
    BY <1>2, <1>5 DEF Forgets
  <2>2. Home[r] \in Lanes
    BY PoolConstants
  <2> QED
    BY <1>1, <1>3, <1>5, <2>1, <2>2 DEF KeepsOrder
<1> QED
  BY <1>3, <1>4, <1>5

\* Queues that did not change hold their order.
LEMMA SameOrder ==
  ASSUME NEW wt, NEW rt
  PROVE  KeepsOrder(wt, wt, rt)
BY DEF KeepsOrder

\* What the steps of the code do to the calls ahead.
LEMMA LeavingForgets ==
  ASSUME NEW rq \in [Requests -> Call], NEW rs \in SUBSET Requests
  PROVE  Forgets(Leaving(rq, rs), rq)
<1> DEFINE rt == Leaving(rq, rs)
<1>1. \A r \in rs : rt[r].phase = "out" /\ rt[r].ahead = {}
  BY DEF Leaving, NoCall, CallAt
<1>2. \A r \in Requests \ rs : /\ rt[r].phase = rq[r].phase /\ rt[r].lane = rq[r].lane
                               /\ rt[r].ahead = rq[r].ahead \ rs
  BY DEF Leaving, Call
<1>3. \A r \in Requests : rq[r].ahead \subseteq Requests
  BY DEF Call
<1> HIDE DEF rt
<1>4. Forgets(rt, rq)
  BY <1>1, <1>2, <1>3 DEF Forgets
<1> QED
  BY <1>4 DEF rt

LEMMA HoldForgets ==
  ASSUME NEW rq \in [Requests -> Call], NEW r \in Requests, NEW phase \in Leased,
         NEW w, NEW l
  PROVE  Forgets(Hold(rq, r, phase, w, l), rq)
<1> DEFINE rt == Hold(rq, r, phase, w, l)
           qr == Leaving(rq, {r})
<1>1. Forgets(qr, rq) /\ qr \in [Requests -> Call]
  BY LeavingForgets, LeavingType
<1>2. rt[r] = CallAt(phase, w, l) /\ \A q \in Requests \ {r} : rt[q] = qr[q]
  BY <1>1 DEF Hold
<1>3. rt[r].ahead = {} /\ \A q \in Requests \ {r} : r \notin qr[q].ahead
  BY <1>2 DEF CallAt, Leaving, Call
<1>4. \A q \in Requests : qr[q].ahead \subseteq Requests
  BY <1>1 DEF Call
<1> HIDE DEF rt, qr
<1>5. Forgets(rt, rq)
  BY <1>1, <1>2, <1>3, <1>4 DEF Forgets
<1> QED
  BY <1>5 DEF rt

LEMMA GoesForgets ==
  ASSUME req \in [Requests -> Call], NEW r \in Requests,
         NEW phase \in Phase \ {"queued"}, NEW l, NEW stage, NEW rest,
         req[r].phase # "queued",
         phase \in Between => \A q \in req[r].ahead : Home[q] # l
  PROVE  Forgets(Goes(r, phase, l, stage, rest), req)
<1> DEFINE rt == Goes(r, phase, l, stage, rest)
<1>1. /\ rt[r].phase = phase /\ rt[r].lane = l /\ rt[r].ahead = req[r].ahead
      /\ \A q \in Requests \ {r} : rt[q] = req[q]
  BY DEF Goes
<1>2. \A q \in Requests : req[q].ahead \subseteq Requests
  BY DEF Call
<1> HIDE DEF rt
<1>3. Forgets(rt, req)
  BY <1>1, <1>2 DEF Forgets
<1> QED
  BY <1>3 DEF rt

LEMMA PhaseForgets ==
  ASSUME req \in [Requests -> Call], NEW r \in Requests,
         NEW phase \in Phase \ {"queued"}, req[r].phase # "queued",
         phase \in Between => req[r].phase \in Between
  PROVE  Forgets([req EXCEPT ![r].phase = phase], req)
<1> DEFINE rt == [req EXCEPT ![r].phase = phase]
<1>1. /\ rt[r].phase = phase /\ rt[r].lane = req[r].lane /\ rt[r].ahead = req[r].ahead
      /\ \A q \in Requests \ {r} : rt[q] = req[q]
  BY DEF Call
<1>2. \A q \in Requests : req[q].ahead \subseteq Requests
  BY DEF Call
<1> HIDE DEF rt
<1>3. Forgets(rt, req)
  BY <1>1, <1>2 DEF Forgets
<1> QED
  BY <1>3 DEF rt

\* The calls of gone leave the queue of lane l, the others keep their order.
LEMMA DroppedOrder ==
  ASSUME NEW wt \in [Lanes -> Seq(Requests)], NEW rt, NEW l \in Lanes, NEW t, NEW gone,
         InOrder(t, wt[l], gone), \A r \in gone : rt[r].phase # "queued"
  PROVE  KeepsOrder([wt EXCEPT ![l] = t], wt, rt)
<1> DEFINE wu == [wt EXCEPT ![l] = t]
<1>1. wu[l] = t /\ \A k \in Lanes \ {l} : wu[k] = wt[k]
  OBVIOUS
<1> HIDE DEF wu
<1>2. KeepsOrder(wu, wt, rt)
  <2> SUFFICES ASSUME NEW k \in Lanes, NEW q \in Requests, NEW r \in Requests,
                      rt[q].phase = "queued", rt[r].phase = "queued", Before(wt[k], q, r)
               PROVE  Before(wu[k], q, r)
    BY DEF KeepsOrder
  <2>1. CASE k # l
    BY <2>1, <1>1
  <2>2. CASE k = l
    <3>1. PICK i, j \in Entries(wt[l]) : i < j /\ wt[l][i] = q /\ wt[l][j] = r
      BY <2>2 DEF Before
    <3>2. q \notin gone /\ r \notin gone
      OBVIOUS
    <3> QED
      BY <2>2, <1>1, <3>1, <3>2 DEF InOrder
  <2> QED
    BY <2>1, <2>2
<1> QED
  BY <1>2 DEF wu

\* #serveWaiter answers the first live call of the queue: those before it
\* belong to clients that have gone away.
LEMMA OrderServed ==
  ASSUME TypeOK, NEW l \in Lanes, NEW bz, NEW rq \in [Requests -> Call], NEW tk,
         QueueOf(waiters, req), OrderOf(waiters, req), OrderOf(waiters, rq),
         NoNewLease(rq, req),
         \A r \in Requests : rq[r].phase = "queued" <=> req[r].phase = "queued",
         ServeWaiter(l, bz, rq, tk)
  PROVE  OrderOf(waiters', req') /\ NoneBypassed
<1> DEFINE fit == (workers[l] \ bz) \ worn
           Prefix(n) == {waiters[l][i] : i \in 1..n}
           s == waiters[l]
<1>1. waiters \in [Lanes -> Seq(Requests)] /\ s \in Seq(Requests) /\ Len(s) \in Nat
  BY DEF TypeOK
<1>2. \A i \in Entries(s) : s[i] \in Requests /\ req[s[i]].phase = "queued" /\ Home[s[i]] = l
  BY <1>1 DEF Entries, QueueOf
<1>3. Distinct(s)
  BY DEF QueueOf
<1>4. ASSUME NEW w \in fit, NEW n \in Live(l), \A i \in Live(l) : n <= i,
             req' = Hold(Leaving(rq, Prefix(n - 1)), s[n], "running", w, l),
             waiters' = [waiters EXCEPT ![l] = SubSeq(@, n + 1, Len(@))]
      PROVE  OrderOf(waiters', req') /\ NoneBypassed
  <2>1. n \in 1..Len(s) /\ n \in Entries(s) /\ s[n] \in Requests
    BY <1>1, <1>2, <1>4 DEF Live, Entries
  <2> DEFINE P == Prefix(n - 1)
             Q == Prefix(n)
             qr == Leaving(rq, P)
             h == s[n]
  <2>2. n - 1 \in 0..Len(s) /\ n \in 0..Len(s)
    BY <2>1, <1>1
  <2>3. P \in SUBSET Requests
    BY <1>2, <2>2 DEF Entries
  <2>4. Q = P \cup {h}
    <3>1. 1..n = (1 .. n - 1) \cup {n}
      BY <2>1, <1>1
    <3> QED
      BY <3>1
  <2>5. InOrder(SubSeq(s, n + 1, Len(s)), s, Q)
    BY <1>1, <2>2, OrderFront
  <2>6. waiters' = [waiters EXCEPT ![l] = SubSeq(s, n + 1, Len(s))]
    BY <1>4
  <2>7. req' = Hold(qr, h, "running", w, l)
    BY <1>4
  <2>8. Forgets(qr, rq) /\ qr \in [Requests -> Call] /\ NoNewLease(qr, rq)
        /\ \A r \in P : qr[r].phase = "out"
    BY <2>3, LeavingForgets, LeavingType, LeavingNoLease
  <2> HIDE DEF P, Q, qr, h
  <2>9. h \in Requests
    BY <2>1 DEF h
  <2>10. Forgets(req', qr) /\ req' \in [Requests -> Call]
    <3>1. w \in Workers
      BY <1>4 DEF TypeOK
    <3> QED
      BY <3>1, <2>7, <2>8, <2>9, HoldForgets, HoldType DEF Leased, Phase
  <2>11. /\ req'[h] = CallAt("running", w, l)
         /\ \A r \in Requests \ {h} : req'[r] = Leaving(qr, {h})[r]
    BY <2>7, <2>8, <2>9, LeavingType DEF Hold
  <2>12. req'[h].phase = "running"
    BY <2>11 DEF CallAt
  <2>13. \A r \in Requests \ {h} : req'[r].phase = qr[r].phase
    <3>1. \A r \in Requests \ {h} : req'[r] = [qr[r] EXCEPT !.ahead = @ \ {h}]
      BY <2>11 DEF Leaving
    <3>2. \A r \in Requests : qr[r] \in Call
      BY <2>8
    <3> QED
      BY <3>1, <3>2 DEF Call
  <2>14. OrderOf(waiters, qr)
    BY <2>8, SameOrder, OrderKept
  <2>15. \A r \in Q : req'[r].phase # "queued"
    BY <2>3, <2>4, <2>8, <2>12, <2>13
  <2>16. KeepsOrder(waiters', waiters, req')
    BY <1>1, <2>5, <2>6, <2>15, DroppedOrder
  <2>17. OrderOf(waiters', req')
    BY <2>10, <2>14, <2>16, OrderKept
  <2>18. NoneBypassed
    <3> SUFFICES ASSUME NEW r \in Requests, NEW q \in req[r].ahead, Obtains(r, Home[q])
                 PROVE  req[q].aborted
      BY DEF NoneBypassed
    <3>1. r = h
      <4>1. ASSUME r # h
            PROVE  FALSE
        <5>1. qr[r].phase \in Leased
          BY <4>1, <2>13 DEF Obtains
        <5>2. req[r].phase \in Leased
          BY <5>1, <2>8 DEF NoNewLease, Holder
        <5> QED
          BY <5>2 DEF Obtains
      <4> QED
        BY <4>1
    <3>2. Home[q] = l /\ Home[h] = l
      BY <3>1, <2>1, <2>11, <1>2 DEF Obtains, CallAt, h
    <3>3. Before(s, q, h)
      BY <3>1, <3>2, <2>1, <1>2 DEF OrderOf, h
    <3>4. PICK i, j \in Entries(s) : i < j /\ s[i] = q /\ s[j] = h
      BY <3>3 DEF Before
    <3>5. j = n
      BY <3>4, <2>1, <1>3 DEF Distinct, h
    <3>6. i \in DOMAIN waiters[l] /\ ~(n <= i)
      BY <3>4, <3>5, <2>1, <1>1 DEF Entries
    <3>7. i \notin Live(l)
      BY <3>6, <1>4
    <3> QED
      BY <3>4, <3>6, <3>7 DEF Live
  <2> QED
    BY <2>17, <2>18
<1>5. ASSUME req' = Leaving(rq, Prefix(Len(s))), waiters' = [waiters EXCEPT ![l] = <<>>]
      PROVE  OrderOf(waiters', req') /\ NoneBypassed
  <2> DEFINE P == Prefix(Len(s))
  <2>1. P \in SUBSET Requests
    BY <1>1, <1>2 DEF Entries
  <2>2. \A i \in Entries(s) : s[i] \in P
    BY DEF Entries
  <2>3. /\ Forgets(req', rq) /\ req' \in [Requests -> Call] /\ NoNewLease(req', rq)
        /\ \A r \in P : req'[r].phase = "out"
    BY <1>5, <2>1, LeavingForgets, LeavingType, LeavingNoLease
  <2> HIDE DEF P
  <2>4. InOrder(<<>>, s, P)
    BY <2>2 DEF InOrder
  <2>5. \A r \in P : req'[r].phase # "queued"
    BY <2>3
  <2>6. KeepsOrder(waiters', waiters, req')
    BY <1>1, <1>5, <2>4, <2>5, DroppedOrder
  <2>7. NoNewLease(req', req)
    BY <2>3 DEF NoNewLease
  <2> QED
    BY <2>3, <2>6, <2>7, OrderKept, NoLeaseNoBypass
<1>6. ASSUME req' = rq, UNCHANGED waiters
      PROVE  OrderOf(waiters', req') /\ NoneBypassed
  BY <1>6, NoLeaseNoBypass
<1> QED
  BY <1>4, <1>5, <1>6 DEF ServeWaiter, Spawn

LEMMA OrderNextStage ==
  ASSUME TypeOK, QueueOf(waiters, req), OrderOf(waiters, req), NEW r \in Requests,
         req[r].phase # "queued", NextStage(r)
  PROVE  OrderOf(waiters', req') /\ NoneBypassed
<1> DEFINE l == Home[r]
           s == waiters[l]
<1>1. /\ req \in [Requests -> Call] /\ waiters \in [Lanes -> Seq(Requests)]
      /\ l \in Lanes /\ s \in Seq(Requests) /\ req' \in [Requests -> Call]
  BY PoolConstants, NextStageType DEF TypeOK
<1>2. NoneBypassed
  <2>1. /\ NoNewLease(Leave(r), req)
        /\ NoNewLease(Goes(r, "entering", Lender[l], 2, {}), req)
        /\ NoNewLease(Goes(r, "entering", l, 3, {}), req)
        /\ NoNewLease(Goes(r, "queued", l, 1, {}), req)
    BY <1>1, LeavingNoLease, GoesNoLease DEF Leave, Phase, Microtask, Leased
  <2> QED
    BY <2>1, NoLeaseNoBypass DEF NextStage
<1>3. CASE UNCHANGED waiters /\ Forgets(req', req)
  <2>1. KeepsOrder(waiters, waiters, req')
    BY SameOrder
  <2>2. OrderOf(waiters, req')
    BY <2>1, <1>1, <1>3, OrderKept
  <2> QED
    BY <2>2, <1>2, <1>3
<1>4. /\ Forgets(Leave(r), req)
      /\ Forgets(Goes(r, "entering", Lender[l], 2, {}), req)
      /\ Forgets(Goes(r, "entering", l, 3, {}), req)
  BY <1>1, LeavingForgets, GoesForgets DEF Leave, Phase, Microtask, Between
<1>5. CASE /\ req' = Goes(r, "queued", l, 1, {})
           /\ waiters' = [waiters EXCEPT ![l] = Append(@, r)]
  <2>1. /\ req'[r].phase = "queued" /\ req'[r].ahead = req[r].ahead
        /\ \A q \in Requests \ {r} : req'[q] = req[q]
    BY <1>1, <1>5 DEF Goes
  <2> DEFINE t == Append(s, r)
  <2>2. InOrder(t, s, {}) /\ \A i \in Entries(s) : Before(t, s[i], r)
    BY <1>1, OrderAppended
  <2>3. waiters'[l] = t /\ \A k \in Lanes \ {l} : waiters'[k] = waiters[k]
    BY <1>1, <1>5
  <2> HIDE DEF t
  <2>4. OrderOf(waiters', req')
    <3> SUFFICES ASSUME NEW p \in Requests, NEW q \in req'[p].ahead
                 PROVE  /\ req'[q].phase = "queued"
                        /\ req'[p].phase \in Between => Home[q] # req'[p].lane
                        /\ req'[p].phase = "queued" /\ Home[q] = Home[p] =>
                             Before(waiters'[Home[p]], q, p)
      BY DEF OrderOf
    <3>1. q \in req[p].ahead /\ q \in Requests /\ req[q].phase = "queued" /\ q # r
      <4>1. q \in req[p].ahead
        BY <2>1
      <4>2. q \in Requests
        BY <4>1, <1>1 DEF Call
      <4> QED
        BY <4>1, <4>2 DEF OrderOf
    <3>2. req'[q].phase = "queued"
      BY <3>1, <2>1
    <3>3. req'[p].phase \in Between => Home[q] # req'[p].lane
      BY <3>1, <2>1 DEF OrderOf, Between
    <3>4. ASSUME p = r, Home[q] = l
          PROVE  Before(waiters'[l], q, r)
      <4>1. PICK i \in Entries(s) : s[i] = q
        BY <3>1, <3>4, <1>1 DEF QueueOf
      <4> QED
        BY <4>1, <2>2, <2>3
    <3>5. ASSUME p # r, req'[p].phase = "queued", Home[q] = Home[p]
          PROVE  Before(waiters'[Home[p]], q, p)
      <4>1. Before(waiters[Home[p]], q, p) /\ Home[p] \in Lanes
        BY <3>1, <3>5, <2>1, PoolConstants DEF OrderOf
      <4>2. CASE Home[p] # l
        BY <4>1, <4>2, <2>3
      <4>3. CASE Home[p] = l
        BY <4>1, <4>3, <2>2, <2>3 DEF Before, InOrder
      <4> QED
        BY <4>2, <4>3
    <3> QED
      BY <3>2, <3>3, <3>4, <3>5
  <2> QED
    BY <2>4, <1>2
<1> QED
  BY <1>2, <1>3, <1>4, <1>5 DEF NextStage

\* The rest of tryAcquireNow, in a lane where nobody is ahead.
LEMMA OrderAttempt ==
  ASSUME TypeOK, QueueOf(waiters, req), OrderOf(waiters, req), NEW r \in Requests,
         req[r].phase # "queued", NEW rest \in SUBSET Workers,
         \A q \in req[r].ahead : Home[q] # req[r].lane,
         Attempt(r, rest)
  PROVE  OrderOf(waiters', req') /\ NoneBypassed
<1> DEFINE l == req[r].lane
<1>1. /\ req \in [Requests -> Call] /\ waiters \in [Lanes -> Seq(Requests)]
      /\ req' \in [Requests -> Call]
  BY AttemptType DEF TypeOK
<1>2. ASSUME NEW stage, NEW left, req' = Goes(r, "discarding", l, stage, left),
             UNCHANGED waiters
      PROVE  OrderOf(waiters', req') /\ NoneBypassed
  <2>1. Forgets(req', req)
    <3>1. "discarding" \in Phase \ {"queued"}
      BY DEF Phase, Closing
    <3> QED
      BY <3>1, <1>1, <1>2, GoesForgets
  <2>2. NoNewLease(req', req)
    <3>1. "discarding" \in Phase \ Leased
      BY DEF Phase, Closing, Leased
    <3> QED
      BY <3>1, <1>1, <1>2, GoesNoLease
  <2> QED
    BY <2>1, <2>2, <1>1, <1>2, SameOrder, OrderKept, NoLeaseNoBypass
<1>3. ASSUME NEW phase \in Leased, NEW w, req' = Hold(req, r, phase, w, l),
             UNCHANGED waiters
      PROVE  OrderOf(waiters', req') /\ NoneBypassed
  <2>1. Forgets(req', req)
    BY <1>1, <1>3, HoldForgets
  <2>2. OrderOf(waiters', req')
    BY <2>1, <1>1, <1>3, SameOrder, OrderKept
  <2>3. /\ req'[r] = CallAt(phase, w, l)
        /\ \A q \in Requests \ {r} : req'[q] = Leaving(req, {r})[q]
    BY <1>1, <1>3, LeavingType DEF Hold
  <2>4. req'[r].lane = l
    BY <2>3 DEF CallAt
  <2>5. NoNewLease(Leaving(req, {r}), req)
    BY <1>1, LeavingNoLease
  <2>6. NoneBypassed
    <3> SUFFICES ASSUME NEW p \in Requests, NEW q \in req[p].ahead, Obtains(p, Home[q])
                 PROVE  FALSE
      BY DEF NoneBypassed
    <3>1. CASE p = r
      BY <3>1, <2>4 DEF Obtains
    <3>2. CASE p # r
      BY <3>2, <2>3, <2>5 DEF Obtains, NoNewLease, Holder
    <3> QED
      BY <3>1, <3>2
  <2> QED
    BY <2>2, <2>6
<1> QED
  BY <1>2, <1>3, OrderNextStage DEF Attempt, Leased

OrderState == OrderOf(waiters, req)

LEMMA OrderInit == Init => OrderState
<1> SUFFICES ASSUME Init PROVE OrderState
  OBVIOUS
<1>1. \A r \in Requests : req[r].ahead = {}
  BY DEF Init, NoCall, CallAt
<1> QED
  BY <1>1 DEF OrderState, OrderOf

\* A step after which the queues are as before, and which grants nothing.
LEMMA OrderIdle ==
  ASSUME OrderOf(waiters, req), req' \in [Requests -> Call], UNCHANGED waiters,
         Forgets(req', req), NoNewLease(req', req)
  PROVE  OrderOf(waiters', req') /\ NoneBypassed
BY SameOrder, OrderKept, NoLeaseNoBypass

\* The queue of lane l loses the calls that settle.
LEMMA OrderSettles ==
  ASSUME TypeOK, OrderOf(waiters, req), NEW l \in Lanes, NEW t, NEW gone \in SUBSET Requests,
         waiters' = [waiters EXCEPT ![l] = t], InOrder(t, waiters[l], gone),
         req' = Leaving(req, gone)
  PROVE  OrderOf(waiters', req') /\ NoneBypassed
<1>1. req \in [Requests -> Call] /\ waiters \in [Lanes -> Seq(Requests)]
  BY DEF TypeOK
<1>2. /\ Forgets(req', req) /\ req' \in [Requests -> Call] /\ NoNewLease(req', req)
      /\ \A r \in gone : req'[r].phase = "out"
  BY <1>1, LeavingForgets, LeavingType, LeavingNoLease
<1>3. \A r \in gone : req'[r].phase # "queued"
  BY <1>2
<1>4. KeepsOrder(waiters', waiters, req')
  BY <1>1, <1>3, DroppedOrder
<1> QED
  BY <1>2, <1>4, OrderKept, NoLeaseNoBypass

\* No step lets a call pass one that waits, and every step keeps the order.
LEMMA OrderNext ==
  TypeOK /\ QueueState /\ OrderState /\ [Next]_vars =>
    OrderState' /\ NoneBypassed
<1> SUFFICES ASSUME TypeOK, QueueOf(waiters, req), OrderOf(waiters, req), [Next]_vars
             PROVE  OrderOf(waiters', req') /\ NoneBypassed
  BY DEF QueueState, OrderState
<1>0. /\ req \in [Requests -> Call] /\ waiters \in [Lanes -> Seq(Requests)]
      /\ tasks \subseteq Task
      /\ \A r \in Requests : req[r].lane \in Lanes
  BY DEF TypeOK, Call
<1>0a. req' \in [Requests -> Call]
  BY TypeNext DEF TypeOK
\* The calls that settle were not queued.
<1>0b. \A r \in Requests : /\ Forgets(Leave(r), req) /\ NoNewLease(Leave(r), req)
                           /\ Leave(r) \in [Requests -> Call]
                           /\ Leave(r)[r].phase = "out"
                           /\ \A q \in Requests \ {r} : Leave(r)[q].phase = req[q].phase
  <2> SUFFICES ASSUME NEW r \in Requests
               PROVE  /\ Forgets(Leave(r), req) /\ NoNewLease(Leave(r), req)
                      /\ Leave(r) \in [Requests -> Call]
                      /\ Leave(r)[r].phase = "out"
                      /\ \A q \in Requests \ {r} : Leave(r)[q].phase = req[q].phase
    OBVIOUS
  <2>1. /\ Forgets(Leave(r), req) /\ NoNewLease(Leave(r), req)
        /\ Leave(r) \in [Requests -> Call]
        /\ Leave(r)[r].phase = "out"
    BY <1>0, LeavingForgets, LeavingNoLease, LeavingType DEF Leave
  <2>2. \A q \in Requests \ {r} : Leave(r)[q] = [req[q] EXCEPT !.ahead = @ \ {r}]
    BY DEF Leave, Leaving
  <2>3. \A q \in Requests : req[q] \in Call
    BY <1>0
  <2>4. \A q \in Requests \ {r} : Leave(r)[q].phase = req[q].phase
    BY <2>2, <2>3 DEF Call
  <2> QED
    BY <2>1, <2>4
<1>0c. \A r \in Requests : OrderOf(waiters, Leave(r))
  <2> SUFFICES ASSUME NEW r \in Requests PROVE OrderOf(waiters, Leave(r))
    OBVIOUS
  <2>1. KeepsOrder(waiters, waiters, Leave(r))
    BY SameOrder
  <2> QED
    BY <2>1, <1>0b, OrderKept
\* A call that was not queued settles, and #serveWaiter follows.
<1>0d. ASSUME NEW r \in Requests, req[r].phase # "queued", NEW l \in Lanes, NEW bz, NEW tk,
              ServeWaiter(l, bz, Leave(r), tk)
       PROVE  OrderOf(waiters', req') /\ NoneBypassed
  <2>1. \A q \in Requests : Leave(r)[q].phase = "queued" <=> req[q].phase = "queued"
    <3>1. \A q \in Requests \ {r} : Leave(r)[q].phase = req[q].phase
      BY <1>0b
    <3>2. Leave(r)[r].phase = "out"
      BY <1>0b
    <3> QED
      BY <3>1, <3>2, <1>0d
  <2>2. OrderOf(waiters, Leave(r)) /\ NoNewLease(Leave(r), req) /\ Leave(r) \in [Requests -> Call]
    BY <1>0b, <1>0c
  <2> QED
    BY <2>1, <2>2, <1>0d, OrderServed
<1>1. ASSUME UNCHANGED <<waiters, req>>
      PROVE  OrderOf(waiters', req') /\ NoneBypassed
  BY <1>1, NoLeaseNoBypass DEF NoNewLease
<1>2. ASSUME NEW r \in Requests, Arrive(r)
      PROVE  OrderOf(waiters', req') /\ NoneBypassed
  <2>1. /\ req'[r].phase = "entering" /\ \A q \in req'[r].ahead : req[q].phase = "queued"
        /\ req'[r].ahead \subseteq Requests
        /\ \A q \in Requests \ {r} : req'[q] = req[q]
        /\ req[r].phase = "out" /\ UNCHANGED waiters
    BY <1>0, <1>2 DEF Arrive
  <2>2. NoneBypassed
    <3>1. NoNewLease(req', req)
      BY <2>1 DEF NoNewLease, Holder, Leased
    <3> QED
      BY <3>1, NoLeaseNoBypass
  <2>3. \A p \in Requests : req[p].ahead \subseteq Requests
    BY <1>0 DEF Call
  <2>4. OrderOf(waiters', req')
    <3> SUFFICES ASSUME NEW p \in Requests, NEW q \in req'[p].ahead
                 PROVE  /\ req'[q].phase = "queued"
                        /\ req'[p].phase \in Between => Home[q] # req'[p].lane
                        /\ req'[p].phase = "queued" /\ Home[q] = Home[p] =>
                             Before(waiters'[Home[p]], q, p)
      BY DEF OrderOf
    <3>1. CASE p = r
      BY <3>1, <2>1 DEF Between
    <3>2. CASE p # r
      <4>1. q \in req[p].ahead /\ q \in Requests /\ req'[p] = req[p] /\ req[q].phase = "queued"
        BY <3>2, <2>1, <2>3 DEF OrderOf
      <4>2. req'[q] = req[q]
        BY <4>1, <2>1
      <4> QED
        BY <4>1, <4>2, <2>1 DEF OrderOf
    <3> QED
      BY <3>1, <3>2
  <2> QED
    BY <2>2, <2>4
<1>3. ASSUME NEW r \in Requests, Enter(r)
      PROVE  OrderOf(waiters', req') /\ NoneBypassed
  <2>1. req[r].phase # "queued" /\ req[r].lane \in Lanes
    BY <1>0, <1>3 DEF Enter
  <2>2. CASE req' = Leave(r) /\ UNCHANGED waiters
    BY <2>2, <1>0a, <1>0b, OrderIdle
  <2>3. CASE waiters[req[r].lane] = <<>> /\ Attempt(r, workers[req[r].lane])
    <3>1. \A q \in req[r].ahead : Home[q] # req[r].lane
      <4> SUFFICES ASSUME NEW q \in req[r].ahead, Home[q] = req[r].lane
                   PROVE  FALSE
        OBVIOUS
      <4>1. q \in Requests
        BY <1>0 DEF Call
      <4>2. req[q].phase = "queued"
        BY DEF OrderOf
      <4>3. \E i \in Entries(waiters[req[r].lane]) : TRUE
        BY <4>1, <4>2, <2>1 DEF QueueOf
      <4>4. Len(waiters[req[r].lane]) = 0
        BY <2>3
      <4> QED
        BY <4>3, <4>4 DEF Entries
    <3>2. workers[req[r].lane] \in SUBSET Workers
      BY <2>1 DEF TypeOK
    <3> QED
      BY <2>1, <2>3, <3>1, <3>2, OrderAttempt
  <2>4. CASE NextStage(r)
    BY <2>1, <2>4, OrderNextStage
  <2> QED
    BY <2>2, <2>3, <2>4, <1>3 DEF Enter
<1>4. ASSUME NEW r \in Requests, Resume(r)
      PROVE  OrderOf(waiters', req') /\ NoneBypassed
  <2>1. req[r].phase = "resuming" /\ req[r].rest \in SUBSET Workers
    BY <1>0, <1>4 DEF Resume, Call
  <2>2. \A q \in req[r].ahead : Home[q] # req[r].lane
    BY <2>1 DEF OrderOf, Between
  <2>3. req[r].phase # "queued" /\ Attempt(r, req[r].rest)
    BY <2>1, <1>4 DEF Resume
  <2> QED
    BY <2>1, <2>2, <2>3, OrderAttempt
<1>5. ASSUME NEW r \in Requests, Started(r)
      PROVE  OrderOf(waiters', req') /\ NoneBypassed
  <2>1. /\ req[r].phase = "starting" /\ req[r].phase # "queued" /\ UNCHANGED waiters
        /\ req' = [req EXCEPT ![r].phase = "running"]
    BY <1>5 DEF Started
  <2>2. Forgets(req', req)
    <3>1. "running" \in Phase \ {"queued"} /\ "running" \notin Between
      BY DEF Phase, Leased, Between
    <3> QED
      BY <3>1, <2>1, <1>0, PhaseForgets
  <2>3. NoneBypassed
    <3>1. \A q \in Requests : req'[q].phase \in Leased => req[q].phase \in Leased
      BY <2>1, <1>0 DEF Leased, Call
    <3> QED
      BY <3>1 DEF NoneBypassed, Obtains
  <2>4. KeepsOrder(waiters, waiters, req')
    BY SameOrder
  <2>5. OrderOf(waiters, req')
    BY <2>2, <2>4, <1>0a, OrderKept
  <2> QED
    BY <2>1, <2>3, <2>5
<1>6. ASSUME NEW r \in Requests, NEW phase \in Closing \ {"discarding"}, NEW l, NEW rest,
             req[r].phase # "queued",
             req' = Goes(r, phase, l, 1, rest), UNCHANGED waiters
      PROVE  OrderOf(waiters', req') /\ NoneBypassed
  <2>1. /\ phase \in Phase \ {"queued"} /\ phase \in Phase \ Leased /\ phase \notin Between
    BY DEF Closing, Phase, Between, Leased
  <2>2. Forgets(req', req)
    BY <2>1, <1>0, <1>6, GoesForgets
  <2>3. NoNewLease(req', req)
    BY <2>1, <1>0, <1>6, GoesNoLease
  <2> QED
    BY <2>2, <2>3, <1>0a, <1>6, OrderIdle
<1>7. ASSUME NEW r \in Requests, StartFailed(r)
      PROVE  OrderOf(waiters', req') /\ NoneBypassed
  <2>1. /\ req[r].phase # "queued" /\ "failing" \in Closing \ {"discarding"}
        /\ req' = Goes(r, "failing", req[r].lane, 1, {}) /\ UNCHANGED waiters
    BY <1>7 DEF StartFailed, Closing
  <2> QED
    BY <2>1, <1>6
<1>8. ASSUME NEW r \in Requests, ChildGone(r)
      PROVE  OrderOf(waiters', req') /\ NoneBypassed
  <2> DEFINE l == req[r].lane
  <2>1. l \in Lanes /\ req[r].phase \in Closing /\ req[r].phase # "queued"
    BY <1>0, <1>8 DEF ChildGone, Closing
  <2>2. ASSUME NEW phase \in {"resuming", "replenishing"},
               phase = "resuming" => req[r].phase = "discarding",
               ServeWaiter(l, busy, [req EXCEPT ![r].phase = phase], tasks)
        PROVE  OrderOf(waiters', req') /\ NoneBypassed
    <3> DEFINE rq == [req EXCEPT ![r].phase = phase]
    <3>1. /\ phase \in Phase \ {"queued"} /\ phase \in Phase \ Leased
          /\ phase \in Between => req[r].phase \in Between
      BY <2>2 DEF Phase, Microtask, Between, Leased
    <3>2. /\ Forgets(rq, req) /\ NoNewLease(rq, req) /\ rq \in [Requests -> Call]
          /\ Unqueues(rq, req, {r})
      BY <2>1, <3>1, <1>0, PhaseForgets, PhaseNoLease, PhaseType, PhaseUnqueues
    <3>3. ServeWaiter(l, busy, rq, tasks)
      BY <2>2
    <3> HIDE DEF rq
    <3>4. \A q \in Requests : rq[q].phase = "queued" <=> req[q].phase = "queued"
      BY <3>2, <2>1 DEF Unqueues
    <3>5. KeepsOrder(waiters, waiters, rq)
      BY SameOrder
    <3>6. OrderOf(waiters, rq)
      BY <3>2, <3>5, OrderKept
    <3> QED
      BY <2>1, <3>2, <3>3, <3>4, <3>6, OrderServed
  <2>3. CASE req[r].phase = "discarding"
    BY <2>2, <2>3, <1>8 DEF ChildGone
  <2>4. CASE req[r].phase = "failing"
    <3>1. ServeWaiter(l, busy, Leave(r), tasks)
      BY <2>4, <1>8 DEF ChildGone
    <3> QED
      BY <3>1, <2>1, <1>0d
  <2>5. CASE req[r].phase = "releasing"
    BY <2>2, <2>5, <1>8 DEF ChildGone
  <2> QED
    BY <2>1, <2>3, <2>4, <2>5 DEF Closing
<1>9. ASSUME NEW r \in Requests, RunEnds(r)
      PROVE  OrderOf(waiters', req') /\ NoneBypassed
  <2> DEFINE l == WorkerBucket(r)
  <2>1. l \in Lanes /\ req[r].phase # "queued"
    BY <1>0, <1>9 DEF RunEnds, WorkerBucket
  <2>2. CASE req' = Leave(r) /\ UNCHANGED waiters
    BY <2>2, <1>0a, <1>0b, OrderIdle
  <2>3. CASE req' = Goes(r, "releasing", l, 1, {}) /\ UNCHANGED waiters
    <3>1. "releasing" \in Closing \ {"discarding"}
      BY DEF Closing
    <3> QED
      BY <3>1, <2>1, <2>3, <1>6
  <2>4. CASE ServeWaiter(l, busy \ {req[r].worker}, Leave(r), tasks)
    BY <2>1, <2>4, <1>0d
  <2> QED
    BY <2>2, <2>3, <2>4, <1>9 DEF RunEnds
<1>10. ASSUME NEW r \in Requests, ReplenishAfterRelease(r)
       PROVE  OrderOf(waiters', req') /\ NoneBypassed
  <2>1. req[r].phase # "queued" /\ req[r].lane \in Lanes
    BY <1>0, <1>10 DEF ReplenishAfterRelease
  <2>2. CASE ServeWaiter(req[r].lane, busy, Leave(r), tasks)
    BY <2>1, <2>2, <1>0d
  <2>3. CASE req' = Leave(r) /\ UNCHANGED waiters
    BY <2>3, <1>0a, <1>0b, OrderIdle
  <2> QED
    BY <2>2, <2>3, <1>10 DEF ReplenishAfterRelease, Spawn
<1>11. ASSUME NEW r \in Requests, Dequeue(r), req' = Leave(r)
       PROVE  OrderOf(waiters', req') /\ NoneBypassed
  <2> DEFINE l == Home[r]
             s == waiters[l]
  <2>1. l \in Lanes /\ s \in Seq(Requests) /\ DOMAIN s = Entries(s)
    BY <1>0, PoolConstants DEF Entries
  <2>2. PICK i \in Entries(s) : s[i] = r /\ waiters' = [waiters EXCEPT ![l] = RemoveAt(s, i)]
    BY <2>1, <1>11 DEF Dequeue
  <2>3. InOrder(RemoveAt(s, i), s, {r})
    <3>1. InOrder(RemoveAt(s, i), s, {s[i]})
      BY <2>1, OrderOne
    <3> QED
      BY <3>1, <2>2
  <2>4. req' = Leaving(req, {r}) /\ {r} \in SUBSET Requests
    BY <1>11 DEF Leave
  <2> QED
    BY <2>1, <2>2, <2>3, <2>4, OrderSettles
<1>12. ASSUME NEW r \in Requests, Abort(r)
       PROVE  OrderOf(waiters', req') /\ NoneBypassed
  <2>1. CASE Dequeue(r) /\ req' = Leave(r)
    BY <2>1, <1>11
  <2>2. CASE /\ req[r].phase = "discarding"
             /\ req' = [req EXCEPT ![r].aborted = TRUE]
             /\ UNCHANGED waiters
    <3>1. \A q \in Requests : /\ req'[q].phase = req[q].phase /\ req'[q].lane = req[q].lane
                              /\ req'[q].ahead = req[q].ahead
                              /\ req'[q].worker = req[q].worker
      BY <1>0, <2>2 DEF Call
    <3>2. \A q \in Requests : req[q].ahead \subseteq Requests
      BY <1>0 DEF Call
    <3>3. Forgets(req', req) /\ NoNewLease(req', req)
      BY <3>1, <3>2 DEF Forgets, NoNewLease, Holder
    <3> QED
      BY <2>2, <3>3, <1>0a, OrderIdle
  <2> QED
    BY <2>1, <2>2, <1>12 DEF Abort
<1>13. ASSUME NEW r \in Requests, QueueTimeout(r)
       PROVE  OrderOf(waiters', req') /\ NoneBypassed
  BY <1>11, <1>13 DEF QueueTimeout
<1>14. ASSUME NEW t \in tasks, TaskStep(t)
       PROVE  OrderOf(waiters', req') /\ NoneBypassed
  <2> DEFINE l == t.lane
  <2>1. l \in Lanes
    BY <1>0 DEF Task
  <2>2. PICK w \in t.pending \cup t.dead :
          TaskReady(t, w) \/ TaskStartFailed(t, w) \/ TaskRejects(t, w)
    BY <1>14 DEF TaskStep
  <2>3. CASE TaskReady(t, w)
    <3>1. ASSUME ServeWaiter(l, busy \ {w}, req, tasks \ {t})
          PROVE  OrderOf(waiters', req') /\ NoneBypassed
      <4>1. NoNewLease(req, req)
        BY DEF NoNewLease
      <4> QED
        BY <4>1, <3>1, <2>1, <1>0, OrderServed
    <3> QED
      BY <3>1, <2>3, <1>1 DEF TaskReady
  <2>4. CASE TaskStartFailed(t, w)
    BY <2>4, <1>1 DEF TaskStartFailed
  <2>5. CASE TaskRejects(t, w)
    <3>1. CASE /\ waiters[l] # <<>>
               /\ req' = Leave(Head(waiters[l]))
               /\ waiters' = [waiters EXCEPT ![l] = Tail(@)]
      <4> DEFINE s == waiters[l]
                 h == Head(s)
      <4>1. s \in Seq(Requests) /\ InOrder(Tail(s), s, {h}) /\ h \in Requests
        BY <3>1, <2>1, <1>0, OrderHead, HeadTailProperties
      <4>2. /\ req' = Leaving(req, {h}) /\ {h} \in SUBSET Requests
            /\ waiters' = [waiters EXCEPT ![l] = Tail(s)]
        BY <3>1, <4>1 DEF Leave
      <4> QED
        BY <2>1, <4>1, <4>2, OrderSettles
    <3> QED
      BY <3>1, <2>5, <1>1 DEF TaskRejects
  <2> QED
    BY <2>2, <2>3, <2>4, <2>5
<1>15. ASSUME NEW l \in Lanes, Trim(l) \/ Retired(l) \/ Prime(l)
       PROVE  OrderOf(waiters', req') /\ NoneBypassed
  BY <1>15, <1>1 DEF Trim, Retired, Prime, Spawn
<1>16. ASSUME NEW w \in Workers, WearOut(w)
       PROVE  OrderOf(waiters', req') /\ NoneBypassed
  BY <1>16, <1>1 DEF WearOut
<1>17. CASE CloseAll
  <2> DEFINE rs == {r \in Requests : req[r].phase = "queued"}
  <2>1. rs \in SUBSET Requests /\ req' = Leaving(req, rs)
    BY <1>17 DEF CloseAll
  <2>2. NoNewLease(req', req) /\ \A r \in rs : req'[r].phase = "out"
    BY <2>1, <1>0, LeavingNoLease
  <2>3. \A r \in Requests : req'[r].ahead = {}
    <3> SUFFICES ASSUME NEW r \in Requests, r \notin rs, NEW q \in req'[r].ahead
                 PROVE  FALSE
      BY <2>1 DEF Leaving, NoCall, CallAt
    <3>1. req'[r] = [req[r] EXCEPT !.ahead = @ \ rs] /\ req[r] \in Call
      BY <2>1, <1>0 DEF Leaving
    <3>2. q \in req[r].ahead /\ q \notin rs /\ q \in Requests
      BY <3>1 DEF Call
    <3> QED
      BY <3>2 DEF OrderOf
  <2> QED
    BY <2>2, <2>3, NoLeaseNoBypass DEF OrderOf
<1>18. CASE UNCHANGED vars
  BY <1>18, <1>1 DEF vars
<1> QED
  BY <1>2, <1>3, <1>4, <1>5, <1>7, <1>8, <1>9, <1>10, <1>12, <1>13, <1>14, <1>15,
     <1>16, <1>17, <1>18
  DEF Next, RequestStep

\* NoBypass: "Never let a newer request bypass an already queued request", per
\* lane, through every await of tryAcquireNow and every grant of #serveWaiter
\* of execution-pool.ts.
THEOREM NobodyBypassed == Spec => NoBypass
<1>1. TypeOK /\ QueueState /\ OrderState /\ [Next]_vars => [NoneBypassed]_vars
  BY OrderNext
<1>2. [NoneBypassed]_vars <=> [\A r \in Requests : \A q \in req[r].ahead :
                                 Obtains(r, Home[q]) => req[q].aborted]_vars
  BY DEF NoneBypassed
<1> QED
  BY <1>1, <1>2, OrderInit, OrderNext, QueueInit, QueueNext, TypeInit, TypeNext, PTL
  DEF Spec, NoBypass

-----------------------------------------------------------------------------
(***************************************************************************)
(* Wake-ups.  A full bucket whose workers are all busy has a server,       *)
(* because every busy worker belongs to a call of the lane or is being     *)
(* started (Owned), and a warm-up, which serves nobody, starts fewer than  *)
(* the ceiling (Room).  As before the buckets ws, flags bz and wn, queues  *)
(* wt, calls rq and continuations tk are parameters: #serveWaiter runs     *)
(* when the queue of its lane may have lost its server.                    *)
(***************************************************************************)
Server(k, rq, tk) ==
  \/ \E r \in Requests : rq[r].phase \in Leased \cup Closing /\ rq[r].lane = k
  \/ \E t \in tk : t.kind = "replenish" /\ t.lane = k

\* The workers of lane l that a warm-up starts.
Warming(l, ws, tk) ==
  {w \in ws[l] : \E t \in tk : t.kind = "ensure" /\ t.lane = l /\ w \in t.pending}

Apart(ws) == \A k, l \in Lanes : k # l => ws[k] \cap ws[l] = {}

OwnedIn(l, w, rq, tk) ==
  \/ \E r \in Requests : rq[r].phase \in Leased /\ rq[r].worker = w /\ rq[r].lane = l
  \/ \E t \in tk : t.lane = l /\ w \in t.pending

Owned(ws, bz, rq, tk) == \A l \in Lanes : \A w \in ws[l] \cap bz : OwnedIn(l, w, rq, tk)

Room(ws, tk) ==
  \A l \in Lanes : Attended(l) => Cardinality(Warming(l, ws, tk)) < TargetSize(l)

\* A worn worker idles in lane l.
Clogged(l, ws, bz, wn) == (ws[l] \ bz) \cap wn # {}

Awaited(l, ws, bz, wn, wt, rq, tk) ==
  Attended(l) /\ wt[l] # <<>> => Server(l, rq, tk) \/ Clogged(l, ws, bz, wn)

Sound(ws, bz, rq, tk) == Apart(ws) /\ Owned(ws, bz, rq, tk) /\ Room(ws, tk)

\* The calls of rq but those of gone that hold or close a worker still do.
StillServes(rt, rq, gone) ==
  \A r \in Requests \ gone :
    rq[r].phase \in Leased \cup Closing =>
      /\ rt[r].phase \in Leased \cup Closing /\ rt[r].lane = rq[r].lane
      /\ rq[r].phase \in Leased =>
           rt[r].phase \in Leased /\ rt[r].worker = rq[r].worker

\* The continuations of tk go on in tt, for the workers in bt at least.
TasksGoOn(tt, tk, bt) ==
  /\ \A t \in tk : \A w \in t.pending \cap bt :
       \E u \in tt : u.lane = t.lane /\ w \in u.pending
  /\ \A t \in tk : t.kind = "replenish" =>
       \E u \in tt : u.kind = "replenish" /\ u.lane = t.lane
  /\ \A u \in tt : u.kind = "ensure" =>
       \E t \in tk : t.kind = "ensure" /\ t.lane = u.lane /\ u.pending \subseteq t.pending

LEMMA SameTasks == ASSUME NEW tk, NEW bt PROVE TasksGoOn(tk, tk, bt)
BY DEF TasksGoOn

\* Calls that neither hold nor close a worker may go.
LEMMA IdlersGo ==
  ASSUME NEW rq, NEW rt, NEW gone, StillServes(rt, rq, gone),
         \A r \in gone \cap Requests : rq[r].phase \notin Leased \cup Closing
  PROVE  StillServes(rt, rq, {})
BY DEF StillServes

LEMMA SameCalls == ASSUME NEW rq PROVE StillServes(rq, rq, {})
BY DEF StillServes

LEMMA LeavingServes ==
  ASSUME NEW rq \in [Requests -> Call], NEW rs
  PROVE  StillServes(Leaving(rq, rs), rq, rs)
<1>1. \A r \in Requests \ rs : Leaving(rq, rs)[r] = [rq[r] EXCEPT !.ahead = @ \ rs]
  BY DEF Leaving
<1>2. \A r \in Requests : rq[r] \in Call
  OBVIOUS
<1> QED
  BY <1>1, <1>2 DEF StillServes, Call

LEMMA HoldServes ==
  ASSUME NEW rq \in [Requests -> Call], NEW r \in Requests, NEW phase \in Leased,
         NEW w, NEW l
  PROVE  /\ StillServes(Hold(rq, r, phase, w, l), rq, {r})
         /\ Hold(rq, r, phase, w, l)[r].phase \in Leased
         /\ Hold(rq, r, phase, w, l)[r].worker = w
         /\ Hold(rq, r, phase, w, l)[r].lane = l
<1> DEFINE rt == Hold(rq, r, phase, w, l)
           qr == Leaving(rq, {r})
<1>1. qr \in [Requests -> Call] /\ StillServes(qr, rq, {r})
  BY LeavingType, LeavingServes
<1>2. rt[r] = CallAt(phase, w, l) /\ \A q \in Requests \ {r} : rt[q] = qr[q]
  BY <1>1 DEF Hold
<1>3. rt[r].phase = phase /\ rt[r].worker = w /\ rt[r].lane = l
  BY <1>2 DEF CallAt
<1> HIDE DEF rt, qr
<1>4. StillServes(rt, rq, {r})
  BY <1>1, <1>2 DEF StillServes
<1> QED
  BY <1>3, <1>4 DEF rt

LEMMA GoesServes ==
  ASSUME req \in [Requests -> Call], NEW r \in Requests, NEW phase, NEW l, NEW stage, NEW rest
  PROVE  /\ StillServes(Goes(r, phase, l, stage, rest), req, {r})
         /\ Goes(r, phase, l, stage, rest)[r].phase = phase
         /\ Goes(r, phase, l, stage, rest)[r].lane = l
BY DEF Goes, StillServes

LEMMA PhaseServes ==
  ASSUME req \in [Requests -> Call], NEW r \in Requests, NEW phase
  PROVE  StillServes([req EXCEPT ![r].phase = phase], req, {r})
BY DEF StillServes

LEMMA OwnedStays ==
  ASSUME NEW l, NEW w, NEW rq, NEW tk, NEW rt, NEW tt, NEW bt,
         OwnedIn(l, w, rq, tk), w \in bt,
         StillServes(rt, rq, {}), TasksGoOn(tt, tk, bt)
  PROVE  OwnedIn(l, w, rt, tt)
<1>1. CASE \E r \in Requests : rq[r].phase \in Leased /\ rq[r].worker = w /\ rq[r].lane = l
  BY <1>1 DEF StillServes, OwnedIn
<1>2. CASE \E t \in tk : t.lane = l /\ w \in t.pending
  BY <1>2 DEF TasksGoOn, OwnedIn
<1> QED
  BY <1>1, <1>2 DEF OwnedIn

LEMMA ServerStays ==
  ASSUME NEW l, NEW rq, NEW tk, NEW rt, NEW tt, NEW bt,
         Server(l, rq, tk), StillServes(rt, rq, {}), TasksGoOn(tt, tk, bt)
  PROVE  Server(l, rt, tt)
<1>1. CASE \E r \in Requests : rq[r].phase \in Leased \cup Closing /\ rq[r].lane = l
  BY <1>1 DEF StillServes, Server
<1>2. CASE \E t \in tk : t.kind = "replenish" /\ t.lane = l
  BY <1>2 DEF TasksGoOn, Server
<1> QED
  BY <1>1, <1>2 DEF Server

\* Fewer warming workers leave room.
LEMMA RoomStays ==
  ASSUME NEW ws \in [Lanes -> SUBSET Workers], NEW tk, NEW vs \in [Lanes -> SUBSET Workers],
         NEW tt, Room(ws, tk),
         \A l \in Lanes : Attended(l) => Warming(l, vs, tt) \subseteq Warming(l, ws, tk)
  PROVE  Room(vs, tt)
<1> SUFFICES ASSUME NEW l \in Lanes, Attended(l)
             PROVE  Cardinality(Warming(l, vs, tt)) < TargetSize(l)
  BY DEF Room
<1> DEFINE V == Warming(l, vs, tt)
           W == Warming(l, ws, tk)
<1>1. W \subseteq Workers
  BY DEF Warming
<1>2. IsFiniteSet(W) /\ V \subseteq W
  BY <1>1, PoolConstants, FS_Subset
<1>3. Cardinality(W) < TargetSize(l)
  BY DEF Room
<1> HIDE DEF V, W
<1>4. Cardinality(V) <= Cardinality(W) /\ IsFiniteSet(V)
  BY <1>2, FS_Subset
<1>5. Cardinality(V) \in Nat /\ Cardinality(W) \in Nat /\ TargetSize(l) \in Int
  BY <1>2, <1>4, FS_CardinalityType, PoolConstants DEF TargetSize, Smaller, Larger
<1>6. Cardinality(V) < TargetSize(l)
  BY <1>3, <1>4, <1>5
<1> QED
  BY <1>6 DEF V

\* Buckets and flags that only shrink, with calls and continuations that go on.
LEMMA SoundShrinks ==
  ASSUME NEW ws \in [Lanes -> SUBSET Workers], NEW bz, NEW rq, NEW tk,
         NEW vs \in [Lanes -> SUBSET Workers], NEW bt, NEW rt, NEW tt,
         Sound(ws, bz, rq, tk),
         \A l \in Lanes : vs[l] \subseteq ws[l], bt \subseteq bz,
         StillServes(rt, rq, {}), TasksGoOn(tt, tk, bt)
  PROVE  Sound(vs, bt, rt, tt)
<1>1. Apart(vs)
  BY DEF Sound, Apart
<1>2. Owned(vs, bt, rt, tt)
  <2> SUFFICES ASSUME NEW l \in Lanes, NEW w \in vs[l] \cap bt
               PROVE  OwnedIn(l, w, rt, tt)
    BY DEF Owned
  <2>1. OwnedIn(l, w, rq, tk)
    BY DEF Sound, Owned
  <2> QED
    BY <2>1, OwnedStays
<1>3. Room(vs, tt)
  <2>1. \A l \in Lanes : Attended(l) => Warming(l, vs, tt) \subseteq Warming(l, ws, tk)
    BY DEF Warming, TasksGoOn
  <2> QED
    BY <2>1, RoomStays DEF Sound
<1> QED
  BY <1>1, <1>2, <1>3 DEF Sound

\* A full bucket without a fit worker has a server, or a worn worker idles.
LEMMA FullIsServed ==
  ASSUME TypeOK, NEW l \in Lanes, NEW bz, NEW rq, NEW tk, tk \subseteq Task,
         Sound(workers, bz, rq, tk), Attended(l),
         (workers[l] \ bz) \ worn = {}, Cardinality(workers[l]) >= TargetSize(l)
  PROVE  Server(l, rq, tk) \/ Clogged(l, workers, bz, worn)
<1> SUFFICES ASSUME ~Clogged(l, workers, bz, worn) PROVE Server(l, rq, tk)
  OBVIOUS
<1>1. workers[l] \subseteq bz
  BY DEF Clogged
<1> DEFINE W == Warming(l, workers, tk)
<1>2. W \subseteq workers[l] /\ Cardinality(W) < TargetSize(l)
  BY DEF Warming, Sound, Room
<1>3. W # workers[l]
  <2>1. Cardinality(workers[l]) \in Nat /\ TargetSize(l) \in Nat
    BY CountTypes
  <2> QED
    BY <1>2, <2>1
<1>4. PICK w \in workers[l] : w \notin W
  BY <1>2, <1>3
<1>5. OwnedIn(l, w, rq, tk)
  BY <1>1, <1>4 DEF Sound, Owned
<1>6. CASE \E r \in Requests : rq[r].phase \in Leased /\ rq[r].worker = w /\ rq[r].lane = l
  BY <1>6 DEF Server
<1>7. CASE \E t \in tk : t.lane = l /\ w \in t.pending
  <2>1. PICK t \in tk : t.lane = l /\ w \in t.pending
    BY <1>7
  <2>2. t.kind # "ensure"
    BY <1>4, <2>1 DEF Warming
  <2>3. t.kind \in {"ensure", "replenish"}
    BY DEF Task
  <2> QED
    BY <2>1, <2>2, <2>3 DEF Server
<1> QED
  BY <1>5, <1>6, <1>7 DEF OwnedIn

\* Unused identities are in no bucket.
LEMMA UnusedApart == \A l \in Lanes : workers[l] \cap Unused = {}
<1> DEFINE A == UNION {workers[l] : l \in Lanes}
           B == UNION {t.pending \cup t.dead : t \in tasks}
           C == {req[r].worker : r \in Requests}
           D == UNION {req[r].rest : r \in Requests}
<1>1. Unused = Workers \ (A \cup B \cup C \cup D)
  BY DEF Unused
<1>2. \A l \in Lanes : workers[l] \subseteq A
  OBVIOUS
<1> HIDE DEF A, B, C, D
<1> QED
  BY <1>1, <1>2

\* #ensureSize: every worker it starts belongs to its continuation.
LEMMA SoundSpawned ==
  ASSUME TypeOK, NEW l \in Lanes, NEW n, NEW kind \in {"ensure", "replenish"},
         NEW bz, NEW rq, NEW tk, tk \subseteq tasks,
         Sound(workers, bz, rq, tk), Spawn(l, n, kind, bz, rq, tk),
         kind = "ensure" /\ Attended(l) => Cardinality(workers'[l]) < TargetSize(l)
  PROVE  /\ Sound(workers', busy', req', tasks')
         /\ kind = "replenish" => Server(l, req', tasks')
         /\ \A k \in Lanes : Server(k, rq, tk) => Server(k, req', tasks')
         /\ \A k \in Lanes : Clogged(k, workers, bz, worn) => Clogged(k, workers', busy', worn)
<1>1. PICK new \in SUBSET Unused :
        /\ workers' = [workers EXCEPT ![l] = @ \cup new]
        /\ busy' = bz \cup new
        /\ req' = rq
        /\ tasks' = tk \cup {[kind |-> kind, lane |-> l, pending |-> new, dead |-> {}]}
  BY DEF Spawn
<1> DEFINE t0 == [kind |-> kind, lane |-> l, pending |-> new, dead |-> {}]
<1>2. /\ t0.kind = kind /\ t0.lane = l /\ t0.pending = new
      /\ tasks' = tk \cup {t0}
  BY <1>1
<1> HIDE DEF t0
<1>3. workers \in [Lanes -> SUBSET Workers] /\ new \subseteq Workers
  BY DEF TypeOK, Unused
<1>4. workers'[l] = workers[l] \cup new /\ \A k \in Lanes \ {l} : workers'[k] = workers[k]
  BY <1>1, <1>3
<1>5. \A k \in Lanes : workers[k] \cap new = {}
  BY UnusedApart
<1>6. \A t \in tk : t.pending \cap new = {}
  BY UnusedIsFree
<1>7. workers' \in [Lanes -> SUBSET Workers]
  BY <1>1, <1>3
<1>8. Apart(workers')
  BY <1>4, <1>5 DEF Sound, Apart
<1>9. Owned(workers', busy', req', tasks')
  <2> SUFFICES ASSUME NEW k \in Lanes, NEW w \in workers'[k] \cap busy'
               PROVE  OwnedIn(k, w, req', tasks')
    BY DEF Owned
  <2>1. CASE w \in new
    BY <2>1, <1>2, <1>4, <1>5 DEF OwnedIn
  <2>2. CASE w \notin new
    <3>1. OwnedIn(k, w, rq, tk)
      BY <2>2, <1>1, <1>4 DEF Sound, Owned
    <3> QED
      BY <3>1, <1>1, <1>2 DEF OwnedIn
  <2> QED
    BY <2>1, <2>2
<1>10. Room(workers', tasks')
  <2>1. CASE kind = "replenish"
    <3>1. \A k \in Lanes : Warming(k, workers', tasks') \subseteq Warming(k, workers, tk)
      BY <2>1, <1>2, <1>4, <1>6 DEF Warming
    <3> QED
      BY <3>1, <1>3, <1>7, RoomStays DEF Sound
  <2>2. CASE kind = "ensure"
    <3> SUFFICES ASSUME NEW k \in Lanes, Attended(k)
                 PROVE  Cardinality(Warming(k, workers', tasks')) < TargetSize(k)
      BY DEF Room
    <3> DEFINE V == Warming(k, workers', tasks')
    <3>1. CASE k # l
      <4>1. V = Warming(k, workers, tk)
        BY <3>1, <1>2, <1>4, <1>5 DEF Warming
      <4> QED
        BY <4>1 DEF Sound, Room
    <3>2. CASE k = l
      <4>1. V \subseteq workers'[l] /\ workers'[l] \subseteq Workers
        BY <3>2, <1>7 DEF Warming
      <4> HIDE DEF V
      <4>2. IsFiniteSet(workers'[l]) /\ IsFiniteSet(V)
        BY <4>1, PoolConstants, FS_Subset
      <4>3. /\ Cardinality(V) <= Cardinality(workers'[l])
            /\ Cardinality(V) \in Nat /\ Cardinality(workers'[l]) \in Nat
        BY <4>1, <4>2, FS_Subset, FS_CardinalityType
      <4>4. Cardinality(workers'[l]) < TargetSize(l) /\ TargetSize(l) \in Nat
        BY <2>2, <3>2, CountTypes
      <4>5. Cardinality(V) < TargetSize(l)
        BY <4>3, <4>4
      <4> QED
        BY <4>5, <3>2 DEF V
    <3> QED
      BY <3>1, <3>2
  <2> QED
    BY <2>1, <2>2
<1>11. kind = "replenish" => Server(l, req', tasks')
  BY <1>2 DEF Server
<1>12. \A k \in Lanes : Server(k, rq, tk) => Server(k, req', tasks')
  BY <1>1, <1>2 DEF Server
<1>13. \A k \in Lanes : Clogged(k, workers, bz, worn) => Clogged(k, workers', busy', worn)
  BY <1>1, <1>4, <1>5 DEF Clogged
<1> QED
  BY <1>8, <1>9, <1>10, <1>11, <1>12, <1>13 DEF Sound

\* A worker of lane l, or a new one, is handed to a call that had none.
LEMMA SoundGranted ==
  ASSUME NEW ws \in [Lanes -> SUBSET Workers], NEW vs \in [Lanes -> SUBSET Workers],
         NEW bz, NEW rq \in [Requests -> Call], NEW tk,
         NEW r \in Requests, NEW phase \in Leased, NEW w, NEW l \in Lanes,
         Sound(ws, bz, rq, tk), rq[r].phase \notin Leased \cup Closing,
         \A k \in Lanes : vs[k] \subseteq ws[k] \cup {w},
         \A k \in Lanes : w \in vs[k] => k = l,
         w \in ws[l] \/ \A t \in tk : w \notin t.pending
  PROVE  /\ Sound(vs, bz \cup {w}, Hold(rq, r, phase, w, l), tk)
         /\ Server(l, Hold(rq, r, phase, w, l), tk)
         /\ \A k \in Lanes : Server(k, rq, tk) => Server(k, Hold(rq, r, phase, w, l), tk)
<1> DEFINE rt == Hold(rq, r, phase, w, l)
           bt == bz \cup {w}
<1>1. /\ StillServes(rt, rq, {r})
      /\ rt[r].phase \in Leased /\ rt[r].worker = w /\ rt[r].lane = l
  BY HoldServes
<1> HIDE DEF rt
<1>2. StillServes(rt, rq, {})
  BY <1>1, IdlersGo
<1>3. Apart(vs)
  BY DEF Sound, Apart
<1>4. Owned(vs, bt, rt, tk)
  <2> SUFFICES ASSUME NEW k \in Lanes, NEW v \in vs[k] \cap bt
               PROVE  OwnedIn(k, v, rt, tk)
    BY DEF Owned
  <2>1. CASE v = w
    BY <2>1, <1>1 DEF OwnedIn
  <2>2. CASE v # w
    <3>1. v \in bz /\ OwnedIn(k, v, rq, tk)
      BY <2>2 DEF Sound, Owned
    <3>2. TasksGoOn(tk, tk, bz)
      BY SameTasks
    <3> QED
      BY <3>1, <3>2, <1>2, OwnedStays
  <2> QED
    BY <2>1, <2>2
<1>5. Room(vs, tk)
  <2>1. \A k \in Lanes : Warming(k, vs, tk) \subseteq Warming(k, ws, tk)
    BY DEF Warming
  <2> QED
    BY <2>1, RoomStays DEF Sound
<1>6. Server(l, rt, tk)
  BY <1>1 DEF Server
<1>7. \A k \in Lanes : Server(k, rq, tk) => Server(k, rt, tk)
  <2>1. TasksGoOn(tk, tk, bz)
    BY SameTasks
  <2> QED
    BY <2>1, <1>2, ServerStays
<1>8. Sound(vs, bt, rt, tk)
  BY <1>3, <1>4, <1>5 DEF Sound
<1> QED
  BY <1>6, <1>7, <1>8 DEF rt

\* After #serveWaiter somebody serves the queue of its lane.
LEMMA WaitServed ==
  ASSUME TypeOK, ~closed, NEW l \in Lanes, NEW bz, NEW rq \in [Requests -> Call], NEW tk,
         tk \subseteq tasks, QueueOf(waiters, rq), Sound(workers, bz, rq, tk),
         \A k \in Lanes \ {l} : Awaited(k, workers, bz, worn, waiters, rq, tk),
         ServeWaiter(l, bz, rq, tk)
  PROVE  /\ Sound(workers', busy', req', tasks')
         /\ \A k \in Lanes : Awaited(k, workers', busy', worn, waiters', req', tasks')
<1> DEFINE fit == (workers[l] \ bz) \ worn
           Prefix(n) == {waiters[l][i] : i \in 1..n}
           s == waiters[l]
           Goal == /\ Sound(workers', busy', req', tasks')
                   /\ \A k \in Lanes : Awaited(k, workers', busy', worn, waiters', req', tasks')
<1>1. /\ waiters \in [Lanes -> Seq(Requests)] /\ s \in Seq(Requests) /\ Len(s) \in Nat
      /\ workers \in [Lanes -> SUBSET Workers] /\ tasks \subseteq Task
  BY DEF TypeOK
<1>2. \A i \in Entries(s) : s[i] \in Requests /\ rq[s[i]].phase = "queued"
  BY <1>1 DEF Entries, QueueOf
<1>3. ASSUME NEW P \in SUBSET Requests, \A r \in P : rq[r].phase = "queued"
      PROVE  /\ Leaving(rq, P) \in [Requests -> Call]
             /\ StillServes(Leaving(rq, P), rq, {})
             /\ Sound(workers, bz, Leaving(rq, P), tk)
             /\ \A k \in Lanes : Server(k, rq, tk) => Server(k, Leaving(rq, P), tk)
  <2>1. Leaving(rq, P) \in [Requests -> Call] /\ StillServes(Leaving(rq, P), rq, P)
    BY LeavingType, LeavingServes
  <2>2. StillServes(Leaving(rq, P), rq, {})
    <3>1. \A r \in P \cap Requests : rq[r].phase \notin Leased \cup Closing
      BY <1>3 DEF Leased, Closing
    <3> QED
      BY <2>1, <3>1, IdlersGo
  <2>3. TasksGoOn(tk, tk, bz)
    BY SameTasks
  <2> QED
    BY <2>1, <2>2, <2>3, <1>1, SoundShrinks, ServerStays
<1>4. ASSUME NEW w \in fit, NEW n \in Live(l),
             busy' = bz \cup {w},
             req' = Hold(Leaving(rq, Prefix(n - 1)), s[n], "running", w, l),
             waiters' = [waiters EXCEPT ![l] = SubSeq(@, n + 1, Len(@))],
             tasks' = tk, UNCHANGED workers
      PROVE  Goal
  <2> DEFINE P == Prefix(n - 1)
             qr == Leaving(rq, P)
             h == s[n]
  <2>1. n \in 1..Len(s) /\ n \in Entries(s)
    BY <1>1, <1>4 DEF Live, Entries
  <2>2. P \in SUBSET Requests /\ \A r \in P : rq[r].phase = "queued"
    BY <1>1, <1>2, <2>1 DEF Entries
  <2>3. h \in Requests /\ rq[h].phase = "queued"
    BY <1>2, <2>1
  <2>4. /\ qr \in [Requests -> Call] /\ Sound(workers, bz, qr, tk)
        /\ \A k \in Lanes : Server(k, rq, tk) => Server(k, qr, tk)
    BY <1>3, <2>2
  <2>5. qr[h].phase \in {"out", "queued"}
    <3>1. CASE h \in P
      BY <2>3, <3>1 DEF Leaving, NoCall, CallAt
    <3>2. CASE h \notin P
      <4>1. qr[h] = [rq[h] EXCEPT !.ahead = @ \ P] /\ rq[h] \in Call
        BY <2>3, <3>2 DEF Leaving
      <4> QED
        BY <4>1, <2>3 DEF Call
    <3> QED
      BY <3>1, <3>2
  <2>6. req' = Hold(qr, h, "running", w, l) /\ "running" \in Leased
    BY <1>4 DEF Leased
  <2> HIDE DEF qr, h, P
  <2>7. qr[h].phase \notin Leased \cup Closing
    BY <2>5 DEF Leased, Closing
  <2>8. w \in workers[l] /\ w \notin worn
    BY <1>4
  <2>9. \A k \in Lanes : w \in workers[k] => k = l
    BY <2>8 DEF Sound, Apart
  <2>10. \A k \in Lanes : workers[k] \subseteq workers[k] \cup {w}
    OBVIOUS
  <2>11. /\ Sound(workers, bz \cup {w}, req', tk)
         /\ Server(l, req', tk)
         /\ \A k \in Lanes : Server(k, qr, tk) => Server(k, req', tk)
    BY <1>1, <2>3, <2>4, <2>6, <2>7, <2>8, <2>9, <2>10, SoundGranted
  <2>12. \A k \in Lanes \ {l} : Awaited(k, workers', busy', worn, waiters', req', tasks')
    <3> SUFFICES ASSUME NEW k \in Lanes \ {l}, Attended(k), waiters'[k] # <<>>
                 PROVE  Server(k, req', tk) \/ Clogged(k, workers, bz \cup {w}, worn)
      BY <1>4 DEF Awaited
    <3>1. waiters[k] # <<>>
      BY <1>1, <1>4
    <3>2. Server(k, rq, tk) \/ Clogged(k, workers, bz, worn)
      BY <3>1 DEF Awaited
    <3> QED
      BY <3>2, <2>4, <2>8, <2>11 DEF Clogged
  <2>13. Awaited(l, workers', busy', worn, waiters', req', tasks')
    BY <2>11, <1>4 DEF Awaited
  <2> QED
    BY <2>11, <2>12, <2>13, <1>4
<1>5. ASSUME busy' = bz, req' = Leaving(rq, Prefix(Len(s))),
             waiters' = [waiters EXCEPT ![l] = <<>>], tasks' = tk, UNCHANGED workers
      PROVE  Goal
  <2> DEFINE P == Prefix(Len(s))
  <2>1. P \in SUBSET Requests /\ \A r \in P : rq[r].phase = "queued"
    BY <1>1, <1>2 DEF Entries
  <2>2. /\ Sound(workers, bz, req', tk)
        /\ \A k \in Lanes : Server(k, rq, tk) => Server(k, req', tk)
    BY <1>3, <1>5, <2>1
  <2>3. waiters'[l] = <<>> /\ \A k \in Lanes \ {l} : waiters'[k] = waiters[k]
    BY <1>1, <1>5
  <2> QED
    BY <2>2, <2>3, <1>5 DEF Awaited
<1>6. ASSUME NEW n, Spawn(l, n, "replenish", bz, rq, tk), UNCHANGED waiters
      PROVE  Goal
  <2>1. /\ Sound(workers', busy', req', tasks')
        /\ Server(l, req', tasks')
        /\ \A k \in Lanes : Server(k, rq, tk) => Server(k, req', tasks')
        /\ \A k \in Lanes : Clogged(k, workers, bz, worn) => Clogged(k, workers', busy', worn)
    BY <1>6, SoundSpawned
  <2> QED
    BY <2>1, <1>6 DEF Awaited
<1>7. ASSUME waiters[l] = <<>> \/ (fit = {} /\ Cardinality(workers[l]) >= TargetSize(l)),
             busy' = bz, req' = rq, tasks' = tk, UNCHANGED <<workers, waiters>>
      PROVE  Goal
  <2>1. Awaited(l, workers, bz, worn, waiters, rq, tk)
    <3>1. tk \subseteq Task
      BY <1>1
    <3> QED
      BY <3>1, <1>7, FullIsServed DEF Awaited
  <2> QED
    BY <2>1, <1>7
<1> QED
  BY <1>4, <1>5, <1>6, <1>7 DEF ServeWaiter

WaitAll ==
  /\ Sound(workers, busy, req, tasks)
  /\ \A k \in Lanes : Awaited(k, workers, busy, worn, waiters, req, tasks)

\* Nobody starts a retirement in a lane whose floor is its ceiling.
Static ==
  /\ Primed \subseteq primed
  /\ \A l \in Lanes : ~(WarmFloor(l) < TargetSize(l)) => retiring[l] = 0 /\ l \notin trimArmed

\* A call that looks for a worker outside the borrowing stage does so at home.
Trying == {"entering", "discarding", "resuming"}

HomeOf(rq) ==
  \A r \in Requests : rq[r].phase \in Trying /\ rq[r].stage # 2 => rq[r].lane = Home[r]

NoneFailed == \A t \in tasks : t.dead = {}

WaitState ==
  /\ Static
  /\ HomeOf(req)
  /\ ~closed /\ failures = 0 => WaitAll /\ NoneFailed

LEMMA StaticNext == TypeOK /\ Static /\ [Next]_vars => Static'
<1> SUFFICES ASSUME TypeOK, Static, [Next]_vars PROVE Static'
  OBVIOUS
<1> DEFINE Full(l) == ~(WarmFloor(l) < TargetSize(l))
<1>0. retiring \in [Lanes -> Nat]
  BY DEF TypeOK
<1>1. ASSUME UNCHANGED <<retiring, trimArmed, primed>>
      PROVE  Static'
  BY <1>1 DEF Static
<1>2. ASSUME NEW r \in Requests, RunEnds(r)
      PROVE  Static'
  <2>1. trimArmed' = trimArmed \/ trimArmed' = ScheduleTrim(WorkerBucket(r))
    BY <1>2 DEF RunEnds
  <2>2. \A l \in Lanes : Full(l) /\ l \in trimArmed' => l \in trimArmed
    BY <2>1 DEF ScheduleTrim
  <2>3. UNCHANGED <<retiring, primed>>
    BY <1>2 DEF RunEnds
  <2> QED
    BY <2>2, <2>3 DEF Static
<1>3. ASSUME NEW l \in Lanes, Trim(l)
      PROVE  Static'
  <2>1. l \in trimArmed /\ trimArmed' = trimArmed \ {l} /\ primed' = primed
        /\ \A k \in Lanes \ {l} : retiring'[k] = retiring[k]
    BY <1>3, <1>0 DEF Trim
  <2>2. ~Full(l)
    BY <2>1 DEF Static
  <2> QED
    BY <2>1, <2>2 DEF Static
<1>4. ASSUME NEW l \in Lanes, Retired(l)
      PROVE  Static'
  <2>1. retiring[l] # 0 /\ UNCHANGED <<trimArmed, primed>>
        /\ \A k \in Lanes \ {l} : retiring'[k] = retiring[k]
    BY <1>4, <1>0 DEF Retired, OneGone
  <2>2. ~Full(l)
    BY <2>1 DEF Static
  <2> QED
    BY <2>1, <2>2 DEF Static
<1>5. ASSUME NEW l \in Lanes, Prime(l)
      PROVE  Static'
  BY <1>5 DEF Prime, Static
<1>6. CASE CloseAll
  BY <1>6 DEF CloseAll, Static
<1>7. ASSUME NEW r \in Requests,
             Arrive(r) \/ Abort(r) \/ Enter(r) \/ Resume(r) \/ ReplenishAfterRelease(r)
               \/ Started(r) \/ StartFailed(r) \/ ChildGone(r) \/ QueueTimeout(r)
      PROVE  UNCHANGED <<retiring, trimArmed, primed>>
  BY <1>7 DEF Arrive, Abort, Enter, Resume, ReplenishAfterRelease, Started, StartFailed,
              ChildGone, QueueTimeout
<1>8. ASSUME NEW t \in tasks, TaskStep(t)
      PROVE  UNCHANGED <<retiring, trimArmed, primed>>
  BY <1>8 DEF TaskStep, TaskReady, TaskStartFailed, TaskRejects
<1>9. ASSUME NEW w \in Workers, WearOut(w)
      PROVE  UNCHANGED <<retiring, trimArmed, primed>>
  BY <1>9 DEF WearOut
<1>10. CASE UNCHANGED vars
  BY <1>1, <1>10 DEF vars
<1> QED
  BY <1>1, <1>2, <1>3, <1>4, <1>5, <1>6, <1>7, <1>8, <1>9, <1>10 DEF Next, RequestStep

\* What the steps of the code do to the places where calls look.
LEMMA LeavingHome ==
  ASSUME NEW rq \in [Requests -> Call], HomeOf(rq), NEW rs
  PROVE  HomeOf(Leaving(rq, rs))
<1> SUFFICES ASSUME NEW r \in Requests, Leaving(rq, rs)[r].phase \in Trying,
                    Leaving(rq, rs)[r].stage # 2
             PROVE  Leaving(rq, rs)[r].lane = Home[r]
  BY DEF HomeOf
<1>1. r \notin rs
  BY DEF Leaving, NoCall, CallAt, Trying
<1>2. Leaving(rq, rs)[r] = [rq[r] EXCEPT !.ahead = @ \ rs] /\ rq[r] \in Call
  BY <1>1 DEF Leaving
<1>3. /\ Leaving(rq, rs)[r].phase = rq[r].phase
      /\ Leaving(rq, rs)[r].stage = rq[r].stage
      /\ Leaving(rq, rs)[r].lane = rq[r].lane
  BY <1>2 DEF Call
<1> QED
  BY <1>3 DEF HomeOf

LEMMA HoldHome ==
  ASSUME NEW rq \in [Requests -> Call], HomeOf(rq), NEW r \in Requests, NEW phase \in Leased,
         NEW w, NEW l
  PROVE  HomeOf(Hold(rq, r, phase, w, l))
<1> DEFINE rt == Hold(rq, r, phase, w, l)
           qr == Leaving(rq, {r})
<1>1. qr \in [Requests -> Call] /\ HomeOf(qr)
  BY LeavingType, LeavingHome
<1>2. rt[r].phase = phase /\ \A q \in Requests \ {r} : rt[q] = qr[q]
  BY <1>1 DEF Hold, CallAt
<1> HIDE DEF rt, qr
<1>3. HomeOf(rt)
  BY <1>1, <1>2 DEF HomeOf, Trying, Leased
<1> QED
  BY <1>3 DEF rt

LEMMA GoesHome ==
  ASSUME req \in [Requests -> Call], HomeOf(req), NEW r \in Requests, NEW phase, NEW l,
         NEW stage, NEW rest, phase \in Trying /\ stage # 2 => l = Home[r]
  PROVE  HomeOf(Goes(r, phase, l, stage, rest))
BY DEF HomeOf, Goes

LEMMA PhaseHome ==
  ASSUME req \in [Requests -> Call], HomeOf(req), NEW r \in Requests, NEW phase,
         phase \in Trying => req[r].phase \in Trying
  PROVE  HomeOf([req EXCEPT ![r].phase = phase])
<1> DEFINE rt == [req EXCEPT ![r].phase = phase]
<1>1. /\ rt[r].phase = phase /\ rt[r].stage = req[r].stage /\ rt[r].lane = req[r].lane
      /\ \A q \in Requests \ {r} : rt[q] = req[q]
  BY DEF Call
<1> HIDE DEF rt
<1>2. HomeOf(rt)
  BY <1>1 DEF HomeOf
<1> QED
  BY <1>2 DEF rt

LEMMA ServedHome ==
  ASSUME TypeOK, NEW l \in Lanes, NEW bz, NEW rq \in [Requests -> Call], HomeOf(rq), NEW tk,
         ServeWaiter(l, bz, rq, tk)
  PROVE  HomeOf(req')
<1> DEFINE Prefix(n) == {waiters[l][i] : i \in 1..n}
<1>1. waiters[l] \in Seq(Requests) /\ Len(waiters[l]) \in Nat
  BY DEF TypeOK
<1>2. ASSUME NEW w, NEW n \in Live(l),
             req' = Hold(Leaving(rq, Prefix(n - 1)), waiters[l][n], "running", w, l)
      PROVE  HomeOf(req')
  <2>1. n \in 1..Len(waiters[l]) /\ waiters[l][n] \in Requests
    BY <1>1, <1>2 DEF Live
  <2>2. Prefix(n - 1) \in SUBSET Requests
    BY <2>1, <1>1
  <2>3. Leaving(rq, Prefix(n - 1)) \in [Requests -> Call] /\ HomeOf(Leaving(rq, Prefix(n - 1)))
    BY <2>2, LeavingType, LeavingHome
  <2> QED
    BY <2>1, <2>3, <1>2, HoldHome DEF Leased
<1>3. ASSUME req' = Leaving(rq, Prefix(Len(waiters[l])))
      PROVE  HomeOf(req')
  BY <1>3, LeavingHome
<1> QED
  BY <1>2, <1>3 DEF ServeWaiter, Spawn

LEMMA NextStageHome ==
  ASSUME req \in [Requests -> Call], HomeOf(req), NEW r \in Requests, NextStage(r)
  PROVE  HomeOf(req')
BY LeavingHome, GoesHome DEF NextStage, Leave, Trying

LEMMA AttemptHome ==
  ASSUME req \in [Requests -> Call], HomeOf(req), NEW r \in Requests, NEW rest,
         req[r].phase \in Trying, Attempt(r, rest)
  PROVE  HomeOf(req')
<1>1. ASSUME NEW left, req' = Goes(r, "discarding", req[r].lane, req[r].stage, left)
      PROVE  HomeOf(req')
  <2>1. req[r].stage # 2 => req[r].lane = Home[r]
    BY DEF HomeOf
  <2> QED
    BY <2>1, <1>1, GoesHome
<1>2. ASSUME NEW phase \in Leased, NEW w, req' = Hold(req, r, phase, w, req[r].lane)
      PROVE  HomeOf(req')
  BY <1>2, HoldHome
<1> QED
  BY <1>1, <1>2, NextStageHome DEF Attempt, Leased

LEMMA HomeNext == TypeOK /\ HomeOf(req) /\ [Next]_vars => HomeOf(req')
<1> SUFFICES ASSUME TypeOK, HomeOf(req), [Next]_vars PROVE HomeOf(req')
  OBVIOUS
<1>0. /\ req \in [Requests -> Call] /\ tasks \subseteq Task
      /\ \A r \in Requests : req[r].lane \in Lanes
  BY DEF TypeOK, Call
<1>0a. \A r \in Requests : Leave(r) \in [Requests -> Call] /\ HomeOf(Leave(r))
  BY <1>0, LeavingType, LeavingHome DEF Leave
<1>1. ASSUME UNCHANGED req
      PROVE  HomeOf(req')
  BY <1>1
<1>2. ASSUME NEW r \in Requests, Arrive(r)
      PROVE  HomeOf(req')
  <2>1. req'[r].lane = Home[r] /\ \A q \in Requests \ {r} : req'[q] = req[q]
    BY <1>0, <1>2 DEF Arrive
  <2> QED
    BY <2>1 DEF HomeOf
<1>3. ASSUME NEW r \in Requests, Enter(r)
      PROVE  HomeOf(req')
  <2>1. req[r].phase \in Trying
    BY <1>3 DEF Enter, Trying
  <2> QED
    BY <2>1, <1>0, <1>0a, <1>3, NextStageHome, AttemptHome DEF Enter
<1>4. ASSUME NEW r \in Requests, Resume(r)
      PROVE  HomeOf(req')
  <2>1. req[r].phase \in Trying
    BY <1>4 DEF Resume, Trying
  <2> QED
    BY <2>1, <1>0, <1>4, AttemptHome DEF Resume
<1>5. ASSUME NEW r \in Requests, Started(r)
      PROVE  HomeOf(req')
  <2>1. "running" \notin Trying /\ req' = [req EXCEPT ![r].phase = "running"]
    BY <1>5 DEF Started, Trying
  <2> QED
    BY <2>1, <1>0, PhaseHome
<1>6. ASSUME NEW r \in Requests, StartFailed(r)
      PROVE  HomeOf(req')
  BY <1>0, <1>6, GoesHome DEF StartFailed, Trying
<1>7. ASSUME NEW r \in Requests, ChildGone(r)
      PROVE  HomeOf(req')
  <2>1. ASSUME NEW phase \in {"resuming", "replenishing"},
               phase = "resuming" => req[r].phase = "discarding",
               ServeWaiter(req[r].lane, busy, [req EXCEPT ![r].phase = phase], tasks)
        PROVE  HomeOf(req')
    <3> DEFINE rq == [req EXCEPT ![r].phase = phase]
    <3>1. phase \in Phase /\ (phase \in Trying => req[r].phase \in Trying)
      BY <2>1 DEF Phase, Microtask, Trying
    <3>2. rq \in [Requests -> Call] /\ HomeOf(rq)
      BY <3>1, <1>0, PhaseType, PhaseHome
    <3>3. ServeWaiter(req[r].lane, busy, rq, tasks)
      BY <2>1
    <3> HIDE DEF rq
    <3> QED
      BY <3>2, <3>3, <1>0, ServedHome
  <2>2. CASE req[r].phase = "discarding"
    BY <2>1, <2>2, <1>7 DEF ChildGone
  <2>3. CASE req[r].phase = "failing"
    <3>1. ServeWaiter(req[r].lane, busy, Leave(r), tasks)
      BY <2>3, <1>7 DEF ChildGone
    <3> QED
      BY <3>1, <1>0, <1>0a, ServedHome
  <2>4. CASE req[r].phase = "releasing"
    BY <2>1, <2>4, <1>7 DEF ChildGone
  <2> QED
    BY <2>2, <2>3, <2>4, <1>7 DEF ChildGone, Closing
<1>8. ASSUME NEW r \in Requests, RunEnds(r)
      PROVE  HomeOf(req')
  <2>1. CASE req' = Leave(r)
    BY <2>1, <1>0a
  <2>2. CASE req' = Goes(r, "releasing", WorkerBucket(r), 1, {})
    BY <2>2, <1>0, GoesHome DEF Trying
  <2>3. CASE ServeWaiter(WorkerBucket(r), busy \ {req[r].worker}, Leave(r), tasks)
    BY <2>3, <1>0, <1>0a, ServedHome DEF WorkerBucket
  <2> QED
    BY <2>1, <2>2, <2>3, <1>8 DEF RunEnds
<1>9. ASSUME NEW r \in Requests, ReplenishAfterRelease(r)
      PROVE  HomeOf(req')
  <2>1. CASE ServeWaiter(req[r].lane, busy, Leave(r), tasks)
    BY <2>1, <1>0, <1>0a, ServedHome
  <2>2. CASE req' = Leave(r)
    BY <2>2, <1>0a
  <2> QED
    BY <2>1, <2>2, <1>9 DEF ReplenishAfterRelease, Spawn
<1>10. ASSUME NEW r \in Requests, Abort(r) \/ QueueTimeout(r)
       PROVE  HomeOf(req')
  <2>1. CASE req' = Leave(r)
    BY <2>1, <1>0a
  <2>2. CASE req' = [req EXCEPT ![r].aborted = TRUE]
    <3>1. \A q \in Requests : /\ req'[q].phase = req[q].phase /\ req'[q].stage = req[q].stage
                              /\ req'[q].lane = req[q].lane
      BY <2>2, <1>0 DEF Call
    <3> QED
      BY <3>1 DEF HomeOf
  <2> QED
    BY <2>1, <2>2, <1>10 DEF Abort, QueueTimeout
<1>11. ASSUME NEW t \in tasks, TaskStep(t)
       PROVE  HomeOf(req')
  <2>1. PICK w \in t.pending \cup t.dead :
          TaskReady(t, w) \/ TaskStartFailed(t, w) \/ TaskRejects(t, w)
    BY <1>11 DEF TaskStep
  <2>2. t.lane \in Lanes
    BY <1>0 DEF Task
  <2>3. CASE ServeWaiter(t.lane, busy \ {w}, req, tasks \ {t})
    BY <2>2, <2>3, <1>0, ServedHome
  <2>4. CASE req' = Leave(Head(waiters[t.lane]))
    BY <2>4, <1>0, LeavingHome DEF Leave
  <2> QED
    BY <2>1, <2>3, <2>4, <1>1 DEF TaskReady, TaskStartFailed, TaskRejects
<1>12. ASSUME NEW l \in Lanes, Trim(l) \/ Retired(l) \/ Prime(l)
       PROVE  HomeOf(req')
  BY <1>12, <1>1 DEF Trim, Retired, Prime, Spawn
<1>13. ASSUME NEW w \in Workers, WearOut(w)
       PROVE  HomeOf(req')
  BY <1>13, <1>1 DEF WearOut
<1>14. CASE CloseAll
  BY <1>14, <1>0, LeavingHome DEF CloseAll
<1>15. CASE UNCHANGED vars
  BY <1>15, <1>1 DEF vars
<1> QED
  BY <1>2, <1>3, <1>4, <1>5, <1>6, <1>7, <1>8, <1>9, <1>10, <1>11, <1>12, <1>13, <1>14,
     <1>15
  DEF Next, RequestStep

\* A step that takes no worker from a call, and lets a queue and the worker
\* that clogs its lane be.
LEMMA WaitKept ==
  ASSUME TypeOK, workers' \in [Lanes -> SUBSET Workers], WaitAll,
         StillServes(req', req, {}), TasksGoOn(tasks', tasks, busy'),
         \A l \in Lanes : workers'[l] \subseteq workers[l], busy' \subseteq busy,
         \A l \in Lanes : waiters'[l] # <<>> => waiters[l] # <<>>,
         \A l \in Lanes : waiters'[l] # <<>> /\ Clogged(l, workers, busy, worn) =>
                            Clogged(l, workers', busy', worn')
  PROVE  WaitAll'
<1>1. workers \in [Lanes -> SUBSET Workers]
  BY DEF TypeOK
<1>2. Sound(workers', busy', req', tasks')
  BY <1>1, SoundShrinks DEF WaitAll
<1>3. ASSUME NEW k \in Lanes
      PROVE  Awaited(k, workers', busy', worn', waiters', req', tasks')
  <2> SUFFICES ASSUME Attended(k), waiters'[k] # <<>>
               PROVE  Server(k, req', tasks') \/ Clogged(k, workers', busy', worn')
    BY DEF Awaited
  <2>1. Server(k, req, tasks) \/ Clogged(k, workers, busy, worn)
    BY DEF WaitAll, Awaited
  <2> QED
    BY <2>1, ServerStays
<1> QED
  BY <1>2, <1>3 DEF WaitAll

\* Only calls move, and none that holds or closes a worker.
LEMMA WaitCalls ==
  ASSUME TypeOK, WaitAll, StillServes(req', req, {}),
         UNCHANGED <<workers, busy, worn, tasks>>,
         \A l \in Lanes : waiters'[l] # <<>> => waiters[l] # <<>>
  PROVE  WaitAll'
<1>1. TasksGoOn(tasks', tasks, busy')
  BY SameTasks
<1>2. workers' \in [Lanes -> SUBSET Workers]
  BY DEF TypeOK
<1> QED
  BY <1>1, <1>2, WaitKept

LEMMA WaitNextStage ==
  ASSUME TypeOK, WaitAll, NEW r \in Requests, req[r].phase \notin Leased \cup Closing,
         NextStage(r),
         req[r].stage = 3 /\ Attended(Home[r]) =>
           \/ waiters[Home[r]] # <<>>
           \/ Server(Home[r], req, tasks)
           \/ Clogged(Home[r], workers, busy, worn)
  PROVE  WaitAll'
<1> DEFINE l == Home[r]
<1>1. /\ req \in [Requests -> Call] /\ waiters \in [Lanes -> Seq(Requests)] /\ l \in Lanes
      /\ UNCHANGED <<workers, busy, worn, tasks>>
  BY PoolConstants DEF TypeOK, NextStage
<1>2. ASSUME NEW phase, NEW k, NEW stage, req' = Goes(r, phase, k, stage, {})
      PROVE  StillServes(req', req, {})
  <2>1. StillServes(req', req, {r})
    BY <1>1, <1>2, GoesServes
  <2> QED
    BY <2>1, IdlersGo
<1>3. ASSUME req' = Leave(r)
      PROVE  StillServes(req', req, {})
  <2>1. StillServes(req', req, {r})
    BY <1>1, <1>3, LeavingServes DEF Leave
  <2> QED
    BY <2>1, IdlersGo
<1>4. CASE UNCHANGED waiters
  <2>1. StillServes(req', req, {})
    BY <1>2, <1>3 DEF NextStage
  <2> QED
    BY <2>1, <1>1, <1>4, WaitCalls
<1>5. CASE /\ req[r].stage = 3 /\ req' = Goes(r, "queued", l, 1, {})
           /\ waiters' = [waiters EXCEPT ![l] = Append(@, r)]
  <2>1. StillServes(req', req, {})
    BY <1>2, <1>5
  <2>2. Sound(workers', busy', req', tasks')
    <3>1. TasksGoOn(tasks, tasks, busy)
      BY SameTasks
    <3>2. workers \in [Lanes -> SUBSET Workers] /\ Sound(workers, busy, req, tasks)
      BY DEF TypeOK, WaitAll
    <3>3. Sound(workers, busy, req', tasks)
      BY <2>1, <3>1, <3>2, SoundShrinks
    <3> QED
      BY <3>3, <1>1
  <2>3. \A k \in Lanes : Server(k, req, tasks) => Server(k, req', tasks)
    <3>1. TasksGoOn(tasks, tasks, busy)
      BY SameTasks
    <3> QED
      BY <2>1, <3>1, ServerStays
  <2>4. Attended(l) => Server(l, req', tasks) \/ Clogged(l, workers, busy, worn)
    BY <2>3, <1>1, <1>5 DEF WaitAll, Awaited
  <2>5. \A k \in Lanes \ {l} : waiters'[k] = waiters[k]
    BY <1>1, <1>5
  <2>6. \A k \in Lanes : Awaited(k, workers', busy', worn', waiters', req', tasks')
    <3> SUFFICES ASSUME NEW k \in Lanes, Attended(k), waiters'[k] # <<>>
                 PROVE  Server(k, req', tasks) \/ Clogged(k, workers, busy, worn)
      BY <1>1 DEF Awaited
    <3>1. CASE k = l
      BY <3>1, <2>4
    <3>2. CASE k # l
      BY <3>2, <2>3, <2>5 DEF WaitAll, Awaited
    <3> QED
      BY <3>1, <3>2
  <2> QED
    BY <2>2, <2>6 DEF WaitAll
<1> QED
  BY <1>4, <1>5 DEF NextStage

LEMMA WaitAttempt ==
  ASSUME TypeOK, WaitAll, HomeOf(req), NEW r \in Requests, req[r].phase \in Trying \ Closing,
         NEW rest, Attempt(r, rest)
  PROVE  WaitAll'
<1> DEFINE l == req[r].lane
<1>1. /\ req \in [Requests -> Call] /\ workers \in [Lanes -> SUBSET Workers]
      /\ l \in Lanes /\ tasks \subseteq Task
      /\ req[r].phase \notin Leased \cup Closing
  BY DEF TypeOK, Call, Trying, Leased, Closing
<1>2. Sound(workers, busy, req, tasks)
  BY DEF WaitAll
<1>3. TasksGoOn(tasks, tasks, busy)
  BY SameTasks
<1>4. ASSUME NEW w \in Stale(l, rest),
             workers' = [workers EXCEPT ![l] = @ \ {w}], worn' = worn \ {w},
             req' = Goes(r, "discarding", l, req[r].stage, rest \ {w}),
             UNCHANGED <<busy, waiters, tasks>>
      PROVE  WaitAll'
  <2>1. w \in workers[l]
    BY <1>4 DEF Stale, Idle
  <2>2. /\ workers'[l] = workers[l] \ {w}
        /\ \A k \in Lanes \ {l} : workers'[k] = workers[k]
        /\ workers' \in [Lanes -> SUBSET Workers]
    BY <1>1, <1>4
  <2>3. StillServes(req', req, {}) /\ req'[r].phase = "discarding" /\ req'[r].lane = l
    <3>1. StillServes(req', req, {r}) /\ req'[r].phase = "discarding" /\ req'[r].lane = l
      BY <1>1, <1>4, GoesServes
    <3> QED
      BY <3>1, <1>1, IdlersGo
  <2>4. Sound(workers', busy', req', tasks')
    <3>1. \A k \in Lanes : workers'[k] \subseteq workers[k]
      BY <2>2
    <3>2. Sound(workers', busy, req', tasks)
      BY <3>1, <2>2, <2>3, <1>1, <1>2, <1>3, SoundShrinks
    <3> QED
      BY <3>2, <1>4
  <2>5. \A k \in Lanes \ {l} : w \notin workers[k]
    BY <2>1, <1>1, <1>2 DEF Sound, Apart
  <2>6. \A k \in Lanes \ {l} : Clogged(k, workers, busy, worn) => Clogged(k, workers', busy', worn')
    BY <2>2, <2>5, <1>4 DEF Clogged
  <2>7. Server(l, req', tasks')
    BY <2>3 DEF Server, Closing
  <2>8. \A k \in Lanes : Server(k, req, tasks) => Server(k, req', tasks')
    BY <2>3, <1>3, <1>4, ServerStays
  <2> QED
    BY <2>4, <2>6, <2>7, <2>8, <1>4 DEF WaitAll, Awaited
<1>5. ASSUME NEW phase \in Leased, NEW w,
             \A k \in Lanes : workers'[k] \subseteq workers[k] \cup {w},
             \A k \in Lanes : workers[k] \subseteq workers'[k],
             \A k \in Lanes : w \in workers'[k] => k = l,
             w \in workers[l] \/ \A t \in tasks : w \notin t.pending,
             workers' \in [Lanes -> SUBSET Workers],
             ~(\E k \in Lanes : w \in (workers[k] \ busy) \cap worn),
             busy' = busy \cup {w}, req' = Hold(req, r, phase, w, l),
             UNCHANGED <<worn, waiters, tasks>>
      PROVE  WaitAll'
  <2>1. /\ Sound(workers', busy', req', tasks)
        /\ Server(l, req', tasks)
        /\ \A k \in Lanes : Server(k, req, tasks) => Server(k, req', tasks)
    BY <1>1, <1>2, <1>5, SoundGranted
  <2>2. \A k \in Lanes : Clogged(k, workers, busy, worn) => Clogged(k, workers', busy', worn')
    BY <1>5 DEF Clogged
  <2> QED
    BY <2>1, <2>2, <1>5 DEF WaitAll, Awaited
<1>6. ASSUME NEW w \in Fit(l), busy' = busy \cup {w}, req' = Hold(req, r, "running", w, l),
             UNCHANGED <<workers, worn, waiters, tasks>>
      PROVE  WaitAll'
  <2>1. w \in workers[l] /\ w \notin worn
    BY <1>6 DEF Fit, Idle
  <2>2. \A k \in Lanes : w \in workers[k] => k = l
    BY <2>1, <1>1, <1>2 DEF Sound, Apart
  <2> QED
    BY <2>1, <2>2, <1>1, <1>5, <1>6 DEF Leased
<1>7. ASSUME NEW w \in Unused, workers' = [workers EXCEPT ![l] = @ \cup {w}],
             busy' = busy \cup {w}, req' = Hold(req, r, "starting", w, l),
             UNCHANGED <<worn, waiters, tasks>>
      PROVE  WaitAll'
  <2>1. \A k \in Lanes : w \notin workers[k]
    BY <1>7, UnusedApart
  <2>2. \A t \in tasks : w \notin t.pending
    BY <1>7, UnusedIsFree
  <2>3. w \in Workers
    BY <1>7 DEF Unused
  <2>4. /\ workers'[l] = workers[l] \cup {w} /\ \A k \in Lanes \ {l} : workers'[k] = workers[k]
        /\ workers' \in [Lanes -> SUBSET Workers]
    BY <2>3, <1>1, <1>7
  <2> QED
    BY <2>1, <2>2, <2>4, <1>5, <1>7 DEF Leased
<1>8. ASSUME Fit(l) = {}, req[r].stage = 2 \/ Cardinality(workers[l]) >= TargetSize(l),
             NextStage(r)
      PROVE  WaitAll'
  <2>1. ASSUME req[r].stage = 3, Attended(Home[r])
        PROVE  Server(Home[r], req, tasks) \/ Clogged(Home[r], workers, busy, worn)
    <3>1. l = Home[r]
      BY <2>1 DEF HomeOf
    <3>2. (workers[l] \ busy) \ worn = {}
      BY <1>8 DEF Fit, Idle
    <3>3. Attended(l) /\ Cardinality(workers[l]) >= TargetSize(l)
      BY <2>1, <3>1, <1>8
    <3>4. Server(l, req, tasks) \/ Clogged(l, workers, busy, worn)
      BY <3>2, <3>3, <1>1, <1>2, FullIsServed
    <3> QED
      BY <3>1, <3>4
  <2> QED
    BY <2>1, <1>1, <1>8, WaitNextStage
<1> QED
  BY <1>4, <1>6, <1>7, <1>8 DEF Attempt

\* A worker given back, or the last one of a continuation, is nobody's.
LEMMA SoundFreed ==
  ASSUME NEW ws \in [Lanes -> SUBSET Workers], NEW vs \in [Lanes -> SUBSET Workers],
         NEW bz, NEW bt, NEW rq, NEW rt, NEW tk, NEW r \in Requests,
         Sound(ws, bz, rq, tk), StillServes(rt, rq, {r}),
         rq[r].phase \in Leased => rq[r].worker \notin bt,
         \A l \in Lanes : vs[l] \subseteq ws[l], bt \subseteq bz
  PROVE  Sound(vs, bt, rt, tk)
<1>1. Apart(vs)
  BY DEF Sound, Apart
<1>2. Owned(vs, bt, rt, tk)
  <2> SUFFICES ASSUME NEW l \in Lanes, NEW w \in vs[l] \cap bt
               PROVE  OwnedIn(l, w, rt, tk)
    BY DEF Owned
  <2>1. OwnedIn(l, w, rq, tk)
    BY DEF Sound, Owned
  <2>2. CASE \E q \in Requests : rq[q].phase \in Leased /\ rq[q].worker = w /\ rq[q].lane = l
    <3>1. PICK q \in Requests : rq[q].phase \in Leased /\ rq[q].worker = w /\ rq[q].lane = l
      BY <2>2
    <3>2. q # r
      BY <3>1
    <3> QED
      BY <3>1, <3>2 DEF StillServes, OwnedIn
  <2> QED
    BY <2>1, <2>2 DEF OwnedIn
<1>3. Room(vs, tk)
  <2>1. \A l \in Lanes : Attended(l) => Warming(l, vs, tk) \subseteq Warming(l, ws, tk)
    BY DEF Warming
  <2> QED
    BY <2>1, RoomStays DEF Sound
<1> QED
  BY <1>1, <1>2, <1>3 DEF Sound

LEMMA ServersFreed ==
  ASSUME NEW rq, NEW rt, NEW tk, NEW r \in Requests, StillServes(rt, rq, {r})
  PROVE  \A k \in Lanes \ {rq[r].lane} : Server(k, rq, tk) => Server(k, rt, tk)
BY DEF Server, StillServes

\* The call of r gave its worker up: the queue of its lane is served.
LEMMA WaitServedBy ==
  ASSUME TypeOK, QueueState, ~closed, WaitAll, NEW r \in Requests, req[r].phase # "queued",
         NEW bz, bz \subseteq busy, req[r].phase \in Leased => req[r].worker \notin bz,
         NEW rq \in [Requests -> Call], StillServes(rq, req, {r}), Unqueues(rq, req, {r}),
         ServeWaiter(req[r].lane, bz, rq, tasks), UNCHANGED worn
  PROVE  WaitAll'
<1> DEFINE l == req[r].lane
<1>0. l \in Lanes
  BY DEF TypeOK, Call
<1>1. waiters \in [Lanes -> Seq(Requests)] /\ workers \in [Lanes -> SUBSET Workers]
  BY DEF TypeOK
<1>2. Sound(workers, bz, rq, tasks)
  <2>1. \A k \in Lanes : workers[k] \subseteq workers[k]
    OBVIOUS
  <2>2. Sound(workers, busy, req, tasks)
    BY DEF WaitAll
  <2> QED
    BY <2>1, <2>2, <1>1, SoundFreed
<1>3. QueueOf(waiters, rq)
  <2>1. \A q \in {r} : req[q].phase # "queued"
    OBVIOUS
  <2> QED
    BY <2>1, <1>1, QueueKept DEF QueueState
<1>4. \A k \in Lanes \ {l} : Awaited(k, workers, bz, worn, waiters, rq, tasks)
  <2>1. \A k \in Lanes \ {l} : Server(k, req, tasks) => Server(k, rq, tasks)
    BY ServersFreed
  <2> QED
    BY <2>1 DEF WaitAll, Awaited, Clogged
<1>5. /\ Sound(workers', busy', req', tasks')
      /\ \A k \in Lanes : Awaited(k, workers', busy', worn, waiters', req', tasks')
  BY <1>0, <1>1, <1>2, <1>3, <1>4, WaitServed
<1> QED
  BY <1>5 DEF WaitAll

LEMMA WaitRunEnds ==
  ASSUME TypeOK, QueueState, LeaseState, ~closed, WaitAll, NEW r \in Requests, RunEnds(r)
  PROVE  WaitAll'
<1> DEFINE l == req[r].lane
           w == req[r].worker
<1>0. l \in Lanes
  BY DEF TypeOK, Call
<1>1. req \in [Requests -> Call] /\ workers \in [Lanes -> SUBSET Workers]
  BY DEF TypeOK
<1>2. req[r].phase = "running" /\ req[r].phase # "queued" /\ w \in workers[l]
  BY DEF RunEnds, LeaseState, KeptAlive
<1>3. Sound(workers, busy, req, tasks)
  BY DEF WaitAll
<1>4. ASSUME workers' = [workers EXCEPT ![l] = @ \ {w}], busy' = busy \ {w},
             worn' = worn \ {w}, req' = Goes(r, "releasing", l, 1, {}),
             UNCHANGED <<waiters, tasks>>
      PROVE  WaitAll'
  <2>1. /\ workers'[l] = workers[l] \ {w}
        /\ \A k \in Lanes \ {l} : workers'[k] = workers[k]
        /\ workers' \in [Lanes -> SUBSET Workers]
    BY <1>0, <1>1, <1>4
  <2>2. StillServes(req', req, {r}) /\ req'[r].phase = "releasing" /\ req'[r].lane = l
    BY <1>1, <1>4, GoesServes
  <2>3. Sound(workers', busy', req', tasks)
    <3>1. busy' \subseteq busy /\ (req[r].phase \in Leased => req[r].worker \notin busy')
      BY <1>4
    <3>2. \A k \in Lanes : workers'[k] \subseteq workers[k]
      BY <2>1
    <3>3. workers' \in [Lanes -> SUBSET Workers] /\ StillServes(req', req, {r})
      BY <2>1, <2>2
    <3> QED
      BY <3>1, <3>2, <3>3, <1>1, <1>3, SoundFreed
  <2>3a. \A k \in Lanes \ {l} : Server(k, req, tasks) => Server(k, req', tasks)
    BY <2>2, ServersFreed
  <2>4. Server(l, req', tasks)
    BY <2>2 DEF Server, Closing
  <2>5. \A k \in Lanes \ {l} : w \notin workers[k]
    BY <1>0, <1>1, <1>2, <1>3 DEF Sound, Apart
  <2>6. \A k \in Lanes \ {l} : Clogged(k, workers, busy, worn) => Clogged(k, workers', busy', worn')
    BY <2>1, <2>5, <1>4 DEF Clogged
  <2> QED
    BY <2>3, <2>3a, <2>4, <2>6, <1>4 DEF WaitAll, Awaited
<1>5. ASSUME ServeWaiter(l, busy \ {w}, Leave(r), tasks), UNCHANGED worn
      PROVE  WaitAll'
  <2>1. /\ Leave(r) \in [Requests -> Call] /\ StillServes(Leave(r), req, {r})
        /\ Unqueues(Leave(r), req, {r})
    BY <1>1, LeavingType, LeavingServes, LeavingUnqueues DEF Leave
  <2>2. w \notin busy \ {w} /\ busy \ {w} \subseteq busy
    OBVIOUS
  <2> QED
    BY <2>1, <2>2, <1>2, <1>5, WaitServedBy
<1> QED
  BY <1>2, <1>4, <1>5 DEF RunEnds, WorkerBucket

LEMMA WaitChildGone ==
  ASSUME TypeOK, QueueState, ~closed, WaitAll, NEW r \in Requests, ChildGone(r)
  PROVE  WaitAll'
<1>1. req \in [Requests -> Call] /\ req[r].phase \in Closing /\ worn' = worn
  BY DEF TypeOK, ChildGone
<1>2. req[r].phase # "queued" /\ req[r].phase \notin Leased
  BY <1>1 DEF Closing, Leased
<1>3. ASSUME NEW rq \in [Requests -> Call], StillServes(rq, req, {r}), Unqueues(rq, req, {r}),
             ServeWaiter(req[r].lane, busy, rq, tasks)
      PROVE  WaitAll'
  BY <1>1, <1>2, <1>3, WaitServedBy
<1>4. ASSUME NEW phase \in {"resuming", "replenishing"},
             ServeWaiter(req[r].lane, busy, [req EXCEPT ![r].phase = phase], tasks)
      PROVE  WaitAll'
  <2> DEFINE rq == [req EXCEPT ![r].phase = phase]
  <2>1. phase \in Phase \ {"queued"}
    BY DEF Phase, Microtask
  <2>2. /\ rq \in [Requests -> Call] /\ StillServes(rq, req, {r}) /\ Unqueues(rq, req, {r})
    BY <2>1, <1>1, PhaseType, PhaseServes, PhaseUnqueues
  <2>3. ServeWaiter(req[r].lane, busy, rq, tasks)
    BY <1>4
  <2> HIDE DEF rq
  <2> QED
    BY <2>2, <2>3, <1>3
<1>5. ASSUME ServeWaiter(req[r].lane, busy, Leave(r), tasks)
      PROVE  WaitAll'
  BY <1>1, <1>3, <1>5, LeavingType, LeavingServes, LeavingUnqueues DEF Leave
<1>6. CASE req[r].phase = "discarding"
  BY <1>4, <1>6 DEF ChildGone
<1>7. CASE req[r].phase = "failing"
  BY <1>5, <1>7 DEF ChildGone
<1>8. CASE req[r].phase = "releasing"
  BY <1>4, <1>8 DEF ChildGone
<1> QED
  BY <1>1, <1>6, <1>7, <1>8 DEF Closing

LEMMA WaitReplenished ==
  ASSUME TypeOK, QueueState, ~closed, WaitAll, NEW r \in Requests, ReplenishAfterRelease(r)
  PROVE  WaitAll'
<1> DEFINE l == req[r].lane
<1>1. /\ req \in [Requests -> Call] /\ l \in Lanes /\ worn' = worn
      /\ workers \in [Lanes -> SUBSET Workers]
      /\ req[r].phase = "replenishing"
  BY DEF TypeOK, Call, ReplenishAfterRelease
<1>2. req[r].phase # "queued" /\ req[r].phase \notin Leased \cup Closing
  BY <1>1 DEF Closing, Leased
<1>3. /\ Leave(r) \in [Requests -> Call] /\ StillServes(Leave(r), req, {r})
      /\ Unqueues(Leave(r), req, {r})
  BY <1>1, LeavingType, LeavingServes, LeavingUnqueues DEF Leave
<1>4. CASE ServeWaiter(l, busy, Leave(r), tasks)
  BY <1>1, <1>2, <1>3, <1>4, WaitServedBy
<1>5. ASSUME NEW n, Spawn(l, n, "replenish", busy, Leave(r), tasks), UNCHANGED waiters
      PROVE  WaitAll'
  <2>1. StillServes(Leave(r), req, {})
    BY <1>2, <1>3, IdlersGo
  <2>2. TasksGoOn(tasks, tasks, busy)
    BY SameTasks
  <2>3. /\ Sound(workers, busy, Leave(r), tasks)
        /\ \A k \in Lanes : Server(k, req, tasks) => Server(k, Leave(r), tasks)
    BY <2>1, <2>2, <1>1, SoundShrinks, ServerStays DEF WaitAll
  <2>4. /\ Sound(workers', busy', req', tasks')
        /\ Server(l, req', tasks')
        /\ \A k \in Lanes : Server(k, Leave(r), tasks) => Server(k, req', tasks')
        /\ \A k \in Lanes : Clogged(k, workers, busy, worn) => Clogged(k, workers', busy', worn)
    BY <2>3, <1>1, <1>5, SoundSpawned
  <2> QED
    BY <2>3, <2>4, <1>1, <1>5 DEF WaitAll, Awaited
<1> QED
  BY <1>4, <1>5 DEF ReplenishAfterRelease

\* A warm-up, in a lane where it leaves a place.
LEMMA WaitWarmed ==
  ASSUME TypeOK, WaitAll, NEW l \in Lanes, Attended(l) => WarmFloor(l) < TargetSize(l),
         WarmFloor(l) - Cardinality(workers[l]) > 0,
         Spawn(l, WarmFloor(l) - Cardinality(workers[l]), "ensure", busy, req, tasks),
         UNCHANGED <<waiters, worn>>
  PROVE  WaitAll'
<1> DEFINE n == WarmFloor(l) - Cardinality(workers[l])
<1>1. Attended(l) => Cardinality(workers'[l]) < TargetSize(l)
  <2> SUFFICES ASSUME WarmFloor(l) < TargetSize(l)
               PROVE  Cardinality(workers'[l]) < TargetSize(l)
    OBVIOUS
  <2>1. PICK new \in SUBSET Unused :
          /\ Cardinality(new) = n
          /\ workers' = [workers EXCEPT ![l] = @ \cup new]
    BY DEF Spawn
  <2>2. new \subseteq Workers /\ workers'[l] = workers[l] \cup new /\ workers[l] \cap new = {}
    BY <2>1, UnusedApart DEF TypeOK, Unused
  <2>3. /\ IsFiniteSet(workers[l]) /\ Cardinality(workers[l]) \in Nat
        /\ WarmFloor(l) \in Nat /\ TargetSize(l) \in Nat
    BY CountTypes
  <2>4. IsFiniteSet(new)
    BY <2>2, PoolConstants, FS_Subset
  <2>5. Cardinality(workers[l] \cup new) =
          Cardinality(workers[l]) + Cardinality(new) - Cardinality(workers[l] \cap new)
    BY <2>3, <2>4, FS_Union
  <2>6. Cardinality(workers[l] \cap new) = 0
    BY <2>2, FS_EmptySet
  <2>7. Cardinality(new) = WarmFloor(l) - Cardinality(workers[l])
    BY <2>1
  <2>8. Cardinality(workers[l] \cup new) = WarmFloor(l)
    BY <2>3, <2>5, <2>6, <2>7
  <2> QED
    BY <2>2, <2>8
<1>2. Sound(workers, busy, req, tasks)
  BY DEF WaitAll
<1>3. /\ Sound(workers', busy', req', tasks')
      /\ \A k \in Lanes : Server(k, req, tasks) => Server(k, req', tasks')
      /\ \A k \in Lanes : Clogged(k, workers, busy, worn) => Clogged(k, workers', busy', worn)
  BY <1>1, <1>2, SoundSpawned
<1> QED
  BY <1>3 DEF WaitAll, Awaited

\* A worker of a continuation is ready.
LEMMA WaitTaskReady ==
  ASSUME TypeOK, QueueState, ~closed, WaitAll, NEW t \in tasks, NEW w, TaskReady(t, w)
  PROVE  WaitAll'
<1> DEFINE l == t.lane
           bt == busy \ {w}
           left == tasks \ {t}
<1>0. l \in Lanes
  BY DEF TypeOK, Task
<1>1. /\ workers \in [Lanes -> SUBSET Workers] /\ req \in [Requests -> Call] /\ worn' = worn
      /\ left \subseteq tasks
  BY DEF TypeOK, TaskReady
<1>2. Sound(workers, busy, req, tasks)
  BY DEF WaitAll
<1>3. ASSUME t.pending \ {w} = {}, ServeWaiter(l, bt, req, left)
      PROVE  WaitAll'
  <2>1. Owned(workers, bt, req, left)
    <3> SUFFICES ASSUME NEW k \in Lanes, NEW v \in workers[k] \cap bt
                 PROVE  OwnedIn(k, v, req, left)
      BY DEF Owned
    <3>1. OwnedIn(k, v, req, tasks)
      BY <1>2 DEF Sound, Owned
    <3>2. v \notin t.pending
      BY <1>3
    <3> QED
      BY <3>1, <3>2 DEF OwnedIn
  <2>2. Room(workers, left)
    <3>1. \A k \in Lanes :
            Attended(k) => Warming(k, workers, left) \subseteq Warming(k, workers, tasks)
      BY DEF Warming
    <3>2. Room(workers, tasks)
      BY <1>2 DEF Sound
    <3> HIDE DEF left
    <3> QED
      BY <3>1, <3>2, <1>1, RoomStays
  <2>3. Sound(workers, bt, req, left)
    BY <2>1, <2>2, <1>2 DEF Sound
  <2>4. \A k \in Lanes \ {l} : Awaited(k, workers, bt, worn, waiters, req, left)
    BY DEF WaitAll, Awaited, Server, Clogged
  <2>5. QueueOf(waiters, req)
    BY DEF QueueState
  <2> HIDE DEF l, bt, left
  <2>6. /\ Sound(workers', busy', req', tasks')
        /\ \A k \in Lanes : Awaited(k, workers', busy', worn, waiters', req', tasks')
    BY <2>3, <2>4, <2>5, <1>0, <1>1, <1>3, WaitServed
  <2> QED
    BY <2>6, <1>1 DEF WaitAll
<1>4. ASSUME (t.pending \ {w}) \cup t.dead # {} \/ t.kind # "replenish",
             busy' = bt, tasks' = Replace(t, t.kind, t.pending \ {w}, t.dead),
             UNCHANGED <<workers, waiters, req>>
      PROVE  WaitAll'
  <2> DEFINE u0 == [kind |-> t.kind, lane |-> l, pending |-> t.pending \ {w}, dead |-> t.dead]
  <2>1. u0.kind = t.kind /\ u0.lane = l /\ u0.pending = t.pending \ {w} /\ u0.dead = t.dead
    OBVIOUS
  <2>2. tasks' = left \cup (IF (t.pending \ {w}) \cup t.dead = {} THEN {} ELSE {u0})
    BY <1>4 DEF Replace
  <2> HIDE DEF u0
  <2>3. \A s \in tasks : \A v \in s.pending \cap bt :
          \E u \in tasks' : u.lane = s.lane /\ v \in u.pending
    BY <2>1, <2>2
  <2>4. \A s \in tasks : s.kind = "replenish" =>
          \E u \in tasks' : u.kind = "replenish" /\ u.lane = s.lane
    BY <2>1, <2>2, <1>4
  <2>5. \A u \in tasks' : u.kind = "ensure" =>
          \E s \in tasks : s.kind = "ensure" /\ s.lane = u.lane /\ u.pending \subseteq s.pending
    BY <2>1, <2>2
  <2>6. TasksGoOn(tasks', tasks, busy')
    BY <2>3, <2>4, <2>5, <1>4 DEF TasksGoOn
  <2>7. StillServes(req', req, {})
    BY <1>4, SameCalls
  <2>8. \A k \in Lanes : Clogged(k, workers, busy, worn) => Clogged(k, workers', busy', worn')
    BY <1>1, <1>4 DEF Clogged
  <2>9. workers' \in [Lanes -> SUBSET Workers] /\ \A k \in Lanes : workers'[k] \subseteq workers[k]
    BY <1>1, <1>4
  <2>10. \A k \in Lanes : waiters'[k] # <<>> => waiters[k] # <<>>
    BY <1>4
  <2>11. busy' \subseteq busy
    BY <1>4
  <2> QED
    BY <2>6, <2>7, <2>8, <2>9, <2>10, <2>11, WaitKept
<1> QED
  BY <1>3, <1>4 DEF TaskReady

\* The trim timer takes workers from lanes without a queue only.
LEMMA WaitTrimmed ==
  ASSUME TypeOK, WaitAll, NEW l \in Lanes, Trim(l)
  PROVE  WaitAll'
<1>1. /\ workers \in [Lanes -> SUBSET Workers]
      /\ UNCHANGED <<busy, waiters, req, tasks>>
  BY DEF TypeOK, Trim
<1>2. StillServes(req', req, {}) /\ TasksGoOn(tasks', tasks, busy')
  BY <1>1, SameCalls, SameTasks
<1>3. ASSUME UNCHANGED <<workers, worn>>
      PROVE  WaitAll'
  BY <1>1, <1>3 DEF WaitAll
<1>4. ASSUME waiters[l] = <<>>, NEW gone \in SUBSET Idle(l),
             workers' = [workers EXCEPT ![l] = @ \ gone], worn' = worn \ gone
      PROVE  WaitAll'
  <2>1. /\ workers'[l] = workers[l] \ gone
        /\ \A k \in Lanes \ {l} : workers'[k] = workers[k]
        /\ workers' \in [Lanes -> SUBSET Workers]
    BY <1>1, <1>4
  <2>2. \A k \in Lanes \ {l} : workers[k] \cap gone = {}
    BY DEF Idle, WaitAll, Sound, Apart
  <2>3. \A k \in Lanes : waiters'[k] # <<>> /\ Clogged(k, workers, busy, worn) =>
                           Clogged(k, workers', busy', worn')
    <3> SUFFICES ASSUME NEW k \in Lanes \ {l}, Clogged(k, workers, busy, worn)
                 PROVE  Clogged(k, workers', busy', worn')
      BY <1>1, <1>4
    <3> QED
      BY <2>1, <2>2, <1>1, <1>4 DEF Clogged
  <2>4. \A k \in Lanes : workers'[k] \subseteq workers[k]
    BY <2>1
  <2>5. \A k \in Lanes : waiters'[k] # <<>> => waiters[k] # <<>>
    BY <1>1
  <2>6. busy' \subseteq busy
    BY <1>1
  <2> QED
    BY <2>1, <2>3, <2>4, <2>5, <2>6, <1>2, WaitKept
<1> QED
  BY <1>3, <1>4 DEF Trim

LEMMA WaitEnter ==
  ASSUME TypeOK, WaitAll, HomeOf(req), NEW r \in Requests, Enter(r)
  PROVE  WaitAll'
<1>1. /\ req \in [Requests -> Call] /\ req[r].phase = "entering"
  BY DEF TypeOK, Enter
<1>2. req[r].phase \notin Leased \cup Closing /\ req[r].phase \in Trying \ Closing
  BY <1>1 DEF Leased, Closing, Trying
<1>3. CASE req' = Leave(r) /\ UNCHANGED <<workers, busy, worn, waiters, tasks>>
  <2>1. StillServes(req', req, {r})
    BY <1>1, <1>3, LeavingServes DEF Leave
  <2>2. StillServes(req', req, {})
    BY <2>1, <1>2, IdlersGo
  <2>3. \A k \in Lanes : waiters'[k] # <<>> => waiters[k] # <<>>
    BY <1>3
  <2> QED
    BY <2>2, <2>3, <1>3, WaitCalls
<1>4. CASE waiters[req[r].lane] # <<>> /\ NextStage(r)
  <2>1. req[r].stage = 3 => waiters[Home[r]] # <<>>
    BY <1>1, <1>4 DEF HomeOf, Trying
  <2> QED
    BY <2>1, <1>2, <1>4, WaitNextStage
<1>5. CASE Attempt(r, workers[req[r].lane])
  BY <1>2, <1>5, WaitAttempt
<1> QED
  BY <1>3, <1>4, <1>5 DEF Enter

\* A queued call leaves its queue, or a client goes away.
LEMMA WaitLeft ==
  ASSUME TypeOK, WaitAll, NEW r \in Requests, Abort(r) \/ QueueTimeout(r)
  PROVE  WaitAll'
<1>1. /\ req \in [Requests -> Call] /\ waiters \in [Lanes -> Seq(Requests)]
      /\ UNCHANGED <<workers, busy, worn, tasks>>
  BY DEF TypeOK, Abort, QueueTimeout
<1>2. CASE req[r].phase = "queued" /\ Dequeue(r) /\ req' = Leave(r)
  <2>1. StillServes(req', req, {r})
    BY <1>1, <1>2, LeavingServes DEF Leave
  <2>2. req[r].phase \notin Leased \cup Closing
    BY <1>2 DEF Leased, Closing
  <2>3. StillServes(req', req, {})
    BY <2>1, <2>2, IdlersGo
  <2>4. PICK i \in DOMAIN waiters[Home[r]] :
          waiters' = [waiters EXCEPT ![Home[r]] = RemoveAt(@, i)]
    BY <1>2 DEF Dequeue
  <2>5. waiters[Home[r]] # <<>>
    BY <2>4
  <2>6. \A k \in Lanes : waiters'[k] # <<>> => waiters[k] # <<>>
    BY <2>4, <2>5, <1>1
  <2> QED
    BY <2>3, <2>6, <1>1, WaitCalls
<1>3. CASE req' = [req EXCEPT ![r].aborted = TRUE] /\ UNCHANGED waiters
  <2>1. \A q \in Requests : /\ req'[q].phase = req[q].phase /\ req'[q].lane = req[q].lane
                            /\ req'[q].worker = req[q].worker
    BY <1>1, <1>3 DEF Call
  <2>2. StillServes(req', req, {})
    BY <2>1 DEF StillServes
  <2>3. \A k \in Lanes : waiters'[k] # <<>> => waiters[k] # <<>>
    BY <1>3
  <2> QED
    BY <2>2, <2>3, <1>1, WaitCalls
<1> QED
  BY <1>2, <1>3 DEF Abort, QueueTimeout

\* While no start fails no continuation has a failed worker.
LEMMA NoneFailedServed ==
  ASSUME NoneFailed, NEW l, NEW bz, NEW rq, NEW tk, tk \subseteq tasks,
         ServeWaiter(l, bz, rq, tk)
  PROVE  NoneFailed'
BY DEF NoneFailed, ServeWaiter, Spawn

LEMMA NoneFailedSpawned ==
  ASSUME NoneFailed, NEW l, NEW n, NEW kind, NEW bz, NEW rq, NEW tk, tk \subseteq tasks,
         Spawn(l, n, kind, bz, rq, tk)
  PROVE  NoneFailed'
BY DEF NoneFailed, Spawn

\* Without a failed start a continuation goes on by a worker that is ready.
LEMMA TasksReady ==
  ASSUME TypeOK, NoneFailed, ~closed, failures = 0, failures' = 0,
         NEW t \in tasks, TaskStep(t)
  PROVE  \E w : TaskReady(t, w)
<1>1. PICK w \in t.pending \cup t.dead :
        TaskReady(t, w) \/ TaskStartFailed(t, w) \/ TaskRejects(t, w)
  BY DEF TaskStep
<1>2. ~TaskStartFailed(t, w)
  BY DEF TaskStartFailed, StartMayFail
<1>3. ~TaskRejects(t, w)
  BY DEF TaskRejects, NoneFailed
<1> QED
  BY <1>1, <1>2, <1>3

LEMMA NoneFailedNext ==
  ASSUME TypeOK, NoneFailed, ~closed, failures = 0, failures' = 0, [Next]_vars
  PROVE  NoneFailed'
<1>1. ASSUME UNCHANGED tasks
      PROVE  NoneFailed'
  BY <1>1 DEF NoneFailed
<1>2. ASSUME NEW r \in Requests, Enter(r) \/ Resume(r)
      PROVE  NoneFailed'
  BY <1>1, <1>2 DEF Enter, Resume, Attempt, NextStage
<1>3. ASSUME NEW r \in Requests, ChildGone(r)
      PROVE  NoneFailed'
  BY <1>3, NoneFailedServed DEF ChildGone
<1>4. ASSUME NEW r \in Requests, RunEnds(r)
      PROVE  NoneFailed'
  BY <1>1, <1>4, NoneFailedServed DEF RunEnds
<1>5. ASSUME NEW r \in Requests, ReplenishAfterRelease(r)
      PROVE  NoneFailed'
  BY <1>5, NoneFailedServed, NoneFailedSpawned DEF ReplenishAfterRelease
<1>6. ASSUME NEW t \in tasks, TaskStep(t)
      PROVE  NoneFailed'
  <2>1. PICK w : TaskReady(t, w)
    BY <1>6, TasksReady
  <2>2. CASE ServeWaiter(t.lane, busy \ {w}, req, tasks \ {t})
    <3>1. tasks \ {t} \subseteq tasks
      OBVIOUS
    <3> QED
      BY <2>2, <3>1, NoneFailedServed
  <2>3. CASE tasks' = Replace(t, t.kind, t.pending \ {w}, t.dead)
    BY <2>3 DEF Replace, NoneFailed
  <2> QED
    BY <2>1, <2>2, <2>3 DEF TaskReady
<1>7. ASSUME NEW l \in Lanes, Trim(l) \/ Retired(l) \/ Prime(l)
      PROVE  NoneFailed'
  BY <1>1, <1>7, NoneFailedSpawned DEF Trim, Retired, Prime
<1>8. ASSUME NEW r \in Requests,
             Arrive(r) \/ Abort(r) \/ Started(r) \/ StartFailed(r) \/ QueueTimeout(r)
      PROVE  UNCHANGED tasks
  BY <1>8 DEF Arrive, Abort, Started, StartFailed, QueueTimeout
<1>9. ASSUME NEW w \in Workers, WearOut(w)
      PROVE  UNCHANGED tasks
  BY <1>9 DEF WearOut
<1>10. CASE CloseAll
  BY <1>1, <1>10 DEF CloseAll
<1>11. CASE UNCHANGED vars
  BY <1>1, <1>11 DEF vars
<1> QED
  BY <1>1, <1>2, <1>3, <1>4, <1>5, <1>6, <1>7, <1>8, <1>9, <1>10, <1>11 DEF Next, RequestStep

LEMMA WaitInit == Init => WaitState
<1> SUFFICES ASSUME Init PROVE WaitState
  OBVIOUS
<1>1. TypeOK
  BY TypeInit
<1>2. /\ Apart(workers) /\ busy = {} /\ tasks = {} /\ primed = Primed /\ trimArmed = {}
      /\ \A l \in Lanes : retiring[l] = 0 /\ waiters[l] = <<>>
      /\ \A r \in Requests : req[r].phase = "out"
  BY DEF Init, Apart, NoCall, CallAt
<1>3. Static
  BY <1>2 DEF Static
<1>4. HomeOf(req)
  BY <1>2 DEF HomeOf, Trying
<1>5. Room(workers, tasks)
  <2> SUFFICES ASSUME NEW l \in Lanes
               PROVE  Cardinality(Warming(l, workers, tasks)) < TargetSize(l)
    BY DEF Room
  <2>1. Warming(l, workers, tasks) = {}
    BY <1>2 DEF Warming
  <2>2. 0 < TargetSize(l)
    BY PoolConstants DEF TargetSize, Smaller, Larger
  <2> QED
    BY <2>1, <2>2, FS_EmptySet
<1>6. WaitAll
  BY <1>2, <1>5 DEF WaitAll, Sound, Owned, Awaited
<1>7. NoneFailed
  BY <1>2 DEF NoneFailed
<1> QED
  BY <1>3, <1>4, <1>6, <1>7 DEF WaitState

LEMMA WaitAllNext ==
  ASSUME TypeOK, QueueState, LeaseState, Static, HomeOf(req), WaitAll, NoneFailed,
         ~closed, failures = 0, ~closed', failures' = 0, [Next]_vars
  PROVE  WaitAll'
<1>0. req \in [Requests -> Call] /\ workers \in [Lanes -> SUBSET Workers]
  BY DEF TypeOK
<1>1. ASSUME UNCHANGED <<workers, busy, worn, waiters, req, tasks>>
      PROVE  WaitAll'
  BY <1>1 DEF WaitAll
<1>2. ASSUME NEW r \in Requests, Arrive(r)
      PROVE  WaitAll'
  <2>1. /\ req[r].phase = "out" /\ \A q \in Requests \ {r} : req'[q] = req[q]
        /\ UNCHANGED <<workers, busy, worn, waiters, tasks>>
    BY <1>0, <1>2 DEF Arrive
  <2>2. StillServes(req', req, {})
    BY <2>1 DEF StillServes, Leased, Closing
  <2>3. \A k \in Lanes : waiters'[k] # <<>> => waiters[k] # <<>>
    BY <2>1
  <2> QED
    BY <2>1, <2>2, <2>3, WaitCalls
<1>3. ASSUME NEW r \in Requests, Enter(r)
      PROVE  WaitAll'
  BY <1>3, WaitEnter
<1>4. ASSUME NEW r \in Requests, Resume(r)
      PROVE  WaitAll'
  <2>1. req[r].phase \in Trying \ Closing
    BY <1>4 DEF Resume, Trying, Closing
  <2> QED
    BY <2>1, <1>4, WaitAttempt DEF Resume
<1>5. ASSUME NEW r \in Requests, Started(r)
      PROVE  WaitAll'
  <2>1. /\ req[r].phase = "starting" /\ req' = [req EXCEPT ![r].phase = "running"]
        /\ UNCHANGED <<workers, busy, worn, waiters, tasks>>
    BY <1>5 DEF Started
  <2>2. /\ req'[r].phase = "running" /\ req'[r].worker = req[r].worker
        /\ req'[r].lane = req[r].lane /\ \A q \in Requests \ {r} : req'[q] = req[q]
    BY <1>0, <2>1 DEF Call
  <2>3. StillServes(req', req, {})
    BY <2>1, <2>2 DEF StillServes, Leased
  <2>4. \A k \in Lanes : waiters'[k] # <<>> => waiters[k] # <<>>
    BY <2>1
  <2> QED
    BY <2>1, <2>3, <2>4, WaitCalls
<1>6. ASSUME NEW r \in Requests, StartFailed(r)
      PROVE  FALSE
  BY <1>6 DEF StartFailed, StartMayFail
<1>7. ASSUME NEW r \in Requests, ChildGone(r)
      PROVE  WaitAll'
  BY <1>7, WaitChildGone
<1>8. ASSUME NEW r \in Requests, RunEnds(r)
      PROVE  WaitAll'
  BY <1>8, WaitRunEnds
<1>9. ASSUME NEW r \in Requests, ReplenishAfterRelease(r)
      PROVE  WaitAll'
  BY <1>9, WaitReplenished
<1>10. ASSUME NEW r \in Requests, Abort(r) \/ QueueTimeout(r)
       PROVE  WaitAll'
  BY <1>10, WaitLeft
<1>11. ASSUME NEW t \in tasks, TaskStep(t)
       PROVE  WaitAll'
  BY <1>11, TasksReady, WaitTaskReady
<1>12. ASSUME NEW l \in Lanes, Trim(l)
       PROVE  WaitAll'
  BY <1>12, WaitTrimmed
<1>13. ASSUME NEW l \in Lanes, Retired(l)
       PROVE  WaitAll'
  <2>1. WarmFloor(l) < TargetSize(l)
    <3>1. retiring[l] > 0 /\ retiring \in [Lanes -> Nat]
      BY <1>13 DEF Retired, TypeOK
    <3>2. retiring[l] # 0
      BY <3>1
    <3> QED
      BY <3>2 DEF Static
  <2>2. CASE UNCHANGED <<workers, busy, req, tasks>>
    BY <2>2, <1>13, <1>1 DEF Retired
  <2> QED
    BY <2>1, <2>2, <1>13, WaitWarmed DEF Retired
<1>14. ASSUME NEW l \in Lanes, Prime(l)
       PROVE  WaitAll'
  <2>1. Attended(l) => WarmFloor(l) < TargetSize(l)
    BY <1>14 DEF Prime, Static, Attended
  <2>2. CASE UNCHANGED <<workers, busy, req, tasks>>
    BY <2>2, <1>14, <1>1 DEF Prime
  <2> QED
    BY <2>1, <2>2, <1>14, WaitWarmed DEF Prime
<1>15. ASSUME NEW w \in Workers, WearOut(w)
       PROVE  WaitAll'
  <2>1. worn' = worn \cup {w} /\ UNCHANGED <<workers, busy, waiters, req, tasks>>
    BY <1>15 DEF WearOut
  <2>2. \A k \in Lanes : Clogged(k, workers, busy, worn) => Clogged(k, workers, busy, worn')
    BY <2>1 DEF Clogged
  <2> QED
    BY <2>1, <2>2 DEF WaitAll, Awaited
<1>16. CASE CloseAll
  BY <1>16 DEF CloseAll
<1>17. CASE UNCHANGED vars
  BY <1>17, <1>1 DEF vars
<1> QED
  BY <1>2, <1>3, <1>4, <1>5, <1>6, <1>7, <1>8, <1>9, <1>10, <1>11, <1>12, <1>13, <1>14,
     <1>15, <1>16, <1>17
  DEF Next, RequestStep

\* A closed pool stays closed, and failures are not forgotten.
LEMMA TroubleStays ==
  ASSUME TypeOK, [Next]_vars, ~closed', failures' = 0
  PROVE  ~closed /\ failures = 0
<1>0. failures \in Nat
  BY DEF TypeOK
<1>1. ASSUME UNCHANGED <<closed, failures>>
      PROVE  ~closed /\ failures = 0
  BY <1>1
<1>2. ASSUME StartMayFail, UNCHANGED closed
      PROVE  ~closed /\ failures = 0
  BY <1>0, <1>2 DEF StartMayFail
<1>3. ASSUME NEW r \in Requests, Arrive(r) \/ RequestStep(r) \/ Abort(r)
      PROVE  ~closed /\ failures = 0
  BY <1>1, <1>2, <1>3
  DEF RequestStep, Arrive, Abort, Enter, Resume, ReplenishAfterRelease, Started, StartFailed,
      ChildGone, RunEnds, QueueTimeout
<1>4. ASSUME NEW t \in tasks, TaskStep(t)
      PROVE  ~closed /\ failures = 0
  BY <1>1, <1>2, <1>4 DEF TaskStep, TaskReady, TaskStartFailed, TaskRejects
<1>5. ASSUME NEW l \in Lanes, Trim(l) \/ Retired(l) \/ Prime(l)
      PROVE  ~closed /\ failures = 0
  BY <1>1, <1>5 DEF Trim, Retired, Prime
<1>6. ASSUME NEW w \in Workers, WearOut(w)
      PROVE  ~closed /\ failures = 0
  BY <1>1, <1>6 DEF WearOut
<1>7. CASE CloseAll
  BY <1>7 DEF CloseAll
<1>8. CASE UNCHANGED vars
  BY <1>1, <1>8 DEF vars
<1> QED
  BY <1>3, <1>4, <1>5, <1>6, <1>7, <1>8 DEF Next

LEMMA WaitNext == TypeOK /\ QueueState /\ LeaseState /\ WaitState /\ [Next]_vars => WaitState'
<1> SUFFICES ASSUME TypeOK, QueueState, LeaseState, WaitState, [Next]_vars
             PROVE  WaitState'
  OBVIOUS
<1>1. Static' /\ HomeOf(req')
  BY StaticNext, HomeNext DEF WaitState
<1>2. ASSUME ~closed', failures' = 0
      PROVE  WaitAll' /\ NoneFailed'
  <2>1. ~closed /\ failures = 0
    BY <1>2, TroubleStays
  <2>2. WaitAll /\ NoneFailed /\ Static /\ HomeOf(req)
    BY <2>1 DEF WaitState
  <2> QED
    BY <2>1, <2>2, <1>2, WaitAllNext, NoneFailedNext
<1> QED
  BY <1>1, <1>2 DEF WaitState

\* QueueHasServer: while no start has failed, a call queued in an open bucket
\* of execution-pool.ts whose warm-up leaves a place is only forgotten when a
\* worn worker idles there: else some release, discard or replenishment under
\* way ends in #serveWaiter for its lane.
THEOREM QueuesServed == Spec => []QueueHasServer
<1>1. TypeOK /\ WaitState => QueueHasServer
  <2> SUFFICES ASSUME WaitState, ~closed, failures = 0, NEW l \in Lanes,
                      Attended(l), waiters[l] # <<>>
               PROVE  HasServer(l) \/ Idle(l) \cap worn # {}
    BY DEF QueueHasServer
  <2>1. Server(l, req, tasks) \/ Clogged(l, workers, busy, worn)
    BY DEF WaitState, WaitAll, Awaited
  <2> QED
    BY <2>1 DEF Server, HasServer, Clogged, Idle
<1> QED
  BY <1>1, QueueInit, QueueNext, LeaseInit, LeaseNext, WaitInit, WaitNext, TypeInit, TypeNext,
     PTL DEF Spec
=============================================================================

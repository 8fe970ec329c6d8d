---------------------------- MODULE ExecutionPool ----------------------------
(***************************************************************************)
(* The pooled ACP execution plane of src/acp/execution-pool.ts: one bucket *)
(* of worker processes per lane, requests that lease a worker, queue for   *)
(* one or borrow one from another lane, and the elastic life of the        *)
(* workers (warm-up, replenishment, recycling, retirement, shutdown).      *)
(*                                                                         *)
(* One action is one turn of the Node event loop up to its next await.     *)
(* Requests whose continuation is already queued as a microtask are in a   *)
(* Microtask phase; timers, I/O and new calls (macrotasks) wait until none *)
(* is left (Drained).  Waits on a child process are phases of a request or *)
(* records in tasks.                                                       *)
(***************************************************************************)
EXTENDS Integers, Sequences, FiniteSets, SequencesExt

CONSTANTS
  Lanes,            \* the buckets ("interactive", "batch")
  Workers,          \* identities of AcpWorker objects
  Requests,         \* client slots, each with one call in flight at a time
  NoWorker,
  Home,             \* [Requests -> Lanes]: opts.lane of the slot's calls
  Lender,           \* [Lanes -> Lanes]: opts.borrowFrom; itself when absent
  poolSize,         \* [Lanes -> Int]: opts.poolSize
  warmSize,         \* [Lanes -> Int]: opts.warmSize
  queueMax,         \* [Lanes -> Nat]: opts.queueMax
  elastic,          \* opts.idleTtlMs > 0
  Primed,           \* lanes whose warm-up is over when the behaviour starts
  MaxStartFailures  \* bound: worker starts that fail in one behaviour

ASSUME PoolConstants ==
  /\ IsFiniteSet(Workers) /\ Workers \subseteq Nat /\ NoWorker \notin Workers
  /\ Home \in [Requests -> Lanes] /\ Lender \in [Lanes -> Lanes]
  /\ poolSize \in [Lanes -> Int] /\ warmSize \in [Lanes -> Int]
  /\ queueMax \in [Lanes -> Nat]
  /\ elastic \in BOOLEAN /\ Primed \subseteq Lanes /\ MaxStartFailures \in Nat

VARIABLES
  workers,    \* [Lanes -> SUBSET Workers]: #workers of each bucket
  busy,       \* the workers whose busy flag is set
  worn,       \* the workers whose shouldRecycle() is true
  waiters,    \* [Lanes -> Seq(Requests)]: #waiters of each bucket
  req,        \* [Requests -> record]: where each request's call stands
  tasks,      \* #ensureSize calls that wait for the workers they started
  retiring,   \* [Lanes -> Nat]: retired workers whose close() is awaited
  trimArmed,  \* the lanes whose trim timer is set
  closed,     \* closeAllAcpPools has run
  primed,     \* the lanes primePooledAcp has been called for
  failures    \* worker starts that failed (bounded by MaxStartFailures)

vars == <<workers, busy, worn, waiters, req, tasks, retiring, trimArmed,
          closed, primed, failures>>

Smaller(a, b) == IF a < b THEN a ELSE b
Larger(a, b) == IF a > b THEN a ELSE b

TargetSize(l) == Smaller(8, Larger(1, poolSize[l]))
WarmFloor(l) == Smaller(TargetSize(l), Larger(0, warmSize[l]))

Microtask == {"entering", "resuming", "replenishing"}
Closing == {"discarding", "failing", "releasing"}
Leased == {"starting", "running"}
Phase == {"out", "queued"} \cup Microtask \cup Closing \cup Leased

Call == [phase : Phase, worker : Workers \cup {NoWorker}, lane : Lanes,
         stage : 1..3, rest : SUBSET Workers, aborted : BOOLEAN,
         ahead : SUBSET Requests]
Task == [kind : {"ensure", "replenish"}, lane : Lanes,
         pending : SUBSET Workers, dead : SUBSET Workers]

TypeOK ==
  /\ workers \in [Lanes -> SUBSET Workers]
  /\ busy \subseteq Workers /\ worn \subseteq Workers
  /\ waiters \in [Lanes -> Seq(Requests)]
  /\ req \in [Requests -> Call]
  /\ tasks \subseteq Task
  /\ retiring \in [Lanes -> Nat]
  /\ trimArmed \subseteq Lanes /\ primed \subseteq Lanes
  /\ closed \in BOOLEAN
  /\ failures \in Nat

-----------------------------------------------------------------------------
Drained == \A r \in Requests : req[r].phase \notin Microtask

\* Workers under construction: ready() has not resolved yet.
Starting == (UNION {t.pending : t \in tasks})
              \cup {req[r].worker : r \in {q \in Requests : req[q].phase = "starting"}}

Idle(l) == workers[l] \ busy
Fit(l) == Idle(l) \ worn

\* The workers of a snapshot that tryAcquireNow recycles.
Stale(l, rest) == rest \cap Idle(l) \cap worn

\* Mutant: release looks at the worker's health only.
WornOut(w) == w \in worn

\* release discards the worker instead of keeping it.
Discards(w) == closed \/ w \in worn

\* The bucket a request's worker came from and goes back to.
WorkerBucket(r) == req[r].lane

\* Mutant: a retirement is counted twice.
TwoGone(l) == [retiring EXCEPT ![l] = @ - 2]

OneGone(l) == [retiring EXCEPT ![l] = @ - 1]

\* Identities no bucket, call or continuation refers to.
Unused ==
  Workers \ ((UNION {workers[l] : l \in Lanes})
             \cup (UNION {t.pending \cup t.dead : t \in tasks})
             \cup {req[r].worker : r \in Requests}
             \cup (UNION {req[r].rest : r \in Requests}))

\* New workers take the first unused identities: which ones is immaterial.
First(new) == \A w \in new, v \in Unused \ new : w < v

CallAt(phase, w, l) ==
  [phase |-> phase, worker |-> w, lane |-> l, stage |-> 1,
   rest |-> {}, aborted |-> FALSE, ahead |-> {}]

NoCall(r) == CallAt("out", NoWorker, Home[r])

\* The call of r goes on, without a worker, at a stage of its way through lane l.
Goes(r, phase, l, stage, rest) ==
  [req EXCEPT ![r] =
     [phase |-> phase, worker |-> NoWorker, lane |-> l, stage |-> stage,
      rest |-> rest, aborted |-> req[r].aborted, ahead |-> req[r].ahead]]

\* The calls of a set of requests settle, with a result or an error.
Leaving(rq, rs) ==
  [r \in Requests |-> IF r \in rs THEN NoCall(r)
                                  ELSE [rq[r] EXCEPT !.ahead = @ \ rs]]

Leave(r) == Leaving(req, {r})

\* The call of r has a worker of lane l.
Hold(rq, r, phase, w, l) ==
  [Leaving(rq, {r}) EXCEPT ![r] = CallAt(phase, w, l)]

Init ==
  /\ workers \in [Lanes -> SUBSET Workers]
  /\ \A l \in Lanes :
       Cardinality(workers[l]) = IF l \in Primed THEN WarmFloor(l) ELSE 0
  /\ \A k, l \in Lanes : k # l => workers[k] \cap workers[l] = {}
  /\ busy = {} /\ worn = {} /\ tasks = {} /\ trimArmed = {}
  /\ retiring = [l \in Lanes |-> 0]
  /\ waiters = [l \in Lanes |-> <<>>]
  /\ req = [r \in Requests |-> NoCall(r)]
  /\ closed = FALSE
  /\ primed = Primed
  /\ failures = 0
  /\ \A l \in Lanes : First(workers[l])

\* Mutant: a worker under construction is not marked busy.
SpawnIdle(l, n, kind, bz, rq, tk) ==
  \E new \in SUBSET Unused :
    /\ Cardinality(new) = n /\ First(new)
    /\ workers' = [workers EXCEPT ![l] = @ \cup new]
    /\ busy' = bz
    /\ req' = rq
    /\ tasks' = tk \cup {[kind |-> kind, lane |-> l, pending |-> new, dead |-> {}]}

\* #ensureSize: n workers under construction (busy), and the continuation
\* that awaits them all.
Spawn(l, n, kind, bz, rq, tk) ==
  \E new \in SUBSET Unused :
    /\ Cardinality(new) = n /\ First(new)
    /\ workers' = [workers EXCEPT ![l] = @ \cup new]
    /\ busy' = bz \cup new
    /\ req' = rq
    /\ tasks' = tk \cup {[kind |-> kind, lane |-> l, pending |-> new, dead |-> {}]}

\* Mutant: the demand is not cut off at targetSize.
UnboundedDemand(l) == Larger(WarmFloor(l), Cardinality(workers[l]) + Len(waiters[l]))

DemandTarget(l) ==
  Smaller(TargetSize(l),
          Larger(WarmFloor(l), Cardinality(workers[l]) + Len(waiters[l])))

\* The queued calls of lane l whose client is still there, by position.
Live(l) == {i \in DOMAIN waiters[l] : ~req[waiters[l][i]].aborted}

\* #serveWaiter, after the caller's own updates bz, rq and tk of busy, req and
\* tasks.  With an idle worker, the calls of clients that have gone away leave
\* the head of the queue and the first live one gets the worker; with none
\* idle and room in the bucket, #replenish starts workers for the demand.
ServeWaiter(l, bz, rq, tk) ==
  LET fit == (workers[l] \ bz) \ worn
      waiting == ~closed /\ waiters[l] # <<>>
      Prefix(n) == {waiters[l][i] : i \in 1..n}
  IN
  \/ /\ waiting
     /\ \E w \in fit, n \in Live(l) :
          /\ \A i \in Live(l) : n <= i
          /\ busy' = bz \cup {w}
          /\ req' = Hold(Leaving(rq, Prefix(n - 1)),
                         waiters[l][n], "running", w, l)
          /\ waiters' = [waiters EXCEPT ![l] = SubSeq(@, n + 1, Len(@))]
     /\ tasks' = tk
     /\ UNCHANGED workers
  \/ /\ waiting /\ fit # {} /\ Live(l) = {}
     /\ busy' = bz
     /\ req' = Leaving(rq, Prefix(Len(waiters[l])))
     /\ waiters' = [waiters EXCEPT ![l] = <<>>]
     /\ tasks' = tk
     /\ UNCHANGED workers
  \/ /\ waiting /\ fit = {} /\ Cardinality(workers[l]) < TargetSize(l)
     /\ Spawn(l, DemandTarget(l) - Cardinality(workers[l]), "replenish", bz, rq, tk)
     /\ UNCHANGED waiters
  \/ /\ \/ ~waiting
        \/ fit = {} /\ Cardinality(workers[l]) >= TargetSize(l)
     /\ busy' = bz /\ req' = rq /\ tasks' = tk
     /\ UNCHANGED <<workers, waiters>>

-----------------------------------------------------------------------------
(***************************************************************************)
(* A request's call: acquireRunLease, tryAcquireNow and acquire.           *)
(* Stage 1 is tryAcquireNow on the request's own lane, stage 2 the attempt *)
(* to borrow an idle worker, stage 3 tryAcquireNow inside acquire.         *)
(***************************************************************************)
Arrive(r) ==
  /\ Drained /\ ~closed
  /\ req[r].phase = "out"
  /\ \E gone \in BOOLEAN :
       req' = [req EXCEPT ![r] =
                 [phase |-> "entering", worker |-> NoWorker, lane |-> Home[r],
                  stage |-> 1, rest |-> {}, aborted |-> gone,
                  ahead |-> {q \in Requests : req[q].phase = "queued"}]]
  /\ UNCHANGED <<workers, busy, worn, waiters, tasks, retiring, trimArmed, closed,
                 primed, failures>>

\* No worker at this stage: borrow, then queue in the request's own lane.
NextStage(r) ==
  LET l == Home[r] IN
  /\ \/ /\ req[r].stage = 1 /\ Lender[l] # l
        /\ req' = Goes(r, "entering", Lender[l], 2, {})
        /\ UNCHANGED waiters
     \/ /\ req[r].stage = 2 \/ (req[r].stage = 1 /\ Lender[l] = l)
        /\ req' = Goes(r, "entering", l, 3, {})
        /\ UNCHANGED waiters
     \/ /\ req[r].stage = 3 /\ Len(waiters[l]) >= queueMax[l]
        /\ req' = Leave(r)
        /\ UNCHANGED waiters
     \/ /\ req[r].stage = 3 /\ Len(waiters[l]) < queueMax[l]
        /\ req' = Goes(r, "queued", l, 1, {})
        /\ waiters' = [waiters EXCEPT ![l] = Append(@, r)]
  /\ UNCHANGED <<workers, busy, worn, tasks>>

\* The rest of tryAcquireNow for the workers of the snapshot not looked at
\* yet: recycle the worn ones, one await each, then take an idle worker or
\* create one.  Neither the closed flag nor the queue is looked at again.
Attempt(r, rest) ==
  LET l == req[r].lane
      stale == Stale(l, rest)
  IN
  \/ /\ \E w \in stale :
          /\ workers' = [workers EXCEPT ![l] = @ \ {w}]
          /\ worn' = worn \ {w}
          /\ req' = Goes(r, "discarding", l, req[r].stage, rest \ {w})
     /\ UNCHANGED <<busy, waiters, tasks>>
  \/ /\ stale = {}
     /\ \E w \in Fit(l) :
          /\ busy' = busy \cup {w}
          /\ req' = Hold(req, r, "running", w, l)
     /\ UNCHANGED <<workers, worn, waiters, tasks>>
  \/ /\ stale = {} /\ Fit(l) = {}
     /\ req[r].stage # 2 /\ Cardinality(workers[l]) < TargetSize(l)
     /\ \E w \in Unused :
          /\ First({w})
          /\ workers' = [workers EXCEPT ![l] = @ \cup {w}]
          /\ busy' = busy \cup {w}
          /\ req' = Hold(req, r, "starting", w, l)
     /\ UNCHANGED <<worn, waiters, tasks>>
  \/ /\ stale = {} /\ Fit(l) = {}
     /\ req[r].stage = 2 \/ Cardinality(workers[l]) >= TargetSize(l)
     /\ NextStage(r)

\* Mutant: the queue is not looked at first.
EnterBypassing(r) ==
  /\ req[r].phase = "entering"
  /\ \/ /\ closed \/ req[r].aborted
        /\ req' = Leave(r)
        /\ UNCHANGED <<workers, busy, worn, waiters, tasks>>
     \/ /\ ~closed /\ ~req[r].aborted
        /\ Attempt(r, workers[req[r].lane])
  /\ UNCHANGED <<retiring, trimArmed, closed, primed, failures>>

\* tryAcquireNow up to its first await.
Enter(r) ==
  LET l == req[r].lane IN
  /\ req[r].phase = "entering"
  /\ \/ /\ closed \/ req[r].aborted
        /\ req' = Leave(r)
        /\ UNCHANGED <<workers, busy, worn, waiters, tasks>>
     \/ /\ ~closed /\ ~req[r].aborted /\ waiters[l] # <<>>
        /\ NextStage(r)
     \/ /\ ~closed /\ ~req[r].aborted /\ waiters[l] = <<>>
        /\ Attempt(r, workers[l])
  /\ UNCHANGED <<retiring, trimArmed, closed, primed, failures>>

\* tryAcquireNow after a recycled worker's close() has been awaited.
Resume(r) ==
  /\ req[r].phase = "resuming"
  /\ Attempt(r, req[r].rest)
  /\ UNCHANGED <<retiring, trimArmed, closed, primed, failures>>

\* ready() of a worker the request created.
Started(r) ==
  /\ Drained
  /\ req[r].phase = "starting" /\ req[r].worker \in workers[req[r].lane]
  /\ req' = [req EXCEPT ![r].phase = "running"]
  /\ UNCHANGED <<workers, busy, worn, waiters, tasks, retiring, trimArmed, closed, primed,
                 failures>>

\* A worker start fails: by itself, or because the pool closed its connection.
StartMayFail ==
  /\ closed \/ failures < MaxStartFailures
  /\ failures' = IF closed THEN failures ELSE failures + 1

\* The synchronous part of #discard(created) after a failed ready().
StartFailed(r) ==
  /\ Drained
  /\ req[r].phase = "starting"
  /\ StartMayFail
  /\ workers' = [workers EXCEPT ![req[r].lane] = @ \ {req[r].worker}]
  /\ busy' = busy \ {req[r].worker}
  /\ req' = Goes(r, "failing", req[r].lane, 1, {})
  /\ UNCHANGED <<worn, waiters, tasks, retiring, trimArmed, closed, primed>>

\* close() of a discarded worker is over: #serveWaiter, then the request goes
\* on: it looks further, fails, or replenishes.
ChildGone(r) ==
  /\ Drained
  /\ req[r].phase \in Closing
  /\ ServeWaiter(req[r].lane, busy,
        CASE req[r].phase = "discarding" -> [req EXCEPT ![r].phase = "resuming"]
          [] req[r].phase = "failing" -> Leave(r)
          [] req[r].phase = "releasing" -> [req EXCEPT ![r].phase = "replenishing"],
        tasks)
  /\ UNCHANGED <<worn, retiring, trimArmed, closed, primed, failures>>

\* #scheduleTrim: the timer is set, or set again, while there may be an excess.
ScheduleTrim(l) ==
  IF /\ elastic /\ WarmFloor(l) < TargetSize(l)
     /\ Cardinality(workers[l]) > WarmFloor(l)
  THEN trimArmed \cup {l} ELSE trimArmed

\* worker.run settles and release follows.  A worker that left the bucket is
\* let go; a worn one, or any after the pool closed, is discarded; another
\* serves the queue and re-arms the trim timer.
RunEnds(r) ==
  LET l == WorkerBucket(r)
      w == req[r].worker
  IN
  /\ Drained
  /\ req[r].phase = "running"
  /\ \/ /\ w \notin workers[l]
        /\ req' = Leave(r)
        /\ UNCHANGED <<workers, busy, worn, waiters, tasks, trimArmed>>
     \/ /\ w \in workers[l] /\ Discards(w)
        /\ workers' = [workers EXCEPT ![l] = @ \ {w}]
        /\ busy' = busy \ {w}
        /\ worn' = worn \ {w}
        /\ req' = Goes(r, "releasing", l, 1, {})
        /\ UNCHANGED <<waiters, tasks, trimArmed>>
     \/ /\ w \in workers[l] /\ ~Discards(w)
        /\ ServeWaiter(l, busy \ {w}, Leave(r), tasks)
        /\ trimArmed' = ScheduleTrim(l)
        /\ UNCHANGED worn
  /\ UNCHANGED <<retiring, closed, primed, failures>>

\* release's #replenish after a discard.
ReplenishAfterRelease(r) ==
  LET l == req[r].lane IN
  /\ req[r].phase = "replenishing"
  /\ \/ /\ ~closed /\ DemandTarget(l) > Cardinality(workers[l])
        /\ Spawn(l, DemandTarget(l) - Cardinality(workers[l]), "replenish",
                 busy, Leave(r), tasks)
        /\ UNCHANGED waiters
     \/ /\ closed \/ DemandTarget(l) <= Cardinality(workers[l])
        /\ ServeWaiter(l, busy, Leave(r), tasks)
  /\ UNCHANGED <<worn, retiring, trimArmed, closed, primed, failures>>

\* The entry of r leaves its queue.
Dequeue(r) ==
  LET l == Home[r] IN
  \E i \in DOMAIN waiters[l] :
    /\ waiters[l][i] = r
    /\ waiters' = [waiters EXCEPT ![l] = RemoveAt(@, i)]

\* The client goes away while its request waits.  A queued request leaves the
\* queue at once (waiter.onAbort); otherwise only the signal is set.
Abort(r) ==
  /\ Drained
  /\ \/ /\ req[r].phase = "queued"
        /\ Dequeue(r)
        /\ req' = Leave(r)
     \/ /\ req[r].phase = "discarding" /\ ~req[r].aborted
        /\ req' = [req EXCEPT ![r].aborted = TRUE]
        /\ UNCHANGED waiters
  /\ UNCHANGED <<workers, busy, worn, tasks, retiring, trimArmed, closed, primed,
                 failures>>

\* Mutant: the timer rejects the call and leaves its entry in the queue.
TimeoutLeavesEntry(r) ==
  /\ Drained
  /\ req[r].phase = "queued"
  /\ req' = Leave(r)
  /\ UNCHANGED <<workers, busy, worn, waiters, tasks, retiring, trimArmed, closed,
                 primed, failures>>

\* Mutant: the timer drops the entry and does not reject the call.
TimeoutLeavesCall(r) ==
  /\ Drained
  /\ req[r].phase = "queued"
  /\ Dequeue(r)
  /\ UNCHANGED <<workers, busy, worn, req, tasks, retiring, trimArmed, closed,
                 primed, failures>>

\* waiter.timer fires.
QueueTimeout(r) ==
  /\ Drained
  /\ req[r].phase = "queued"
  /\ Dequeue(r)
  /\ req' = Leave(r)
  /\ UNCHANGED <<workers, busy, worn, tasks, retiring, trimArmed, closed, primed,
                 failures>>

-----------------------------------------------------------------------------
(***************************************************************************)
(* Continuations of the bucket itself.                                     *)
(***************************************************************************)
\* The continuation t goes on with these workers, or is over.
Replace(t, kind, pending, dead) ==
  (tasks \ {t}) \cup
    (IF pending \cup dead = {} THEN {}
     ELSE {[kind |-> kind, lane |-> t.lane, pending |-> pending, dead |-> dead]})

\* Mutant: a replenishment ends without a look at the queue.
TaskReadyUnserved(t, w) ==
  /\ Drained
  /\ w \in t.pending \cap workers[t.lane]
  /\ busy' = busy \ {w}
  /\ tasks' = Replace(t, t.kind, t.pending \ {w}, t.dead)
  /\ UNCHANGED <<workers, waiters, req, worn, retiring, trimArmed, closed, primed,
                 failures>>

\* A worker started by #ensureSize is ready and idle.  The last one of a
\* replenishment serves the queue; a warm-up has no continuation.
TaskReady(t, w) ==
  LET over == (t.pending \ {w}) \cup t.dead = {} IN
  /\ Drained
  /\ w \in t.pending \cap workers[t.lane]
  /\ \/ /\ over /\ t.kind = "replenish"
        /\ ServeWaiter(t.lane, busy \ {w}, req, tasks \ {t})
     \/ /\ ~over \/ t.kind # "replenish"
        /\ busy' = busy \ {w}
        /\ tasks' = Replace(t, t.kind, t.pending \ {w}, t.dead)
        /\ UNCHANGED <<workers, waiters, req>>
  /\ UNCHANGED <<worn, retiring, trimArmed, closed, primed, failures>>

\* A worker started by #ensureSize fails: it is dropped and then closed.
TaskStartFailed(t, w) ==
  /\ Drained
  /\ w \in t.pending
  /\ StartMayFail
  /\ workers' = [workers EXCEPT ![t.lane] = @ \ {w}]
  /\ busy' = busy \ {w}
  /\ tasks' = Replace(t, t.kind, t.pending \ {w}, t.dead \cup {w})
  /\ UNCHANGED <<worn, waiters, req, retiring, trimArmed, closed, primed>>

\* close() of such a worker is over, so Promise.all rejects: a replenishment
\* rejects the head of the queue.  Workers still starting have no
\* continuation left, like those of a warm-up.
TaskRejects(t, w) ==
  LET l == t.lane IN
  /\ Drained
  /\ w \in t.dead
  /\ tasks' = Replace(t, "ensure", t.pending, t.dead \ {w})
  /\ \/ /\ t.kind = "replenish" /\ waiters[l] # <<>>
        /\ req' = Leave(Head(waiters[l]))
        /\ waiters' = [waiters EXCEPT ![l] = Tail(@)]
     \/ /\ t.kind = "ensure" \/ waiters[l] = <<>>
        /\ UNCHANGED <<req, waiters>>
  /\ UNCHANGED <<workers, busy, worn, retiring, trimArmed, closed, primed, failures>>

\* Mutant: retirement does not tell idle workers from busy ones.
TrimAny(l) ==
  /\ Drained
  /\ l \in trimArmed /\ retiring[l] = 0
  /\ trimArmed' = trimArmed \ {l}
  /\ waiters[l] = <<>>
  /\ \E w \in workers[l] :
       /\ workers' = [workers EXCEPT ![l] = @ \ {w}]
       /\ worn' = worn \ {w}
       /\ retiring' = [retiring EXCEPT ![l] = 1]
  /\ UNCHANGED <<busy, waiters, req, tasks, closed, primed, failures>>

\* The trim timer fires: idle workers above max(warm floor, active) go.
\* Bound: one retirement per lane at a time (close() takes a second at most,
\* idleTtlMs is longer).
Trim(l) ==
  LET active == Cardinality(workers[l] \cap busy)
      excess == Cardinality(workers[l]) - Larger(WarmFloor(l), active)
  IN
  /\ Drained
  /\ l \in trimArmed /\ retiring[l] = 0
  /\ trimArmed' = trimArmed \ {l}
  /\ \/ /\ waiters[l] = <<>> /\ excess > 0
        /\ \E gone \in SUBSET Idle(l) :
             /\ Cardinality(gone) = excess
             /\ workers' = [workers EXCEPT ![l] = @ \ gone]
             /\ worn' = worn \ gone
             /\ retiring' = [retiring EXCEPT ![l] = excess]
     \/ /\ waiters[l] # <<>> \/ excess <= 0
        /\ UNCHANGED <<workers, worn, retiring>>
  /\ UNCHANGED <<busy, waiters, req, tasks, closed, primed, failures>>

\* A retired worker is gone; after the last one the warm floor is restored.
Retired(l) ==
  LET missing == WarmFloor(l) - Cardinality(workers[l])
      over == retiring[l] = 1
  IN
  /\ Drained
  /\ retiring[l] > 0
  /\ retiring' = OneGone(l)
  /\ \/ /\ over /\ ~closed /\ missing > 0
        /\ Spawn(l, missing, "ensure", busy, req, tasks)
     \/ /\ ~over \/ closed \/ missing <= 0
        /\ UNCHANGED <<workers, busy, req, tasks>>
  /\ UNCHANGED <<worn, waiters, trimArmed, closed, primed, failures>>

\* primeDefaultAcpPool: the warm-up of lane l.
Prime(l) ==
  LET missing == WarmFloor(l) - Cardinality(workers[l]) IN
  /\ Drained /\ ~closed
  /\ l \notin primed
  /\ primed' = primed \cup {l}
  /\ \/ /\ missing > 0
        /\ Spawn(l, missing, "ensure", busy, req, tasks)
     \/ /\ missing <= 0
        /\ UNCHANGED <<workers, busy, req, tasks>>
  /\ UNCHANGED <<worn, waiters, retiring, trimArmed, closed, failures>>

\* An initialised worker becomes due for recycling: its child process or its
\* prepared session broke, or it reached its age or its number of requests.
WearOut(w) ==
  /\ Drained /\ ~closed
  /\ w \in (UNION {workers[l] : l \in Lanes}) \ (Starting \cup worn)
  /\ worn' = worn \cup {w}
  /\ UNCHANGED <<workers, busy, waiters, req, tasks, retiring, trimArmed, closed, primed,
                 failures>>

\* closeAllAcpPools: every bucket rejects its queue and closes its workers.
CloseAll ==
  /\ Drained /\ ~closed
  /\ closed' = TRUE
  /\ trimArmed' = {}
  /\ req' = Leaving(req, {r \in Requests : req[r].phase = "queued"})
  /\ waiters' = [l \in Lanes |-> <<>>]
  /\ workers' = [l \in Lanes |-> {}]
  /\ busy' = {} /\ worn' = {}
  /\ UNCHANGED <<tasks, retiring, primed, failures>>

-----------------------------------------------------------------------------
RequestStep(r) ==
  \/ Enter(r) \/ Resume(r) \/ ReplenishAfterRelease(r)
  \/ Started(r) \/ StartFailed(r) \/ ChildGone(r) \/ RunEnds(r)
  \/ QueueTimeout(r)

TaskStep(t) ==
  \E w \in t.pending \cup t.dead :
    TaskReady(t, w) \/ TaskStartFailed(t, w) \/ TaskRejects(t, w)

Next ==
  \/ \E r \in Requests : Arrive(r) \/ RequestStep(r) \/ Abort(r)
  \/ \E t \in tasks : TaskStep(t)
  \/ \E l \in Lanes : Trim(l) \/ Retired(l) \/ Prime(l)
  \/ \E w \in Workers : WearOut(w)
  \/ CloseAll

Spec == Init /\ [][Next]_vars

\* The event loop gets round to every promise that settled and to every timer
\* that is due, whatever else keeps arriving (strong: a turn that is due is
\* disabled during the microtasks of others); a child process answers, fails
\* or runs into its request timeout.
Fairness ==
  /\ \A r \in Requests : SF_vars(RequestStep(r))
  /\ \A l \in Lanes :
       /\ SF_vars(\E t \in tasks : t.lane = l /\ TaskStep(t))
       /\ SF_vars(Retired(l))

FairSpec == Spec /\ Fairness

-----------------------------------------------------------------------------
(***************************************************************************)
(* Safety.                                                                 *)
(***************************************************************************)

\* A worker serves one request at a time: no two calls hold the same worker,
\* and no bucket counts a held worker as idle (it could hand it out again,
\* recycle it or retire it).  Interleavings of tryAcquireNow, #serveWaiter,
\* release and #trimExcessIdle.
ExclusiveLease ==
  \A r \in Requests : req[r].phase \in Leased =>
    /\ \A q \in Requests \ {r} :
         req[q].phase \in Leased => req[q].worker # req[r].worker
    /\ \A l \in Lanes : req[r].worker \notin Idle(l)

\* While the pool is open nobody drops the worker under a running request:
\* discards, the trim timer and failing tasks only take workers without one.
LeaseKeptAlive ==
  \A r \in Requests :
    req[r].phase = "running" => closed \/ req[r].worker \in workers[req[r].lane]

\* "*_POOL_SIZE is the physical ceiling": no interleaving of requests,
\* replenishments, warm-up and retirement grows a bucket beyond targetSize.
CeilingRespected == \A l \in Lanes : Cardinality(workers[l]) <= TargetSize(l)

\* The queue of a lane holds its queued calls, each once, and never more than
\* queueMax: no settled call is granted a worker, no queued one is forgotten.
QueueSound ==
  \A l \in Lanes :
    /\ {waiters[l][i] : i \in DOMAIN waiters[l]}
         = {r \in Requests : req[r].phase = "queued" /\ Home[r] = l}
    /\ \A i, j \in DOMAIN waiters[l] : waiters[l][i] = waiters[l][j] => i = j
    /\ Len(waiters[l]) <= queueMax[l]

\* r gets a worker of lane l in this step.
Obtains(r, l) ==
  req[r].phase \notin Leased /\ req'[r].phase \in Leased /\ req'[r].lane = l

\* "Never let a newer request bypass an already queued request", per lane: a
\* call that found q queued in lane l does not get a worker of l while q
\* still waits there, whatever was awaited in between.
NoBypass ==
  [][\A r \in Requests : \A q \in req[r].ahead :
       Obtains(r, Home[q]) => req[q].aborted]_vars

\* Some call or replenishment whose completion calls #serveWaiter.
HasServer(l) ==
  \/ \E r \in Requests : req[r].phase \in Leased \cup Closing /\ req[r].lane = l
  \/ \E t \in tasks : t.kind = "replenish" /\ t.lane = l

\* The lanes whose warm-up leaves a place for the demand, or is over when the
\* behaviour starts.
Attended(l) == WarmFloor(l) < TargetSize(l) \/ l \in Primed

\* No lost wake-up but one: while a lane has a queue, something under way will
\* serve it, through recycling, retirement and aborted calls; or an idle
\* worker that wore out after tryAcquireNow had taken its snapshot fills the
\* bucket.  (While no start fails, and but for lanes whose warm-up takes every
\* place: nobody looks at the queue when a warm-up ends.)
QueueHasServer ==
  ~closed /\ failures = 0 =>
    \A l \in Lanes :
      Attended(l) /\ waiters[l] # <<>> => HasServer(l) \/ Idle(l) \cap worn # {}

-----------------------------------------------------------------------------
(***************************************************************************)
(* Liveness under FairSpec.                                                *)
(***************************************************************************)

\* Every call settles: served, rejected, timed out or aborted, whatever it
\* waits for and whatever fails or closes meanwhile.
CallsSettle == \A r \in Requests : req[r].phase # "out" ~> req[r].phase = "out"

\* After closeAllAcpPools no worker survives for good, not even one that a
\* request or a continuation created after the buckets were emptied.
ShutdownDrains ==
  closed ~> [](busy = {} /\ \A l \in Lanes : workers[l] = {})
=============================================================================

------------------------------ MODULE ToolPool ------------------------------
(***************************************************************************)
(* ToolAcpPool of src/acp/tool-pool.ts: warm agent connections leased to   *)
(* tool turns, with a bounded queue, elastic size, recycling, retirement   *)
(* and shutdown.                                                           *)
(*                                                                         *)
(* A fill is one call of #ensureSize and whoever awaits it: it succeeds    *)
(* when all of its workers are ready and fails with the first that fails,  *)
(* the others then finish without anyone waiting for them.                 *)
(***************************************************************************)
EXTENDS Integers, Sequences, FiniteSets, SequencesExt

CONSTANTS
  Workers,           \* names for workers, reused; a bound on those alive at once
  Requests,          \* tool starts that want a connection, each once
  poolSize,          \* targetSize
  warmSize,          \* warmSize, at most targetSize
  queueMax,          \* opts.queueMax
  elastic,           \* idleTtlMs > 0
  MaxStartFailures   \* bound: worker starts that fail while the pool is open

\* No pool is made for a size of zero (primeToolAcpPool, tryAcquireToolAcpConnection,
\* acquireToolAcpConnection), and the configured size is a whole number.
ASSUME ToolPoolConstants ==
  /\ IsFiniteSet(Workers) /\ poolSize \in Nat \ {0} /\ warmSize \in Nat
  /\ warmSize <= poolSize /\ queueMax \in Nat /\ elastic \in BOOLEAN
  /\ MaxStartFailures \in Nat

VARIABLES
  workers,    \* #workers
  busy,       \* workers with busy = true: leased or under construction
  worn,       \* workers of the pool for which shouldRecycle() holds
  starting,   \* workers whose ready() has not settled
  dying,      \* those whose start failed and that are being closed
  fills,      \* the #ensureSize calls in progress
  closing,    \* workers that #discard closes; a refill follows
  retiring,   \* sets of workers that a #trimExcessIdle closes
  waiters,    \* #waiters
  req,        \* [Requests -> Call]
  gone,       \* requests whose client left while prime() was awaited
  trimArmed,  \* #trimTimer is set
  closed,     \* #closed
  failures    \* failed starts so far

poolVars == <<workers, busy, worn, starting, dying, fills, closing, retiring>>
vars == <<poolVars, waiters, req, gone, trimArmed, closed, failures>>

Call == [phase : {"out", "priming", "primed", "queued", "holding", "done"}, worker : Workers \cup {0}]
Out == [phase |-> "out", worker |-> 0]
Done == [phase |-> "done", worker |-> 0]
In(phase) == [phase |-> phase, worker |-> 0]
Holding(w) == [phase |-> "holding", worker |-> w]

\* kind "prime" is the shared #primePromise; blame: whose waiter a failure rejects.
Fill == [kind : {"prime", "scale", "trim"}, pending : SUBSET Workers,
         blame : Requests \cup {"nobody", "all"}]

Leased == {req[r].worker : r \in {q \in Requests : req[q].phase = "holding"}}
InUse == workers \cup starting \cup closing \cup (UNION retiring) \cup Leased
\* Bound: workers on their way out at once, so that a name is always free.
Leaving == worn \cup dying \cup closing \cup (UNION retiring)
MayLeave(out) == Cardinality(Leaving \cup out) + poolSize <= Cardinality(Workers)
Priming == {f \in fills : f.kind = "prime"}
Waiting(r) == \E i \in DOMAIN waiters : waiters[i] = r
\* The queue without the waiter of r: indexOf and splice.
Removed(r) == IF Waiting(r) THEN RemoveAt(waiters, CHOOSE i \in DOMAIN waiters : waiters[i] = r) ELSE waiters
AtMost(a, b) == IF a < b THEN a ELSE b
AtLeast(a, b) == IF a > b THEN a ELSE b

\* Acquisitions whose prime() has settled go on before anything else happens.
Drained == \A r \in Requests : req[r].phase # "primed"

\* The state is well formed and its parts agree: idle workers are not leased,
\* a fill waits for workers under construction, and an idle worker of an open
\* pool is in the pool.
TypeOK ==
  /\ workers \subseteq Workers
  /\ busy \cup worn \subseteq workers /\ starting \subseteq Workers
  /\ closing \subseteq Workers /\ retiring \subseteq SUBSET Workers
  /\ dying \subseteq starting
  /\ fills \subseteq Fill /\ req \in [Requests -> Call] /\ gone \subseteq Requests
  /\ \A i \in DOMAIN waiters : waiters[i] \in Requests
  /\ trimArmed \in BOOLEAN /\ closed \in BOOLEAN /\ failures \in 0..MaxStartFailures
  /\ \A f \in fills : f.pending \subseteq starting
  /\ (starting \cup Leased) \cap workers \subseteq busy

Init ==
  /\ workers = {} /\ busy = {} /\ worn = {} /\ starting = {} /\ dying = {} /\ fills = {}
  /\ closing = {} /\ retiring = {}
  /\ waiters = <<>> /\ req = [r \in Requests |-> Out] /\ gone = {}
  /\ trimArmed = FALSE /\ closed = FALSE /\ failures = 0

-----------------------------------------------------------------------------
\* #ensureSize up to a size, on a pool of workers ws: the new workers.
Recruits(ws, desired) ==
  {new \in SUBSET (Workers \ InUse) :
     Cardinality(new) = IF closed THEN 0
                        ELSE AtLeast(0, AtMost(poolSize, desired) - Cardinality(ws))}

\* #ensureSize, on the pool's workers ws, busy workers bz and fills fl.
Spawn(ws, bz, fl, desired, kind, blame) ==
  \E new \in Recruits(ws, desired) :
    /\ workers' = ws \cup new /\ busy' = bz \cup new
    /\ starting' = starting \cup new
    /\ fills' = fl \cup (IF new = {} THEN {} ELSE {[kind |-> kind, pending |-> new, blame |-> blame]})

\* The size #scaleForDemand aims at, with n waiters.
Demand(ws, n) == AtLeast(warmSize, Cardinality(ws) + AtLeast(1, n))

\* #takeIdleLease: idle workers that are due for recycling are discarded on the
\* way, and one of the rest is leased.
Stale(ws, bz) == (ws \ bz) \cap worn
\* Mutant: only readiness is looked at.
IdleReady(ws, bz) == (ws \ starting) \ worn
Idle(ws, bz) == (ws \ bz) \ worn

\* What a run of #dispatchWaiters may do on workers ws, busy workers bz and the
\* queue wt: the first waiters whose client is still there get the idle workers
\* there are, those of the others that it meets are dropped.
Dispatched(ws, bz, wt) ==
  LET there == IF closed THEN {} ELSE {i \in DOMAIN wt : wt[i] \notin gone}
      stale == IF there = {} THEN {} ELSE Stale(ws, bz)
      served == {i \in there : Cardinality({j \in there : j <= i}) <= Cardinality(Idle(ws, bz))}
      left == {i \in DOMAIN wt : closed \/ \E j \in there \ served : j <= i}
  IN
  {[workers |-> ws \ stale, stale |-> stale,
    busy |-> bz \cup {give[i] : i \in served},
    waiters |-> SubSeq(wt, Len(wt) - Cardinality(left) + 1, Len(wt)),
    lease |-> [r \in {wt[i] : i \in served} |-> give[CHOOSE i \in served : wt[i] = r]],
    dropped |-> {wt[i] : i \in DOMAIN wt \ (left \cup served)}] :
   give \in {g \in [served -> Idle(ws, bz)] : \A i, j \in served : i # j => g[i] # g[j]}}

\* The calls rq after the dispatch d.
Settled(rq, d) ==
  [r \in Requests |-> IF r \in DOMAIN d.lease THEN Holding(d.lease[r])
                      ELSE IF r \in d.dropped THEN Done ELSE rq[r]]

\* #discard of a set of workers, up to the end of worker.close().
Discard(out) == closing' = closing \cup out /\ worn' = worn \ out

\* A dispatch after the caller's updates of the busy workers and the calls.
Dispatch(bz, rq) ==
  \E d \in Dispatched(workers, bz, waiters) :
    /\ workers' = d.workers /\ Discard(d.stale)
    /\ busy' = d.busy /\ waiters' = d.waiters /\ req' = Settled(rq, d)

-----------------------------------------------------------------------------
\* primeDefaultToolAcpPool, when the gateway starts: prime() of the pool.
Prime ==
  /\ Drained /\ ~closed /\ Priming = {} /\ Cardinality(workers) < warmSize
  /\ Spawn(workers, busy, fills, warmSize, "prime", "nobody")
  /\ UNCHANGED <<worn, dying, closing, retiring, waiters, req, gone, trimArmed, closed, failures>>

\* acquire() up to the await of prime(), which dispatches when nothing is missing.
Acquire(r) ==
  /\ Drained /\ ~closed /\ req[r] = Out
  /\ \/ /\ Priming # {}
        /\ req' = [req EXCEPT ![r] = In("priming")]
        /\ UNCHANGED <<workers, busy, worn, closing, waiters, starting, fills>>
     \/ /\ Priming = {} /\ Cardinality(workers) < warmSize
        /\ Spawn(workers, busy, fills, warmSize, "prime", "nobody")
        /\ req' = [req EXCEPT ![r] = In("priming")]
        /\ UNCHANGED <<worn, closing, waiters>>
     \/ /\ Priming = {} /\ Cardinality(workers) >= warmSize
        /\ Dispatch(busy, [req EXCEPT ![r] = In("primed")])
        /\ UNCHANGED <<starting, fills>>
  /\ UNCHANGED <<dying, retiring, gone, trimArmed, closed, failures>>

\* acquire() after prime(); neither #closed nor the signal is looked at again.
\* An empty queue and an idle worker: the worker is leased.
TakesIdle(r) ==
  /\ waiters = <<>>
  /\ \E w \in Idle(workers, busy) :
       /\ req' = [req EXCEPT ![r] = Holding(w)]
       /\ busy' = busy \cup {w}
  /\ workers' = workers \ Stale(workers, busy) /\ Discard(Stale(workers, busy))
  /\ UNCHANGED <<waiters, starting, fills>>

\* A full queue: the request is refused.
Refused(r) ==
  LET stale == IF waiters = <<>> THEN Stale(workers, busy) ELSE {} IN
  /\ Len(waiters) >= queueMax
  /\ req' = [req EXCEPT ![r] = Done]
  /\ workers' = workers \ stale /\ Discard(stale)
  /\ UNCHANGED <<waiters, busy, starting, fills>>

\* The request joins the queue, is served if it can be, and asks for workers.
Queued(r) ==
  /\ Len(waiters) < queueMax
  /\ \E d \in Dispatched(workers, busy, Append(waiters, r)) :
       /\ Discard(d.stale) /\ waiters' = d.waiters
       /\ req' = Settled([req EXCEPT ![r] = In("queued")], d)
       /\ IF \E i \in DOMAIN d.waiters : d.waiters[i] = r
          THEN Spawn(d.workers, d.busy, fills, Demand(d.workers, Len(d.waiters)), "scale", r)
          ELSE workers' = d.workers /\ busy' = d.busy /\ UNCHANGED <<starting, fills>>

Primed(r) ==
  /\ req[r].phase = "primed"
  /\ TakesIdle(r) \/ ((waiters # <<>> \/ Idle(workers, busy) = {}) /\ (Refused(r) \/ Queued(r)))
  /\ UNCHANGED <<dying, retiring, gone, trimArmed, closed, failures>>

\* tryAcquire(): an idle worker or none; a miss asks for workers, and for prime().
TryAcquire(r) ==
  /\ Drained /\ ~closed /\ req[r] = Out
  /\ \/ TakesIdle(r)
     \/ /\ waiters = <<>> /\ Idle(workers, busy) = {}
        /\ LET ws == workers \ Stale(workers, busy) IN
           Spawn(ws, busy, fills, Demand(ws, 0), "scale", "nobody") /\ Discard(Stale(workers, busy))
        /\ UNCHANGED <<waiters, req>>
     \/ /\ waiters # <<>> /\ Priming = {} /\ Cardinality(workers) < warmSize
        /\ Spawn(workers, busy, fills, warmSize, "prime", "nobody")
        /\ UNCHANGED <<worn, closing, waiters, req>>
     \/ /\ waiters # <<>> /\ Priming = {} /\ Cardinality(workers) >= warmSize
        /\ Dispatch(busy, req)
        /\ UNCHANGED <<starting, fills>>
  /\ UNCHANGED <<dying, retiring, gone, trimArmed, closed, failures>>

-----------------------------------------------------------------------------
\* The fills after worker w has settled without failing one.
Without(w) == {f \in fills : w \notin f.pending} \cup
              {[f EXCEPT !.pending = @ \ {w}] : f \in {g \in fills : w \in g.pending /\ g.pending # {w}}}
Completes(w, kinds) == \E f \in fills : f.kind \in kinds /\ f.pending = {w}
AfterPriming(phase) == [r \in Requests |-> IF req[r].phase = "priming" THEN phase ELSE req[r]]

\* Mutant: a worker that became ready is not offered to the queue.
ReadyUnoffered(w) ==
  /\ Drained /\ w \in starting \ dying
  /\ starting' = starting \ {w} /\ fills' = Without(w) /\ busy' = busy \ {w}
  /\ req' = IF Completes(w, {"prime"}) THEN AfterPriming(In("primed")) ELSE req
  /\ UNCHANGED <<workers, worn, closing, waiters>>
  /\ UNCHANGED <<dying, retiring, gone, trimArmed, closed, failures>>

\* A worker is ready: initialised, authenticated, warmed up. The last of a fill
\* ends its await; prime and scale-up then dispatch.
WorkerReady(w) ==
  /\ Drained /\ w \in starting \ dying
  /\ starting' = starting \ {w} /\ fills' = Without(w)
  /\ IF Completes(w, {"prime", "scale"})
     THEN Dispatch(busy \ {w}, IF Completes(w, {"prime"}) THEN AfterPriming(In("primed")) ELSE req)
     ELSE busy' = busy \ {w} /\ UNCHANGED <<workers, worn, closing, waiters, req>>
  /\ UNCHANGED <<dying, retiring, gone, trimArmed, closed, failures>>

\* ready() rejects: the worker leaves the pool and is closed.
WorkerFails(w) ==
  /\ Drained /\ w \in starting \ dying /\ (closed \/ (failures < MaxStartFailures /\ MayLeave({w})))
  /\ failures' = IF closed THEN failures ELSE failures + 1
  /\ dying' = dying \cup {w}
  /\ workers' = workers \ {w} /\ busy' = busy \ {w} /\ worn' = worn \ {w}
  /\ UNCHANGED <<starting, fills, closing, retiring, waiters, req, gone, trimArmed, closed>>

\* Then its fill, if it has not failed before, fails at once, and the calls that
\* await it. Who else awaits it decides which waiters do.
FailureReported(w) ==
  /\ Drained /\ w \in dying
  /\ dying' = dying \ {w} /\ starting' = starting \ {w}
  /\ \/ /\ \A f \in fills : w \notin f.pending
        /\ UNCHANGED <<fills, waiters, req>>
     \/ \E f \in fills :
          LET rejected == {r \in Requests : f.blame \in {r, "all"} /\ Waiting(r)} IN
          /\ w \in f.pending /\ fills' = fills \ {f}
          /\ waiters' = IF f.blame = "all" THEN <<>> ELSE Removed(f.blame)
          /\ req' = [r \in Requests |->
                       IF r \in rejected \/ (f.kind = "prime" /\ req[r].phase = "priming")
                       THEN Done ELSE req[r]]
  /\ UNCHANGED <<workers, busy, worn, closing, retiring, gone, trimArmed, closed, failures>>

\* #discard after worker.close(): refill for the queue, or up to the warm size.
DiscardDone(w) ==
  /\ Drained /\ w \in closing
  /\ \/ /\ closed
        /\ closing' = closing \ {w} /\ UNCHANGED <<workers, busy, worn, starting, fills, waiters, req>>
     \/ /\ ~closed /\ waiters # <<>> /\ Cardinality(workers) < poolSize
        /\ Spawn(workers, busy, fills, Demand(workers, Len(waiters)), "scale", "all")
        /\ closing' = closing \ {w} /\ UNCHANGED <<worn, waiters, req>>
     \/ /\ ~closed /\ waiters # <<>> /\ Cardinality(workers) >= poolSize
        /\ \E d \in Dispatched(workers, busy, waiters) :
             /\ workers' = d.workers /\ busy' = d.busy /\ waiters' = d.waiters
             /\ closing' = (closing \ {w}) \cup d.stale /\ worn' = worn \ d.stale
             /\ req' = Settled(req, d)
        /\ UNCHANGED <<starting, fills>>
     \/ /\ ~closed /\ waiters = <<>>
        /\ IF Priming = {}
           THEN Spawn(workers, busy, fills, warmSize, "prime", "all")
           ELSE /\ fills' = (fills \ Priming) \cup {[f EXCEPT !.blame = "all"] : f \in Priming}
                /\ UNCHANGED <<workers, busy, starting>>
        /\ closing' = closing \ {w} /\ UNCHANGED <<worn, waiters, req>>
  /\ UNCHANGED <<dying, retiring, gone, trimArmed, closed, failures>>

-----------------------------------------------------------------------------
CanTrim == elastic /\ warmSize < poolSize

\* lease.release(reusable), once per lease.
Release(r) ==
  LET w == req[r].worker IN
  /\ Drained /\ req[r].phase = "holding"
  /\ \/ /\ w \notin workers
        /\ req' = [req EXCEPT ![r] = Done]
        /\ UNCHANGED <<workers, busy, worn, closing, waiters, trimArmed>>
     \/ /\ w \in workers /\ MayLeave({w})
        /\ req' = [req EXCEPT ![r] = Done]
        /\ workers' = workers \ {w} /\ busy' = busy \ {w} /\ Discard({w})
        /\ UNCHANGED <<waiters, trimArmed>>
     \/ /\ w \in workers \ worn
        /\ Dispatch(busy \ {w}, [req EXCEPT ![r] = Done])
        /\ trimArmed' = (trimArmed \/ (CanTrim /\ Cardinality(workers') > warmSize))
  /\ UNCHANGED <<starting, dying, fills, retiring, gone, closed, failures>>

\* #trimExcessIdle, when the timer fires.
TrimFires ==
  LET Kept == AtLeast(warmSize, Cardinality(busy))
      excess == AtMost(Cardinality(workers \ busy), AtLeast(0, Cardinality(workers) - Kept))
  IN
  /\ Drained /\ trimArmed /\ trimArmed' = FALSE
  /\ IF waiters = <<>> /\ excess > 0
     THEN \E out \in SUBSET (workers \ busy) :
            /\ Cardinality(out) = excess /\ MayLeave(out)
            /\ workers' = workers \ out /\ worn' = worn \ out
            /\ retiring' = retiring \cup {out}
     ELSE UNCHANGED <<workers, worn, retiring>>
  /\ UNCHANGED <<busy, starting, dying, fills, closing, waiters, req, gone, closed, failures>>

\* The retired workers are closed; the pool fills up to its warm size.
RetireDone(out) ==
  /\ Drained /\ out \in retiring /\ retiring' = retiring \ {out}
  /\ Spawn(workers, busy, fills, warmSize, "trim", "nobody")
  /\ UNCHANGED <<worn, dying, closing, waiters, req, gone, trimArmed, closed, failures>>

\* Mutant: the abort handler rejects the call and leaves its waiter in the queue.
ClientLeavesQueue(r) ==
  /\ Drained /\ r \notin gone
  /\ \/ /\ req[r].phase = "priming" /\ gone' = gone \cup {r} /\ UNCHANGED req
     \/ /\ req[r].phase = "queued" /\ req' = [req EXCEPT ![r] = Done] /\ UNCHANGED gone
  /\ UNCHANGED <<poolVars, waiters, trimArmed, closed, failures>>

\* The client of a waiting call leaves; before the queue only the signal tells.
ClientLeaves(r) ==
  /\ Drained /\ r \notin gone
  /\ \/ /\ req[r].phase = "priming" /\ gone' = gone \cup {r} /\ UNCHANGED <<waiters, req>>
     \/ /\ req[r].phase = "queued" /\ waiters' = Removed(r)
        /\ req' = [req EXCEPT ![r] = Done] /\ UNCHANGED gone
  /\ UNCHANGED <<poolVars, trimArmed, closed, failures>>

\* The queue timer of a waiter.
QueueTimeout(r) ==
  /\ Drained /\ req[r].phase = "queued"
  /\ waiters' = Removed(r) /\ req' = [req EXCEPT ![r] = Done]
  /\ UNCHANGED <<poolVars, gone, trimArmed, closed, failures>>

\* shouldRecycle becomes true: age, number of requests, a closed connection.
WearOut(w) ==
  /\ Drained /\ w \in workers \ (worn \cup starting) /\ MayLeave({w}) /\ worn' = worn \cup {w}
  /\ UNCHANGED <<workers, busy, starting, dying, fills, closing, retiring>>
  /\ UNCHANGED <<waiters, req, gone, trimArmed, closed, failures>>

\* Mutant: the pool is closed and its workers stay in it.
CloseKeeping ==
  /\ Drained /\ ~closed /\ closed' = TRUE /\ trimArmed' = FALSE
  /\ waiters' = <<>> /\ UNCHANGED <<workers, busy, worn>>
  /\ req' = [r \in Requests |-> IF Waiting(r) THEN Done ELSE req[r]]
  /\ UNCHANGED <<starting, dying, fills, closing, retiring, gone, failures>>

\* close(): waiters are rejected, the workers leave the pool and are killed.
Close ==
  /\ Drained /\ ~closed /\ closed' = TRUE /\ trimArmed' = FALSE
  /\ waiters' = <<>> /\ workers' = {} /\ busy' = {} /\ worn' = {}
  /\ req' = [r \in Requests |-> IF Waiting(r) THEN Done ELSE req[r]]
  /\ UNCHANGED <<starting, dying, fills, closing, retiring, gone, failures>>

Next ==
  \/ Prime \/ TrimFires \/ Close
  \/ \E r \in Requests : Acquire(r) \/ TryAcquire(r) \/ Primed(r) \/ Release(r) \/ ClientLeaves(r) \/ QueueTimeout(r)
  \/ \E w \in Workers : \/ WorkerReady(w) \/ WorkerFails(w) \/ FailureReported(w)
                        \/ DiscardDone(w) \/ WearOut(w)
  \/ \E out \in retiring : RetireDone(out)

\* Continuations run, starts settle, processes die, and turns end by their timer.
Fairness ==
  /\ \A r \in Requests : WF_vars(Primed(r)) /\ WF_vars(Release(r))
  /\ \A w \in Workers : /\ WF_vars(WorkerReady(w) \/ WorkerFails(w))
                        /\ WF_vars(FailureReported(w)) /\ WF_vars(DiscardDone(w))

Spec == Init /\ [][Next]_vars
FairSpec == Spec /\ Fairness

-----------------------------------------------------------------------------
\* A worker has at most one lease, and never one while it is being prepared,
\* recycled or retired.
ExclusiveLease ==
  /\ \A r, q \in Requests :
       (r # q /\ req[r].phase = "holding" /\ req[q].phase = "holding") => req[r].worker # req[q].worker
  /\ Leased \cap (starting \cup closing \cup (UNION retiring)) = {}

\* The pool never has more workers than its ceiling, and a closed pool has none:
\* a start that settles after close() brings no worker back.
CeilingHolds == Cardinality(workers) <= IF closed THEN 0 ELSE poolSize

\* The queue holds the waiting calls, each once and at most queueMax of them.
QueueSound ==
  /\ Len(waiters) <= queueMax
  /\ \A r \in Requests : (req[r].phase = "queued") <=> Waiting(r)
  /\ \A i, j \in DOMAIN waiters : i # j => waiters[i] # waiters[j]

\* Until a start fails, a queue in an open pool has something that will dispatch
\* it: a lease that will end, a fill someone dispatches after, or a discard.
QueueHasServer ==
  (waiters # <<>> /\ ~closed /\ failures = 0) =>
    \/ Leased \cap workers # {} \/ closing # {}
    \/ \E f \in fills : f.kind # "trim"

=============================================================================

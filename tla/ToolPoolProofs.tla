--------------------------- MODULE ToolPoolProofs ---------------------------
(***************************************************************************)
(* Theorems about ToolPool, for any number of connections and calls and    *)
(* every configuration.                                                    *)
(***************************************************************************)
EXTENDS ToolPool, QueueFacts, FiniteSetTheorems

\* Connections and leases: ws are the pool's connections, bz the busy ones and
\* wn the worn ones; st are under construction, lv are being closed and rq are
\* the calls.
LeaseInv(ws, bz, wn, st, lv, rq) ==
  /\ ws \subseteq Workers /\ bz \subseteq ws /\ wn \subseteq ws /\ st \subseteq Workers
  /\ rq \in [Requests -> Call]
  /\ st \cap ws \subseteq bz /\ ws \cap lv = {}
  /\ \A r \in Requests : rq[r].phase = "holding" =>
       rq[r].worker \notin st \cup lv /\ (rq[r].worker \in ws => rq[r].worker \in bz)
  /\ \A r, q \in Requests :
       (r # q /\ rq[r].phase = "holding" /\ rq[q].phase = "holding") => rq[r].worker # rq[q].worker

\* Fills wait for connections under construction, each for its own.
FillInv(st, dy, fl) ==
  /\ dy \subseteq st /\ fl \subseteq Fill
  /\ \A f \in fl : f.pending \subseteq st
  /\ \A f, g \in fl : f # g => f.pending \cap g.pending = {}

\* The queue holds the waiting calls.
QueueInv(wt, rq) ==
  /\ wt \in Seq(Requests) /\ Len(wt) <= queueMax /\ Distinct(wt)
  /\ \A i \in Entries(wt) : rq[wt[i]].phase = "queued"
  /\ \A r \in Requests : rq[r].phase = "queued" => \E i \in Entries(wt) : wt[i] = r

Ceil(ws, c) == Cardinality(ws) <= IF c THEN 0 ELSE poolSize

Plain ==
  /\ closing \subseteq Workers /\ retiring \subseteq SUBSET Workers /\ gone \subseteq Requests
  /\ trimArmed \in BOOLEAN /\ closed \in BOOLEAN /\ failures \in 0..MaxStartFailures

PoolInv ==
  /\ LeaseInv(workers, busy, worn, starting, closing \cup (UNION retiring), req)
  /\ FillInv(starting, dying, fills)
  /\ QueueInv(waiters, req)
  /\ Ceil(workers, closed)
  /\ Plain

-----------------------------------------------------------------------------
\* The connections of a pool can be counted.
LEMMA Countable ==
  ASSUME NEW ws \in SUBSET Workers
  PROVE  IsFiniteSet(ws) /\ Cardinality(ws) \in Nat
BY ToolPoolConstants, FS_Subset, FS_CardinalityType

\* Fewer connections keep the ceiling.
LEMMA FewerCeil ==
  ASSUME NEW ws \in SUBSET Workers, NEW us \in SUBSET ws, NEW c \in BOOLEAN, Ceil(ws, c)
  PROVE  Ceil(us, c)
<1>1. /\ Cardinality(us) <= Cardinality(ws) /\ Cardinality(us) \in Nat /\ Cardinality(ws) \in Nat
  BY Countable, FS_Subset
<1> QED
  BY <1>1, ToolPoolConstants DEF Ceil

\* What is left of leases when connections leave, flags are cleared of idle
\* ones and leases end.
LEMMA LeasesOfFewer ==
  ASSUME NEW ws, NEW bz, NEW wn, NEW st, NEW lv, NEW rq, LeaseInv(ws, bz, wn, st, lv, rq),
         NEW us \in SUBSET ws, NEW wx \in SUBSET us, NEW lw, NEW sx \in SUBSET st, NEW rt \in [Requests -> Call],
         lw \subseteq lv \cup (ws \ us),
         \A r \in Requests : rt[r].phase = "holding" => rt[r] = rq[r] /\ rq[r].worker \notin lw
  PROVE  LeaseInv(us, bz \cap us, wx, sx, lw, rt)
BY DEF LeaseInv

\* No call holds, and nothing keeps, a connection that #ensureSize creates.
LEMMA Fresh ==
  ASSUME NEW ws, NEW desired, NEW new \in Recruits(ws, desired)
  PROVE  /\ new \subseteq Workers
         /\ new \cap (workers \cup starting \cup closing \cup (UNION retiring)) = {}
         /\ \A r \in Requests : req[r].phase = "holding" => req[r].worker \notin new
<1>1. new \subseteq Workers \ InUse
  BY DEF Recruits
<1>2. \A r \in Requests : req[r].phase = "holding" => req[r].worker \in Leased
  BY DEF Leased
<1>3. workers \cup starting \cup closing \cup (UNION retiring) \subseteq InUse /\ Leased \subseteq InUse
  BY DEF InUse
<1> QED
  BY <1>1, <1>2, <1>3

\* #ensureSize on the connections ws, whatever its caller has changed before.
LEMMA SpawnStep ==
  ASSUME PoolInv, NEW ws, NEW bz, NEW wn, NEW fl, NEW lv, NEW rq, NEW desired \in Int,
         NEW kind \in {"prime", "scale", "trim"}, NEW blame \in Requests \cup {"nobody", "all"},
         LeaseInv(ws, bz, wn, starting, lv, rq), FillInv(starting, dying, fl), Ceil(ws, closed),
         ws \subseteq workers, lv \subseteq closing \cup (UNION retiring) \cup workers,
         \A r \in Requests : rq[r].phase = "holding" =>
           rq[r].worker \in workers \/ (req[r].phase = "holding" /\ rq[r].worker = req[r].worker),
         Spawn(ws, bz, fl, desired, kind, blame)
  PROVE  /\ LeaseInv(workers', busy', wn, starting', lv, rq)
         /\ FillInv(starting', dying, fills')
         /\ Ceil(workers', closed)
<1>1. PICK new \in Recruits(ws, desired) :
        /\ workers' = ws \cup new /\ busy' = bz \cup new
        /\ starting' = starting \cup new
        /\ fills' = fl \cup (IF new = {} THEN {} ELSE {[kind |-> kind, pending |-> new, blame |-> blame]})
  BY DEF Spawn
<1>2. /\ new \subseteq Workers
      /\ new \cap (workers \cup starting \cup closing \cup (UNION retiring)) = {}
      /\ \A r \in Requests : req[r].phase = "holding" => req[r].worker \notin new
  BY Fresh
<1>3. LeaseInv(workers', busy', wn, starting', lv, rq)
  <2>1. \A r \in Requests : rq[r].phase = "holding" => rq[r].worker \notin new
    BY <1>2
  <2>2. new \cap ws = {} /\ new \cap lv = {}
    BY <1>2
  <2> QED
    BY <1>1, <1>2, <2>1, <2>2 DEF LeaseInv
<1>4. FillInv(starting', dying, fills')
  <2> DEFINE h == [kind |-> kind, pending |-> new, blame |-> blame]
  <2>1. h \in Fill /\ h.pending = new
    BY <1>2 DEF Fill
  <2>2. \A f \in fl : f.pending \cap new = {}
    BY <1>2 DEF FillInv
  <2>3. fills' = fl \/ fills' = fl \cup {h}
    BY <1>1
  <2> HIDE DEF h
  <2> QED
    BY <1>1, <2>1, <2>2, <2>3 DEF FillInv
<1>5. Ceil(workers', closed)
  <2>1. /\ ws \in SUBSET Workers /\ new \in SUBSET Workers /\ ws \cap new = {}
    BY <1>2 DEF LeaseInv
  <2>2. /\ Cardinality(ws) \in Nat /\ Cardinality(new) \in Nat
        /\ Cardinality(ws \cup new) = Cardinality(ws) + Cardinality(new)
    <3>1. IsFiniteSet(ws) /\ IsFiniteSet(new) /\ Cardinality(ws) \in Nat /\ Cardinality(new) \in Nat
      BY <2>1, Countable
    <3>2. Cardinality(ws \cup new) = Cardinality(ws) + Cardinality(new) - Cardinality(ws \cap new)
      BY <3>1, FS_Union
    <3>3. Cardinality(ws \cap new) = 0
      BY <2>1, FS_EmptySet
    <3> QED
      BY <3>1, <3>2, <3>3
  <2>3. Cardinality(new) = IF closed THEN 0 ELSE AtLeast(0, AtMost(poolSize, desired) - Cardinality(ws))
    BY DEF Recruits
  <2>4. CASE closed
    BY <1>1, <2>2, <2>3, <2>4 DEF Ceil
  <2>5. CASE ~closed
    <3>1. Cardinality(ws) <= poolSize /\ poolSize \in Nat
      BY <2>5, ToolPoolConstants DEF Ceil
    <3>2. AtMost(poolSize, desired) <= poolSize /\ AtMost(poolSize, desired) \in Int
      BY <3>1 DEF AtMost
    <3>3. Cardinality(ws) + Cardinality(new) <= poolSize
      BY <2>2, <2>3, <2>5, <3>1, <3>2 DEF AtLeast
    <3> QED
      BY <1>1, <2>2, <2>5, <3>3 DEF Ceil
  <2> QED
    BY <2>4, <2>5
<1> QED
  BY <1>3, <1>4, <1>5

\* A call is a phase and a connection.
LEMMA CallProps ==
  /\ \A w \in Workers : /\ Holding(w) \in Call /\ Holding(w).phase = "holding" /\ Holding(w).worker = w
  /\ Out \in Call /\ Out.phase = "out" /\ Done \in Call /\ Done.phase = "done"
  /\ \A p \in {"priming", "primed", "queued"} : In(p) \in Call /\ In(p).phase = p
BY DEF Holding, Call, Out, Done, In

\* The connections held in rt are held in rq already, or are of ws.
FromPool(rt, rq, ws) ==
  \A r \in Requests : rt[r].phase = "holding" => rt[r].worker \in ws \/ rt[r] = rq[r]

\* A run of #dispatchWaiters on the connections ws, the queue wt and the calls rq.
LEMMA DispatchProps ==
  ASSUME NEW ws, NEW bz, NEW st, NEW lv, NEW rq, NEW wt, NEW d \in Dispatched(ws, bz, wt),
         LeaseInv(ws, bz, worn, st, lv, rq), QueueInv(wt, rq), closed \in BOOLEAN
  PROVE  /\ LeaseInv(d.workers, d.busy, worn \ d.stale, st, lv \cup d.stale, Settled(rq, d))
         /\ QueueInv(d.waiters, Settled(rq, d))
         /\ d.workers \subseteq ws /\ d.stale \subseteq ws
         /\ FromPool(Settled(rq, d), rq, ws)
<1> DEFINE n == Len(wt)
           there == IF closed THEN {} ELSE {i \in DOMAIN wt : wt[i] \notin gone}
           stale == IF there = {} THEN {} ELSE Stale(ws, bz)
           served == {i \in there : Cardinality({j \in there : j <= i}) <= Cardinality(Idle(ws, bz))}
           left == {i \in DOMAIN wt : closed \/ \E j \in there \ served : j <= i}
<1>1. PICK give \in [served -> Idle(ws, bz)] :
        /\ \A i, j \in served : i # j => give[i] # give[j]
        /\ d = [workers |-> ws \ stale, stale |-> stale,
                busy |-> bz \cup {give[i] : i \in served},
                waiters |-> SubSeq(wt, Len(wt) - Cardinality(left) + 1, Len(wt)),
                lease |-> [r \in {wt[i] : i \in served} |-> give[CHOOSE i \in served : wt[i] = r]],
                dropped |-> {wt[i] : i \in DOMAIN wt \ (left \cup served)}]
  BY DEF Dispatched
<1>2. n \in Nat /\ DOMAIN wt = 1..n /\ Entries(wt) = 1..n /\ \A i \in 1..n : wt[i] \in Requests
  BY DEF QueueInv, Entries
<1>3. Idle(ws, bz) \subseteq (ws \ bz) \ worn /\ stale \subseteq (ws \ bz) \cap worn /\ ws \subseteq Workers
  BY DEF Idle, Stale, LeaseInv
<1>4. there \subseteq 1..n /\ served \subseteq there /\ left \subseteq 1..n
  BY <1>2
<1>5. left \cap served = {}
  <2> SUFFICES ASSUME NEW i \in served, NEW j \in there \ served, j <= i, ~closed
               PROVE  FALSE
    OBVIOUS
  <2> DEFINE to(k) == {h \in there : h <= k}
  <2>1. to(j) \subseteq to(i)
    BY <1>2, <1>4
  <2>2. IsFiniteSet(to(i))
    <3>1. IsFiniteSet(1..n) /\ to(i) \subseteq 1..n
      BY <1>2, <1>4, FS_Interval
    <3> QED
      BY <3>1, FS_Subset
  <2>3. IsFiniteSet(to(j)) /\ Cardinality(to(j)) <= Cardinality(to(i))
    BY <2>1, <2>2, FS_Subset
  <2>4. Cardinality(to(i)) \in Nat /\ Cardinality(to(j)) \in Nat
    BY <2>2, <2>3, FS_CardinalityType
  <2>5. Cardinality(Idle(ws, bz)) \in Nat
    BY <1>3, Countable
  <2>6. Cardinality(to(i)) <= Cardinality(Idle(ws, bz))
    OBVIOUS
  <2>7. Cardinality(to(j)) <= Cardinality(Idle(ws, bz))
    BY <2>3, <2>4, <2>5, <2>6
  <2> QED
    BY <2>7
<1>6. \A i \in left : \A j \in 1..n : i <= j => j \in left
  <2> SUFFICES ASSUME NEW i \in left, NEW j \in 1..n, i <= j
               PROVE  j \in left
    OBVIOUS
  <2>1. CASE closed
    BY <1>2, <2>1
  <2>2. CASE \E h \in there \ served : h <= i
    <3>1. PICK h \in there \ served : h <= i
      BY <2>2
    <3>2. h \in Int /\ i \in Int /\ j \in Int
      BY <1>2, <1>4
    <3>3. h <= j
      BY <3>1, <3>2
    <3> QED
      BY <1>2, <3>1, <3>3
  <2> QED
    BY <2>1, <2>2
<1> DEFINE k == n - Cardinality(left)
<1>7. k \in 0..n /\ \A i \in 1..n : i \in left <=> i > k
  <2>1. /\ Cardinality(left) \in 0..n
        /\ \A i \in 1..n : i \in left <=> i > n - Cardinality(left)
    BY <1>2, <1>4, <1>6, EndOfQueue
  <2>2. n - Cardinality(left) \in 0..n
    <3> HIDE DEF left, n
    <3>1. \A c \in 0..n : n - c \in 0..n
      BY <1>2
    <3> QED
      BY <2>1, <3>1
  <2> QED
    BY <2>1, <2>2
<1> HIDE DEF k, left, served, there, stale, n
<1>8. Drops(Requests, d.waiters, wt, {wt[i] : i \in 1..k})
  <2>1. d.waiters = SubSeq(wt, k + 1, n)
    BY <1>1 DEF k, n
  <2>2. wt \in Seq(Requests) /\ Distinct(wt)
    BY DEF QueueInv
  <2> QED
    BY <1>7, <2>1, <2>2, DropsFront DEF n
<1>9. \A r \in Requests : r \in DOMAIN d.lease \/ r \in d.dropped <=> r \in {wt[i] : i \in 1..k}
  <2>1. DOMAIN d.lease = {wt[i] : i \in served} /\ d.dropped = {wt[i] : i \in (1..n) \ (left \cup served)}
    BY <1>1, <1>2
  <2>2. \A i \in 1..n : i \in 1..k <=> i \notin left
    BY <1>2, <1>7
  <2>3. \A i \in 1..k : i \in 1..n
    BY <1>2, <1>7
  <2>4. \A i \in 1..k : i \in served \/ i \in (1..n) \ (left \cup served)
    BY <2>2, <2>3
  <2>5. \A i \in served : i \in 1..k
    BY <1>4, <1>5, <2>2
  <2> QED
    BY <2>1, <2>2, <2>4, <2>5
<1>10. \A r \in Requests : Settled(rq, d)[r] = IF r \in DOMAIN d.lease THEN Holding(d.lease[r])
                                               ELSE IF r \in d.dropped THEN Done ELSE rq[r]
  BY DEF Settled
<1>11. /\ \A r \in DOMAIN d.lease : d.lease[r] \in Idle(ws, bz) /\ d.lease[r] \in d.busy
       /\ \A r, q \in DOMAIN d.lease : r # q => d.lease[r] # d.lease[q]
  <2> DEFINE at(r) == CHOOSE i \in served : wt[i] = r
  <2>1. DOMAIN d.lease = {wt[i] : i \in served} /\ \A r \in DOMAIN d.lease : d.lease[r] = give[at(r)]
    BY <1>1
  <2>2. \A r \in DOMAIN d.lease : at(r) \in served /\ wt[at(r)] = r
    BY <2>1
  <2>3. d.busy = bz \cup {give[i] : i \in served}
    BY <1>1
  <2> HIDE DEF at
  <2>4. \A i \in served : give[i] \in Idle(ws, bz) /\ give[i] \in d.busy
    BY <2>3
  <2>5. \A i, j \in served : i # j => give[i] # give[j]
    BY <1>1
  <2>6. \A r \in DOMAIN d.lease : d.lease[r] \in Idle(ws, bz) /\ d.lease[r] \in d.busy
    BY <2>1, <2>2, <2>4
  <2>7. ASSUME NEW r \in DOMAIN d.lease, NEW q \in DOMAIN d.lease, r # q
        PROVE  d.lease[r] # d.lease[q]
    <3>1. at(r) # at(q)
      BY <2>2, <2>7
    <3> QED
      BY <2>1, <2>2, <2>5, <3>1
  <2> QED
    BY <2>6, <2>7
<1>12. d.workers = ws \ stale /\ d.stale = stale /\ d.busy \subseteq bz \cup Idle(ws, bz) /\ bz \subseteq d.busy
  BY <1>1
<1>13. QueueInv(d.waiters, Settled(rq, d))
  <2>1. \A r \in Requests : Settled(rq, d)[r].phase = "queued" <=>
                              rq[r].phase = "queued" /\ r \notin {wt[i] : i \in 1..k}
    <3> SUFFICES ASSUME NEW r \in Requests
                 PROVE  Settled(rq, d)[r].phase = "queued" <=>
                          rq[r].phase = "queued" /\ r \notin {wt[i] : i \in 1..k}
      OBVIOUS
    <3>1. CASE r \in DOMAIN d.lease
      BY <1>3, <1>9, <1>10, <1>11, <3>1, CallProps
    <3>2. CASE r \notin DOMAIN d.lease /\ r \in d.dropped
      BY <1>9, <1>10, <3>2, CallProps
    <3>3. CASE r \notin DOMAIN d.lease /\ r \notin d.dropped
      BY <1>9, <1>10, <3>3
    <3> QED
      BY <3>1, <3>2, <3>3
  <2>2. Len(d.waiters) <= queueMax
    <3>1. Len(d.waiters) <= Len(wt) /\ Len(wt) <= queueMax /\ Len(d.waiters) \in Nat /\ Len(wt) \in Nat
      BY <1>8 DEF Drops, QueueInv
    <3> QED
      BY <3>1, ToolPoolConstants
  <2>3. \A i \in Entries(d.waiters) : Settled(rq, d)[d.waiters[i]].phase = "queued"
    <3> SUFFICES ASSUME NEW i \in Entries(d.waiters)
                 PROVE  Settled(rq, d)[d.waiters[i]].phase = "queued"
      OBVIOUS
    <3>1. PICK j \in Entries(wt) : d.waiters[i] = wt[j] /\ wt[j] \notin {wt[h] : h \in 1..k}
      BY <1>8 DEF Drops
    <3>2. wt[j] \in Requests /\ rq[wt[j]].phase = "queued"
      BY <1>2, <3>1 DEF QueueInv
    <3> QED
      BY <2>1, <3>1, <3>2
  <2>4. ASSUME NEW r \in Requests, Settled(rq, d)[r].phase = "queued"
        PROVE  \E i \in Entries(d.waiters) : d.waiters[i] = r
    <3>1. rq[r].phase = "queued" /\ r \notin {wt[i] : i \in 1..k}
      BY <2>1, <2>4
    <3>2. PICK j \in Entries(wt) : wt[j] = r
      BY <3>1 DEF QueueInv
    <3> QED
      BY <1>8, <3>1, <3>2 DEF Drops
  <2> QED
    BY <1>8, <2>2, <2>3, <2>4 DEF QueueInv, Drops
<1>14. \A r \in Requests : /\ Settled(rq, d)[r] \in Call
                           /\ Settled(rq, d)[r].phase = "holding" =>
                                \/ r \in DOMAIN d.lease /\ Settled(rq, d)[r].worker = d.lease[r]
                                \/ r \notin DOMAIN d.lease /\ Settled(rq, d)[r] = rq[r]
  <2> SUFFICES ASSUME NEW r \in Requests
               PROVE  /\ Settled(rq, d)[r] \in Call
                      /\ Settled(rq, d)[r].phase = "holding" =>
                           \/ r \in DOMAIN d.lease /\ Settled(rq, d)[r].worker = d.lease[r]
                           \/ r \notin DOMAIN d.lease /\ Settled(rq, d)[r] = rq[r]
    OBVIOUS
  <2>1. CASE r \in DOMAIN d.lease
    BY <1>3, <1>10, <1>11, <2>1, CallProps
  <2>2. CASE r \notin DOMAIN d.lease /\ r \in d.dropped
    BY <1>10, <2>2, CallProps
  <2>3. CASE r \notin DOMAIN d.lease /\ r \notin d.dropped
    BY <1>10, <2>3 DEF LeaseInv
  <2> QED
    BY <2>1, <2>2, <2>3
<1>15. LeaseInv(d.workers, d.busy, worn \ d.stale, st, lv \cup d.stale, Settled(rq, d))
  <2> DEFINE rt == Settled(rq, d)
  <2>1. rt \in [Requests -> Call]
    BY <1>14 DEF Settled
  <2>2. \A r \in DOMAIN d.lease : /\ d.lease[r] \in ws \ (bz \cup worn) /\ d.lease[r] \notin st \cup lv \cup stale
                                  /\ d.lease[r] \in d.busy
    BY <1>3, <1>11 DEF LeaseInv
  <2>3. \A r \in Requests : rq[r].phase = "holding" => rq[r].worker \notin st \cup lv \cup stale /\
                                                      (rq[r].worker \in ws => rq[r].worker \in bz)
    BY <1>3 DEF LeaseInv
  <2> HIDE DEF rt
  <2>4. \A r \in Requests : rt[r].phase = "holding" =>
          rt[r].worker \notin st \cup lv \cup stale /\ (rt[r].worker \in ws => rt[r].worker \in d.busy)
    BY <1>12, <1>14, <2>2, <2>3 DEF rt
  <2>5. ASSUME NEW r \in Requests, NEW q \in Requests, r # q, rt[r].phase = "holding", rt[q].phase = "holding"
        PROVE  rt[r].worker # rt[q].worker
    <3>1. CASE r \in DOMAIN d.lease /\ q \in DOMAIN d.lease
      BY <1>11, <1>14, <2>5, <3>1 DEF rt
    <3>2. CASE r \in DOMAIN d.lease /\ q \notin DOMAIN d.lease
      BY <1>14, <2>2, <2>3, <2>5, <3>2 DEF rt
    <3>3. CASE r \notin DOMAIN d.lease /\ q \in DOMAIN d.lease
      BY <1>14, <2>2, <2>3, <2>5, <3>3 DEF rt
    <3>4. CASE r \notin DOMAIN d.lease /\ q \notin DOMAIN d.lease
      BY <1>14, <2>5, <3>4 DEF rt, LeaseInv
    <3> QED
      BY <3>1, <3>2, <3>3, <3>4
  <2>6. /\ d.workers \subseteq Workers /\ d.busy \subseteq d.workers /\ worn \ d.stale \subseteq d.workers
        /\ st \subseteq Workers /\ st \cap d.workers \subseteq d.busy /\ d.workers \cap (lv \cup d.stale) = {}
    BY <1>3, <1>12 DEF LeaseInv
  <2>7. LeaseInv(d.workers, d.busy, worn \ d.stale, st, lv \cup d.stale, rt)
    BY <1>12, <2>1, <2>4, <2>5, <2>6 DEF LeaseInv
  <2> QED
    BY <2>7 DEF rt
<1>16. \A r \in Requests : Settled(rq, d)[r].phase = "holding" =>
         Settled(rq, d)[r].worker \in ws \/ Settled(rq, d)[r] = rq[r]
  BY <1>3, <1>11, <1>14
<1> QED
  BY <1>3, <1>12, <1>13, <1>15, <1>16 DEF FromPool

-----------------------------------------------------------------------------
\* A run of #dispatchWaiters on the pool after its caller's updates.
LEMMA DispatchStep ==
  ASSUME PoolInv, NEW bz, NEW st, NEW rq, LeaseInv(workers, bz, worn, st, closing \cup (UNION retiring), rq),
         QueueInv(waiters, rq), Dispatch(bz, rq)
  PROVE  /\ LeaseInv(workers', busy', worn', st, closing' \cup (UNION retiring), req')
         /\ QueueInv(waiters', req') /\ Ceil(workers', closed) /\ closing' \subseteq Workers
<1>1. PICK d \in Dispatched(workers, bz, waiters) :
        /\ workers' = d.workers /\ closing' = closing \cup d.stale /\ worn' = worn \ d.stale
        /\ busy' = d.busy /\ waiters' = d.waiters /\ req' = Settled(rq, d)
  BY DEF Dispatch, Discard
<1> DEFINE lv == closing \cup (UNION retiring)
<1>2. /\ LeaseInv(d.workers, d.busy, worn \ d.stale, st, lv \cup d.stale, Settled(rq, d))
      /\ QueueInv(d.waiters, Settled(rq, d)) /\ d.workers \subseteq workers /\ d.stale \subseteq workers
  <2>1. closed \in BOOLEAN
    BY DEF PoolInv, Plain
  <2> HIDE DEF lv
  <2>2. LeaseInv(workers, bz, worn, st, lv, rq)
    BY DEF lv
  <2> QED
    BY <2>1, <2>2, DispatchProps
<1>3. lv \cup d.stale = closing' \cup (UNION retiring)
  BY <1>1
<1>4. workers \subseteq Workers /\ closing \subseteq Workers /\ closed \in BOOLEAN /\ Ceil(workers, closed)
  BY DEF PoolInv, Plain, LeaseInv
<1>5. Ceil(d.workers, closed)
  BY <1>2, <1>4, FewerCeil
<1>6. LeaseInv(workers', busy', worn', st, closing' \cup (UNION retiring), req')
  BY <1>1, <1>2, <1>3
<1> QED
  BY <1>1, <1>2, <1>4, <1>5, <1>6

\* Calls that neither wait nor hold a connection get on.
LEMMA CallsMove ==
  ASSUME NEW ws, NEW bz, NEW wn, NEW st, NEW lv, NEW wt, NEW rq, NEW rt \in [Requests -> Call],
         LeaseInv(ws, bz, wn, st, lv, rq), QueueInv(wt, rq),
         \A r \in Requests : rt[r].phase = "holding" => rt[r] = rq[r],
         \A r \in Requests : rt[r].phase = "queued" <=> rq[r].phase = "queued"
  PROVE  LeaseInv(ws, bz, wn, st, lv, rt) /\ QueueInv(wt, rt)
<1>1. LeaseInv(ws, bz, wn, st, lv, rt)
  BY DEF LeaseInv
<1>2. \A i \in Entries(wt) : wt[i] \in Requests
  BY DEF QueueInv, Entries
<1> QED
  BY <1>1, <1>2 DEF QueueInv

\* Waiters leave the queue.
LEMMA WaitersLeave ==
  ASSUME NEW wt, NEW rq, NEW rt, NEW t, NEW out, QueueInv(wt, rq), Drops(Requests, t, wt, out),
         \A r \in Requests : rt[r].phase = "queued" <=> rq[r].phase = "queued" /\ r \notin out
  PROVE  QueueInv(t, rt)
<1>1. \A i \in Entries(wt) : wt[i] \in Requests
  BY DEF QueueInv, Entries
<1>2. Len(t) <= queueMax
  <2>1. Len(t) <= Len(wt) /\ Len(wt) <= queueMax /\ Len(t) \in Nat /\ Len(wt) \in Nat
    BY DEF Drops, QueueInv
  <2> QED
    BY <2>1, ToolPoolConstants
<1>3. \A i \in Entries(t) : rt[t[i]].phase = "queued"
  BY <1>1 DEF QueueInv, Drops
<1>4. \A r \in Requests : rt[r].phase = "queued" => \E i \in Entries(t) : t[i] = r
  BY DEF QueueInv, Drops
<1> QED
  BY <1>2, <1>3, <1>4 DEF QueueInv, Drops

\* A waiter's place: the calls that wait are those that are queued.
LEMMA WaitingQueued ==
  ASSUME PoolInv
  PROVE  \A r \in Requests : Waiting(r) <=> req[r].phase = "queued"
<1>1. DOMAIN waiters = Entries(waiters)
  BY DEF PoolInv, QueueInv, Entries
<1> QED
  BY <1>1 DEF PoolInv, QueueInv, Waiting

\* The queue without one waiter.
LEMMA RemovedDrops ==
  ASSUME PoolInv, NEW r \in Requests, req[r].phase = "queued"
  PROVE  Drops(Requests, Removed(r), waiters, {r})
<1>1. waiters \in Seq(Requests) /\ Distinct(waiters) /\ DOMAIN waiters = Entries(waiters) /\ Waiting(r)
  BY WaitingQueued DEF PoolInv, QueueInv, Entries
<1> DEFINE i == CHOOSE j \in DOMAIN waiters : waiters[j] = r
<1>2. i \in Entries(waiters) /\ waiters[i] = r
  BY <1>1 DEF Waiting
<1>3. Removed(r) = RemoveAt(waiters, i)
  BY <1>1 DEF Removed
<1> HIDE DEF i
<1> QED
  BY <1>1, <1>2, <1>3, DropsOne

\* A call joins the queue.
LEMMA JoinsQueue ==
  ASSUME PoolInv, NEW r \in Requests, req[r].phase # "queued", Len(waiters) < queueMax
  PROVE  QueueInv(Append(waiters, r), [req EXCEPT ![r] = In("queued")])
<1> DEFINE wt == Append(waiters, r)
           rt == [req EXCEPT ![r] = In("queued")]
           n == Len(waiters)
<1>1. /\ waiters \in Seq(Requests) /\ n \in Nat /\ Distinct(waiters) /\ Entries(waiters) = 1..n
      /\ req \in [Requests -> Call]
  BY DEF PoolInv, QueueInv, LeaseInv, Entries
<1>2. /\ wt \in Seq(Requests) /\ Len(wt) = n + 1 /\ wt[n + 1] = r
      /\ \A i \in 1..n : wt[i] = waiters[i]
  BY <1>1, AppendProperties
<1>3. Entries(wt) = 1..(n + 1) /\ \A i \in 1..(n + 1) : i = n + 1 \/ i \in 1..n
  BY <1>1, <1>2 DEF Entries
<1>4. rt[r].phase = "queued" /\ \A q \in Requests : q # r => rt[q] = req[q]
  BY <1>1, CallProps
<1>5. \A i \in 1..n : waiters[i] \in Requests /\ waiters[i] # r /\ req[waiters[i]].phase = "queued"
  BY <1>1 DEF PoolInv, QueueInv
<1>6. n + 1 <= queueMax
  BY <1>1, ToolPoolConstants
<1> HIDE DEF wt, rt
<1>7. Distinct(wt)
  BY <1>1, <1>2, <1>3, <1>5 DEF Distinct
<1>8. \A i \in Entries(wt) : rt[wt[i]].phase = "queued"
  BY <1>2, <1>3, <1>4, <1>5
<1>9. ASSUME NEW q \in Requests, rt[q].phase = "queued"
      PROVE  \E i \in Entries(wt) : wt[i] = q
  <2>1. CASE q = r
    <3>1. n + 1 \in Entries(wt)
      BY <1>1, <1>3
    <3> QED
      BY <1>2, <2>1, <3>1
  <2>2. CASE q # r
    <3>1. PICK i \in 1..n : waiters[i] = q
      BY <1>1, <1>4, <1>9, <2>2 DEF PoolInv, QueueInv
    <3>2. i \in Entries(wt)
      BY <1>1, <1>3
    <3> QED
      BY <1>2, <3>1, <3>2
  <2> QED
    BY <2>1, <2>2
<1>10. QueueInv(wt, rt)
  BY <1>2, <1>6, <1>7, <1>8, <1>9 DEF QueueInv
<1> QED
  BY <1>10 DEF wt, rt

\* A single call gets on to a phase in which it neither waits nor holds.
LEMMA OneMoves ==
  ASSUME NEW rq \in [Requests -> Call], NEW r \in Requests, NEW c \in Call, c.phase \notin {"holding", "queued"}
  PROVE  LET rt == [rq EXCEPT ![r] = c] IN
         /\ rt \in [Requests -> Call]
         /\ \A q \in Requests : rt[q].phase = "holding" => rt[q] = rq[q]
         /\ \A q \in Requests : rt[q].phase = "queued" <=> rq[q].phase = "queued" /\ q # r
<1> DEFINE rt == [rq EXCEPT ![r] = c]
<1>1. rt[r] = c /\ \A q \in Requests : q # r => rt[q] = rq[q]
  OBVIOUS
<1> QED
  BY <1>1

\* The sizes #ensureSize is called with.
LEMMA DemandInt ==
  ASSUME NEW ws \in SUBSET Workers, NEW n \in Nat
  PROVE  Demand(ws, n) \in Int /\ warmSize \in Int
<1>1. Cardinality(ws) \in Nat /\ warmSize \in Int /\ AtLeast(1, n) \in Int
  BY Countable, ToolPoolConstants DEF AtLeast
<1>2. Cardinality(ws) + AtLeast(1, n) \in Int
  BY <1>1
<1> QED
  BY <1>1, <1>2 DEF Demand, AtLeast

-----------------------------------------------------------------------------
(***************************************************************************)
(* Every action preserves the invariant.                                   *)
(***************************************************************************)
LEMMA PoolInit == Init => PoolInv
<1> SUFFICES ASSUME Init PROVE PoolInv
  OBVIOUS
<1>1. LeaseInv(workers, busy, worn, starting, closing \cup (UNION retiring), req)
  BY CallProps DEF Init, LeaseInv
<1>2. FillInv(starting, dying, fills) /\ Plain
  <2>1. FillInv(starting, dying, fills)
    BY DEF Init, FillInv
  <2>2. failures \in 0..MaxStartFailures /\ trimArmed \in BOOLEAN /\ closed \in BOOLEAN
    <3>1. failures = 0 /\ trimArmed = FALSE /\ closed = FALSE
      BY DEF Init
    <3>2. 0 \in 0..MaxStartFailures
      BY ToolPoolConstants
    <3> QED
      BY <3>1, <3>2
  <2>3. closing \subseteq Workers /\ retiring \subseteq SUBSET Workers /\ gone \subseteq Requests
    BY DEF Init
  <2> QED
    BY <2>1, <2>2, <2>3 DEF Plain
<1>3. QueueInv(waiters, req)
  <2>1. Len(waiters) = 0 /\ waiters \in Seq(Requests)
    BY DEF Init
  <2> QED
    BY <2>1, CallProps, ToolPoolConstants DEF Init, QueueInv, Entries, Distinct
<1>4. Ceil(workers, closed)
  BY FS_EmptySet, ToolPoolConstants DEF Init, Ceil
<1> QED
  BY <1>1, <1>2, <1>3, <1>4 DEF PoolInv

\* The pool is warmed up.
LEMMA PrimeStep ==
  ASSUME PoolInv, Prime
  PROVE  PoolInv'
<1>1. /\ Spawn(workers, busy, fills, warmSize, "prime", "nobody")
      /\ UNCHANGED <<worn, dying, closing, retiring, waiters, req, gone, trimArmed, closed, failures>>
  BY DEF Prime
<1> DEFINE lv == closing \cup (UNION retiring)
<1>2. /\ LeaseInv(workers, busy, worn, starting, lv, req) /\ FillInv(starting, dying, fills)
      /\ Ceil(workers, closed) /\ lv \subseteq closing \cup (UNION retiring) \cup workers /\ warmSize \in Int
  BY ToolPoolConstants DEF PoolInv
<1> HIDE DEF lv
<1>3. LeaseInv(workers', busy', worn, starting', lv, req) /\ FillInv(starting', dying, fills') /\ Ceil(workers', closed)
  BY <1>1, <1>2, SpawnStep
<1> QED
  BY <1>1, <1>3 DEF PoolInv, Plain, lv

\* A call asks for a connection.
LEMMA AcquireStep ==
  ASSUME PoolInv, NEW r \in Requests, Acquire(r)
  PROVE  PoolInv'
<1> DEFINE lv == closing \cup (UNION retiring)
           to(p) == [req EXCEPT ![r] = In(p)]
<1>1. req[r] = Out /\ UNCHANGED <<dying, retiring, gone, trimArmed, closed, failures>>
  BY DEF Acquire
<1>2. \A p \in {"priming", "primed"} : /\ LeaseInv(workers, busy, worn, starting, lv, to(p))
                                       /\ QueueInv(waiters, to(p))
                                       /\ \A q \in Requests : to(p)[q].phase = "holding" => to(p)[q] = req[q]
  <2> SUFFICES ASSUME NEW p \in {"priming", "primed"}
               PROVE  /\ LeaseInv(workers, busy, worn, starting, lv, to(p)) /\ QueueInv(waiters, to(p))
                      /\ \A q \in Requests : to(p)[q].phase = "holding" => to(p)[q] = req[q]
    OBVIOUS
  <2>1. req \in [Requests -> Call] /\ In(p) \in Call /\ In(p).phase \notin {"holding", "queued"}
    BY CallProps DEF PoolInv, LeaseInv
  <2>2. /\ to(p) \in [Requests -> Call]
        /\ \A q \in Requests : to(p)[q].phase = "holding" => to(p)[q] = req[q]
        /\ \A q \in Requests : to(p)[q].phase = "queued" <=> req[q].phase = "queued"
    BY <1>1, <2>1, OneMoves, CallProps
  <2>3. LeaseInv(workers, busy, worn, starting, lv, req) /\ QueueInv(waiters, req)
    BY DEF PoolInv
  <2> HIDE DEF lv, to
  <2> QED
    BY <2>2, <2>3, CallsMove
<1>3. CASE req' = to("priming") /\ UNCHANGED <<workers, busy, worn, closing, waiters, starting, fills>>
  BY <1>1, <1>2, <1>3 DEF PoolInv, Plain
<1>4. CASE /\ Spawn(workers, busy, fills, warmSize, "prime", "nobody")
           /\ req' = to("priming") /\ UNCHANGED <<worn, closing, waiters>>
  <2>1. /\ FillInv(starting, dying, fills) /\ Ceil(workers, closed) /\ warmSize \in Int
        /\ lv \subseteq closing \cup (UNION retiring) \cup workers
    BY ToolPoolConstants DEF PoolInv
  <2> HIDE DEF lv, to
  <2>2. /\ LeaseInv(workers', busy', worn, starting', lv, to("priming")) /\ FillInv(starting', dying, fills')
        /\ Ceil(workers', closed)
    BY <1>2, <1>4, <2>1, SpawnStep
  <2> QED
    BY <1>1, <1>2, <1>4, <2>2 DEF PoolInv, Plain, lv
<1>5. CASE Dispatch(busy, to("primed")) /\ UNCHANGED <<starting, fills>>
  <2>1. /\ LeaseInv(workers', busy', worn', starting, closing' \cup (UNION retiring), req')
        /\ QueueInv(waiters', req') /\ Ceil(workers', closed) /\ closing' \subseteq Workers
    <3> HIDE DEF to
    <3> QED
      BY <1>2, <1>5, DispatchStep
  <2> QED
    BY <1>1, <1>5, <2>1 DEF PoolInv, Plain
<1> QED
  BY <1>3, <1>4, <1>5 DEF Acquire

\* A call takes an idle connection.
LEMMA TakesIdleStep ==
  ASSUME PoolInv, NEW r \in Requests, req[r].phase \notin {"queued", "holding"}, TakesIdle(r),
         UNCHANGED <<dying, retiring, gone, trimArmed, closed, failures>>
  PROVE  PoolInv'
<1>1. PICK w \in Idle(workers, busy) : req' = [req EXCEPT ![r] = Holding(w)] /\ busy' = busy \cup {w}
  BY DEF TakesIdle
<1> DEFINE stale == Stale(workers, busy)
           lv == closing \cup (UNION retiring)
<1>2. /\ workers' = workers \ stale /\ closing' = closing \cup stale /\ worn' = worn \ stale
      /\ UNCHANGED <<waiters, starting, fills>>
  BY DEF TakesIdle, Discard
<1>3. stale \subseteq (workers \ busy) \cap worn /\ w \in workers \ (busy \cup worn)
  BY DEF Idle, Stale
<1>4. LeaseInv(workers, busy, worn, starting, lv, req)
  BY DEF PoolInv
<1>5. w \in Workers /\ Holding(w) \in Call /\ Holding(w).phase = "holding" /\ Holding(w).worker = w
  BY <1>3, <1>4, CallProps DEF LeaseInv
<1>6. req'[r] = Holding(w) /\ req' \in [Requests -> Call] /\ \A q \in Requests : q # r => req'[q] = req[q]
  BY <1>1, <1>4, <1>5 DEF LeaseInv
<1>7. w \notin starting \cup lv \cup stale /\ stale \cap starting = {}
  BY <1>3, <1>4 DEF LeaseInv
<1>8. \A q \in Requests : req[q].phase = "holding" => req[q].worker # w /\ req[q].worker \notin stale
  BY <1>3, <1>4 DEF LeaseInv
<1> HIDE DEF lv, stale
<1>9. LeaseInv(workers', busy', worn', starting, lv \cup stale, req')
  <2>1. \A q \in Requests : req'[q].phase = "holding" =>
          /\ req'[q].worker \notin starting \cup (lv \cup stale)
          /\ req'[q].worker \in workers' => req'[q].worker \in busy'
    BY <1>1, <1>2, <1>3, <1>4, <1>5, <1>6, <1>7, <1>8 DEF LeaseInv
  <2>2. \A p, q \in Requests : (p # q /\ req'[p].phase = "holding" /\ req'[q].phase = "holding") =>
                                 req'[p].worker # req'[q].worker
    BY <1>4, <1>5, <1>6, <1>8 DEF LeaseInv
  <2>3. /\ workers' \subseteq Workers /\ busy' \subseteq workers' /\ worn' \subseteq workers'
        /\ starting \subseteq Workers /\ starting \cap workers' \subseteq busy' /\ workers' \cap (lv \cup stale) = {}
    BY <1>1, <1>2, <1>3, <1>4 DEF LeaseInv
  <2> QED
    BY <1>6, <2>1, <2>2, <2>3 DEF LeaseInv
<1>10. QueueInv(waiters', req')
  <2>1. \A q \in Requests : req'[q].phase = "queued" <=> req[q].phase = "queued"
    BY <1>5, <1>6
  <2>2. \A i \in Entries(waiters) : waiters[i] \in Requests
    BY DEF PoolInv, QueueInv, Entries
  <2> QED
    BY <1>2, <2>1, <2>2 DEF PoolInv, QueueInv
<1>11. Ceil(workers', closed) /\ closing' \subseteq Workers
  BY <1>2, <1>3, <1>4, FewerCeil DEF PoolInv, Plain, LeaseInv
<1>12. closing' \cup (UNION retiring') = lv \cup stale
  BY <1>2 DEF lv
<1> QED
  BY <1>2, <1>9, <1>10, <1>11, <1>12 DEF PoolInv, Plain

\* The queue is full.
LEMMA RefusedStep ==
  ASSUME PoolInv, NEW r \in Requests, req[r].phase = "primed", Refused(r),
         UNCHANGED <<dying, retiring, gone, trimArmed, closed, failures>>
  PROVE  PoolInv'
<1> DEFINE stale == IF waiters = <<>> THEN Stale(workers, busy) ELSE {}
           lv == closing \cup (UNION retiring)
<1>1. /\ workers' = workers \ stale /\ closing' = closing \cup stale /\ worn' = worn \ stale
      /\ req' = [req EXCEPT ![r] = Done] /\ UNCHANGED <<waiters, busy, starting, fills>>
  BY DEF Refused, Discard
<1>2. stale \subseteq (workers \ busy) \cap worn
  BY DEF Stale
<1>3. LeaseInv(workers, busy, worn, starting, lv, req) /\ QueueInv(waiters, req)
  BY DEF PoolInv
<1>4. /\ req' \in [Requests -> Call]
      /\ \A q \in Requests : req'[q].phase = "holding" => req'[q] = req[q]
      /\ \A q \in Requests : req'[q].phase = "queued" <=> req[q].phase = "queued"
  <2>1. req \in [Requests -> Call]
    BY <1>3 DEF LeaseInv
  <2> QED
    BY <1>1, <2>1, OneMoves, CallProps
<1> HIDE DEF stale, lv
<1>5. LeaseInv(workers, busy, worn, starting, lv, req') /\ QueueInv(waiters, req')
  BY <1>3, <1>4, CallsMove
<1>6. LeaseInv(workers', busy, worn', starting, lv \cup stale, req')
  BY <1>1, <1>2, <1>5 DEF LeaseInv
<1>7. Ceil(workers', closed) /\ closing' \subseteq Workers
  BY <1>1, <1>2, <1>3, FewerCeil DEF PoolInv, Plain, LeaseInv
<1>8. closing' \cup (UNION retiring') = lv \cup stale
  BY <1>1 DEF lv
<1> QED
  BY <1>1, <1>5, <1>6, <1>7, <1>8 DEF PoolInv, Plain

\* A call queues, is served, and asks for more connections if it is not.
LEMMA QueuedStep ==
  ASSUME PoolInv, NEW r \in Requests, req[r].phase = "primed", Queued(r),
         UNCHANGED <<dying, retiring, gone, trimArmed, closed, failures>>
  PROVE  PoolInv'
<1> DEFINE wt == Append(waiters, r)
           rq == [req EXCEPT ![r] = In("queued")]
           lv == closing \cup (UNION retiring)
<1>1. QueueInv(wt, rq)
  BY JoinsQueue DEF Queued
<1>2. PICK d \in Dispatched(workers, busy, wt) :
        /\ closing' = closing \cup d.stale /\ worn' = worn \ d.stale /\ waiters' = d.waiters
        /\ req' = Settled(rq, d)
        /\ \/ Spawn(d.workers, d.busy, fills, Demand(d.workers, Len(d.waiters)), "scale", r)
           \/ workers' = d.workers /\ busy' = d.busy /\ UNCHANGED <<starting, fills>>
  BY DEF Queued, Discard
<1>3. /\ LeaseInv(workers, busy, worn, starting, lv, req) /\ closed \in BOOLEAN /\ Ceil(workers, closed)
      /\ workers \subseteq Workers
  BY DEF PoolInv, Plain, LeaseInv
<1>4. /\ rq \in [Requests -> Call] /\ rq[r].phase = "queued" /\ \A q \in Requests : q # r => rq[q] = req[q]
  BY <1>3, CallProps DEF LeaseInv
<1> HIDE DEF wt, rq, lv
<1>5. LeaseInv(workers, busy, worn, starting, lv, rq)
  BY <1>3, <1>4 DEF LeaseInv
<1>6. /\ LeaseInv(d.workers, d.busy, worn', starting, lv \cup d.stale, req')
      /\ QueueInv(waiters', req') /\ d.workers \subseteq workers /\ d.stale \subseteq workers
      /\ \A q \in Requests : req'[q].phase = "holding" => req'[q].worker \in workers \/ req'[q] = rq[q]
  <2>1. closed \in BOOLEAN
    BY <1>3
  <2>2. /\ LeaseInv(d.workers, d.busy, worn \ d.stale, starting, lv \cup d.stale, Settled(rq, d))
        /\ QueueInv(d.waiters, Settled(rq, d)) /\ d.workers \subseteq workers /\ d.stale \subseteq workers
    BY <1>1, <1>5, <2>1, DispatchProps
  <2>3. FromPool(Settled(rq, d), rq, workers)
    BY <1>1, <1>5, <2>1, DispatchProps
  <2> QED
    BY <1>2, <2>2, <2>3 DEF FromPool
<1>7. Ceil(d.workers, closed) /\ closing' \subseteq Workers
  BY <1>2, <1>3, <1>6, FewerCeil DEF PoolInv, Plain
<1>8. closing' \cup (UNION retiring') = lv \cup d.stale
  BY <1>2 DEF lv
<1>9. CASE Spawn(d.workers, d.busy, fills, Demand(d.workers, Len(d.waiters)), "scale", r)
  <2>1. \A q \in Requests : req'[q].phase = "holding" =>
          req'[q].worker \in workers \/ (req[q].phase = "holding" /\ req'[q].worker = req[q].worker)
    BY <1>4, <1>6
  <2>2. Demand(d.workers, Len(d.waiters)) \in Int
    <3>1. Len(d.waiters) \in Nat
      BY <1>2, <1>6 DEF QueueInv
    <3> QED
      BY <1>3, <1>6, <3>1, DemandInt
  <2>3. lv \cup d.stale \subseteq closing \cup (UNION retiring) \cup workers
    BY <1>6 DEF lv
  <2>4. FillInv(starting, dying, fills)
    BY DEF PoolInv
  <2>5. /\ LeaseInv(workers', busy', worn', starting', lv \cup d.stale, req')
        /\ FillInv(starting', dying, fills') /\ Ceil(workers', closed)
    BY <1>6, <1>7, <1>9, <2>1, <2>2, <2>3, <2>4, SpawnStep
  <2> QED
    BY <1>6, <1>7, <1>8, <2>5 DEF PoolInv, Plain
<1>10. CASE workers' = d.workers /\ busy' = d.busy /\ UNCHANGED <<starting, fills>>
  BY <1>6, <1>7, <1>8, <1>10 DEF PoolInv, Plain
<1> QED
  BY <1>2, <1>9, <1>10

\* acquire() goes on after prime().
LEMMA PrimedStep ==
  ASSUME PoolInv, NEW r \in Requests, Primed(r)
  PROVE  PoolInv'
BY TakesIdleStep, RefusedStep, QueuedStep DEF Primed

\* tryAcquire().
LEMMA TryAcquireStep ==
  ASSUME PoolInv, NEW r \in Requests, TryAcquire(r)
  PROVE  PoolInv'
<1> DEFINE lv == closing \cup (UNION retiring)
           stale == Stale(workers, busy)
           ws == workers \ stale
<1>1. req[r] = Out /\ UNCHANGED <<dying, retiring, gone, trimArmed, closed, failures>>
  BY DEF TryAcquire
<1>2. /\ LeaseInv(workers, busy, worn, starting, lv, req) /\ QueueInv(waiters, req) /\ FillInv(starting, dying, fills)
      /\ Ceil(workers, closed) /\ workers \subseteq Workers /\ closed \in BOOLEAN /\ closing \subseteq Workers
      /\ warmSize \in Int
  BY ToolPoolConstants DEF PoolInv, Plain, LeaseInv
<1>3. stale \subseteq (workers \ busy) \cap worn
  BY DEF Stale
<1> HIDE DEF lv, stale
<1>4. CASE TakesIdle(r)
  BY <1>1, <1>4, CallProps, TakesIdleStep
<1>5. CASE /\ Spawn(ws, busy, fills, Demand(ws, 0), "scale", "nobody")
           /\ closing' = closing \cup stale /\ worn' = worn \ stale /\ UNCHANGED <<waiters, req>>
  <2>1. ws \subseteq workers /\ LeaseInv(ws, busy, worn \ stale, starting, lv \cup stale, req)
    BY <1>2, <1>3 DEF LeaseInv
  <2>2. Ceil(ws, closed) /\ Demand(ws, 0) \in Int
    BY <1>2, <2>1, FewerCeil, DemandInt
  <2>3. lv \cup stale \subseteq closing \cup (UNION retiring) \cup workers
    BY <1>3 DEF lv
  <2> HIDE DEF ws
  <2>4. /\ LeaseInv(workers', busy', worn \ stale, starting', lv \cup stale, req)
        /\ FillInv(starting', dying, fills') /\ Ceil(workers', closed)
    BY <1>2, <1>5, <2>1, <2>2, <2>3, SpawnStep
  <2>5. closing' \cup (UNION retiring') = lv \cup stale /\ closing' \subseteq Workers
    BY <1>1, <1>2, <1>3, <1>5 DEF lv
  <2> QED
    BY <1>1, <1>2, <1>5, <2>4, <2>5 DEF PoolInv, Plain
<1>6. CASE /\ Spawn(workers, busy, fills, warmSize, "prime", "nobody")
           /\ UNCHANGED <<worn, closing, waiters, req>>
  <2>1. lv \subseteq closing \cup (UNION retiring) \cup workers
    BY DEF lv
  <2>2. /\ LeaseInv(workers', busy', worn, starting', lv, req)
        /\ FillInv(starting', dying, fills') /\ Ceil(workers', closed)
    BY <1>2, <1>6, <2>1, SpawnStep
  <2> QED
    BY <1>1, <1>2, <1>6, <2>2 DEF PoolInv, Plain, lv
<1>7. CASE Dispatch(busy, req) /\ UNCHANGED <<starting, fills>>
  <2>1. /\ LeaseInv(workers', busy', worn', starting, closing' \cup (UNION retiring), req')
        /\ QueueInv(waiters', req') /\ Ceil(workers', closed) /\ closing' \subseteq Workers
    BY <1>2, <1>7, DispatchStep DEF lv
  <2> QED
    BY <1>1, <1>7, <2>1 DEF PoolInv, Plain
<1> QED
  BY <1>4, <1>5, <1>6, <1>7 DEF TryAcquire, Discard, stale

\* A connection is ready.
LEMMA WorkerReadyStep ==
  ASSUME PoolInv, NEW w \in Workers, WorkerReady(w)
  PROVE  PoolInv'
<1> DEFINE lv == closing \cup (UNION retiring)
           rq == IF Completes(w, {"prime"}) THEN AfterPriming(In("primed")) ELSE req
           st == starting \ {w}
           bz == busy \ {w}
<1>1. /\ w \in starting \ dying /\ starting' = st /\ fills' = Without(w)
      /\ UNCHANGED <<dying, retiring, gone, trimArmed, closed, failures>>
      /\ \/ Dispatch(bz, rq)
         \/ Dispatch(bz, req)
         \/ busy' = bz /\ UNCHANGED <<workers, worn, closing, waiters, req>>
  BY DEF WorkerReady
<1>2. /\ LeaseInv(workers, busy, worn, starting, lv, req) /\ QueueInv(waiters, req) /\ FillInv(starting, dying, fills)
  BY DEF PoolInv
<1>3. FillInv(st, dying, Without(w))
  <2>1. \A f \in fills : /\ f \in Fill /\ f.pending \subseteq starting
                         /\ [f EXCEPT !.pending = @ \ {w}] \in Fill
                         /\ [f EXCEPT !.pending = @ \ {w}].pending = f.pending \ {w}
    BY <1>2 DEF FillInv, Fill
  <2>2. Without(w) \subseteq Fill
    BY <2>1 DEF Without
  <2>3. \A f \in Without(w) : \E g \in fills :
          /\ f.pending = g.pending \ {w}
          /\ f = IF w \in g.pending THEN [g EXCEPT !.pending = @ \ {w}] ELSE g
    BY <2>1 DEF Without
  <2>4. ASSUME NEW f \in Without(w)
        PROVE  f.pending \subseteq st
    <3>1. PICK g \in fills : f.pending = g.pending \ {w}
      BY <2>3
    <3> QED
      BY <2>1, <3>1
  <2>5. ASSUME NEW f \in Without(w), NEW g \in Without(w), f # g
        PROVE  f.pending \cap g.pending = {}
    <3>1. PICK x \in fills : /\ f.pending = x.pending \ {w}
                             /\ f = IF w \in x.pending THEN [x EXCEPT !.pending = @ \ {w}] ELSE x
      BY <2>3
    <3>2. PICK y \in fills : /\ g.pending = y.pending \ {w}
                             /\ g = IF w \in y.pending THEN [y EXCEPT !.pending = @ \ {w}] ELSE y
      BY <2>3
    <3>3. x # y
      BY <2>5, <3>1, <3>2
    <3>4. x.pending \cap y.pending = {}
      BY <1>2, <3>3 DEF FillInv
    <3> QED
      BY <3>1, <3>2, <3>4
  <2> QED
    BY <1>1, <1>2, <2>2, <2>4, <2>5 DEF FillInv
<1>4. LeaseInv(workers, bz, worn, st, lv, req)
  BY <1>1, <1>2 DEF LeaseInv
<1>5. LeaseInv(workers, bz, worn, st, lv, rq) /\ QueueInv(waiters, rq)
  <2>1. /\ rq \in [Requests -> Call]
        /\ \A r \in Requests : rq[r].phase = "holding" => rq[r] = req[r]
        /\ \A r \in Requests : rq[r].phase = "queued" <=> req[r].phase = "queued"
    BY <1>2, CallProps DEF AfterPriming, LeaseInv
  <2> HIDE DEF rq, st, bz, lv
  <2> QED
    BY <1>2, <1>4, <2>1, CallsMove
<1> HIDE DEF rq, st, bz
<1>6. CASE Dispatch(bz, rq) \/ Dispatch(bz, req)
  <2>1. /\ LeaseInv(workers', busy', worn', st, closing' \cup (UNION retiring), req')
        /\ QueueInv(waiters', req') /\ Ceil(workers', closed) /\ closing' \subseteq Workers
    BY <1>2, <1>4, <1>5, <1>6, DispatchStep
  <2> QED
    BY <1>1, <1>3, <2>1 DEF PoolInv, Plain
<1>7. CASE busy' = bz /\ UNCHANGED <<workers, worn, closing, waiters, req>>
  BY <1>1, <1>3, <1>4, <1>7 DEF PoolInv, Plain
<1> QED
  BY <1>1, <1>6, <1>7

\* A start fails: the connection leaves the pool.
LEMMA WorkerFailsStep ==
  ASSUME PoolInv, NEW w \in Workers, WorkerFails(w)
  PROVE  PoolInv'
<1>1. /\ w \in starting /\ dying' = dying \cup {w}
      /\ workers' = workers \ {w} /\ busy' = busy \ {w} /\ worn' = worn \ {w}
      /\ UNCHANGED <<starting, fills, closing, retiring, waiters, req, gone, trimArmed, closed>>
  BY DEF WorkerFails
<1>2. failures' \in 0..MaxStartFailures
  BY ToolPoolConstants DEF WorkerFails, PoolInv, Plain
<1>3. LeaseInv(workers', busy', worn', starting, closing \cup (UNION retiring), req)
  <2> DEFINE lv == closing \cup (UNION retiring)
  <2>1. LeaseInv(workers, busy, worn, starting, lv, req)
    BY DEF PoolInv
  <2> HIDE DEF lv
  <2>2. LeaseInv(workers', busy', worn', starting, lv, req)
    BY <1>1, <2>1 DEF LeaseInv
  <2> QED
    BY <2>2 DEF lv
<1>4. FillInv(starting, dying', fills)
  BY <1>1 DEF PoolInv, FillInv
<1>5. Ceil(workers', closed)
  BY <1>1, FewerCeil DEF PoolInv, Plain, LeaseInv
<1> QED
  BY <1>1, <1>2, <1>3, <1>4, <1>5 DEF PoolInv, Plain

\* The failure is reported: waiters and warming calls fail with it.
LEMMA FailureReportedStep ==
  ASSUME PoolInv, NEW w \in Workers, FailureReported(w)
  PROVE  PoolInv'
<1> DEFINE lv == closing \cup (UNION retiring)
<1>1. /\ dying' = dying \ {w} /\ starting' = starting \ {w}
      /\ UNCHANGED <<workers, busy, worn, closing, retiring, gone, trimArmed, closed, failures>>
  BY DEF FailureReported
<1>2. LeaseInv(workers, busy, worn, starting, lv, req) /\ QueueInv(waiters, req) /\ FillInv(starting, dying, fills)
  BY DEF PoolInv
<1>3. CASE (\A f \in fills : w \notin f.pending) /\ UNCHANGED <<fills, waiters, req>>
  <2>1. FillInv(starting', dying', fills')
    BY <1>1, <1>2, <1>3 DEF FillInv
  <2>2. LeaseInv(workers, busy, worn, starting', lv, req)
    BY <1>1, <1>2 DEF LeaseInv
  <2> QED
    BY <1>1, <1>3, <2>1, <2>2 DEF PoolInv, Plain
<1>4. CASE \E f \in fills :
             LET rejected == {r \in Requests : f.blame \in {r, "all"} /\ Waiting(r)} IN
             /\ w \in f.pending /\ fills' = fills \ {f}
             /\ waiters' = IF f.blame = "all" THEN <<>> ELSE Removed(f.blame)
             /\ req' = [r \in Requests |->
                          IF r \in rejected \/ (f.kind = "prime" /\ req[r].phase = "priming")
                          THEN Done ELSE req[r]]
  <2>1. PICK f \in fills :
             LET rejected == {r \in Requests : f.blame \in {r, "all"} /\ Waiting(r)} IN
             /\ w \in f.pending /\ fills' = fills \ {f}
             /\ waiters' = IF f.blame = "all" THEN <<>> ELSE Removed(f.blame)
             /\ req' = [r \in Requests |->
                          IF r \in rejected \/ (f.kind = "prime" /\ req[r].phase = "priming")
                          THEN Done ELSE req[r]]
    BY <1>4
  <2> DEFINE rejected == {r \in Requests : f.blame \in {r, "all"} /\ req[r].phase = "queued"}
  <2>2. \A r \in Requests : req'[r] = IF r \in rejected \/ (f.kind = "prime" /\ req[r].phase = "priming")
                                      THEN Done ELSE req[r]
    BY <2>1, WaitingQueued
  <2>3. /\ req' \in [Requests -> Call]
        /\ \A r \in Requests : req'[r].phase = "holding" => req'[r] = req[r]
        /\ \A r \in Requests : req'[r].phase = "queued" <=> req[r].phase = "queued" /\ r \notin rejected
    <3>1. \A r \in Requests : req'[r] \in Call
      BY <1>2, <2>2, CallProps DEF LeaseInv
    <3>2. req' = [r \in Requests |-> req'[r]]
      BY <2>1
    <3> QED
      BY <2>2, <3>1, <3>2, CallProps
  <2>4. QueueInv(waiters', req')
    <3>1. waiters \in Seq(Requests) /\ Entries(waiters) = 1..Len(waiters) /\ Distinct(waiters)
          /\ \A i \in Entries(waiters) : waiters[i] \in Requests
      BY <1>2 DEF QueueInv, Entries
    <3>2. CASE f.blame = "all"
      <4>1. Drops(Requests, <<>>, waiters, {waiters[i] : i \in 1..Len(waiters)})
        BY <3>1, DropsAll
      <4>2. \A r \in Requests : r \in rejected <=> req[r].phase = "queued"
        BY <3>2
      <4>3. \A r \in Requests : req[r].phase = "queued" => r \in {waiters[i] : i \in 1..Len(waiters)}
        BY <1>2, <3>1 DEF QueueInv
      <4>4. \A r \in Requests : req'[r].phase = "queued" <=>
                                  req[r].phase = "queued" /\ r \notin {waiters[i] : i \in 1..Len(waiters)}
        BY <2>3, <4>2, <4>3
      <4> QED
        BY <1>2, <2>1, <3>2, <4>1, <4>4, WaitersLeave
    <3>3. CASE f.blame # "all" /\ f.blame \in Requests /\ req[f.blame].phase = "queued"
      <4>1. Drops(Requests, Removed(f.blame), waiters, {f.blame})
        BY <3>3, RemovedDrops
      <4>2. \A r \in Requests : req'[r].phase = "queued" <=> req[r].phase = "queued" /\ r \notin {f.blame}
        BY <2>3, <3>3
      <4> QED
        BY <1>2, <2>1, <3>3, <4>1, <4>2, WaitersLeave
    <3>4. CASE f.blame # "all" /\ ~(f.blame \in Requests /\ req[f.blame].phase = "queued")
      <4>1. Removed(f.blame) = waiters
        BY <1>2, <3>1, <3>4 DEF Removed, Waiting, QueueInv, Entries
      <4>2. \A r \in Requests : req'[r].phase = "queued" <=> req[r].phase = "queued"
        BY <2>3, <3>4
      <4> QED
        BY <1>2, <2>1, <3>1, <3>4, <4>1, <4>2 DEF QueueInv
    <3> QED
      BY <3>2, <3>3, <3>4
  <2>5. FillInv(starting', dying', fills')
    BY <1>1, <1>2, <2>1 DEF FillInv
  <2>6. LeaseInv(workers, busy, worn, starting', lv, req')
    <3>1. LeaseInv(workers, busy, worn, starting', lv, req)
      BY <1>1, <1>2 DEF LeaseInv
    <3> QED
      BY <2>3, <3>1 DEF LeaseInv
  <2> QED
    BY <1>1, <2>4, <2>5, <2>6 DEF PoolInv, Plain
<1> QED
  BY <1>3, <1>4 DEF FailureReported

\* The waiters of fills that others await as well are blamed on all.
LEMMA BlameMoves ==
  ASSUME FillInv(starting, dying, fills)
  PROVE  FillInv(starting, dying, (fills \ Priming) \cup {[f EXCEPT !.blame = "all"] : f \in Priming})
<1> DEFINE to(f) == [f EXCEPT !.blame = "all"]
           fl == (fills \ Priming) \cup {to(f) : f \in Priming}
<1>1. \A f \in fills : f \in Fill /\ to(f) \in Fill /\ to(f).pending = f.pending
  BY DEF FillInv, Fill
<1> HIDE DEF to
<1>2. \A f \in fl : \E g \in fills : f \in Fill /\ f.pending = g.pending
                                 /\ f = IF g \in Priming THEN to(g) ELSE g
  BY <1>1 DEF Priming
<1> HIDE DEF fl
<1>3. ASSUME NEW f \in fl, NEW g \in fl, f # g
      PROVE  f.pending \cap g.pending = {}
  <2>1. PICK x \in fills : f.pending = x.pending /\ f = IF x \in Priming THEN to(x) ELSE x
    BY <1>2
  <2>2. PICK y \in fills : g.pending = y.pending /\ g = IF y \in Priming THEN to(y) ELSE y
    BY <1>2
  <2>3. x # y
    BY <1>3, <2>1, <2>2
  <2> QED
    BY <2>1, <2>2, <2>3 DEF FillInv
<1>4. \A f \in fl : f \in Fill /\ f.pending \subseteq starting
  BY <1>2 DEF FillInv
<1>5. FillInv(starting, dying, fl)
  BY <1>3, <1>4 DEF FillInv
<1> QED
  BY <1>5 DEF fl, to

\* A waiter leaves the queue and its call ends.
LEMMA WaiterGoes ==
  ASSUME PoolInv, NEW r \in Requests, req[r].phase = "queued",
         waiters' = Removed(r), req' = [req EXCEPT ![r] = Done],
         UNCHANGED <<poolVars, gone, trimArmed, closed, failures>>
  PROVE  PoolInv'
<1> DEFINE lv == closing \cup (UNION retiring)
<1>1. LeaseInv(workers, busy, worn, starting, lv, req) /\ QueueInv(waiters, req) /\ req \in [Requests -> Call]
  BY DEF PoolInv, LeaseInv
<1>2. /\ req' \in [Requests -> Call]
      /\ \A q \in Requests : req'[q].phase = "holding" => req'[q] = req[q]
      /\ \A q \in Requests : req'[q].phase = "queued" <=> req[q].phase = "queued" /\ q \notin {r}
  <2>1. Done \in Call /\ Done.phase \notin {"holding", "queued"}
    BY CallProps
  <2> QED
    BY <1>1, <2>1, OneMoves
<1>3. QueueInv(waiters', req')
  <2>1. Drops(Requests, Removed(r), waiters, {r})
    BY RemovedDrops
  <2>2. QueueInv(waiters, req)
    BY <1>1
  <2>3. ASSUME NEW rt, \A q \in Requests : rt[q].phase = "queued" <=> req[q].phase = "queued" /\ q \notin {r}
        PROVE  QueueInv(Removed(r), rt)
    BY <2>1, <2>2, <2>3, WaitersLeave
  <2>4. QueueInv(Removed(r), req')
    BY <1>2, <2>3
  <2> QED
    BY <2>4
<1> HIDE DEF lv
<1>4. LeaseInv(workers, busy, worn, starting, lv, req')
  BY <1>1, <1>2 DEF LeaseInv
<1> QED
  BY <1>3, <1>4 DEF PoolInv, Plain, poolVars, lv

\* A discard ends: the pool refills, or serves the queue.
LEMMA DiscardDoneStep ==
  ASSUME PoolInv, NEW w \in Workers, DiscardDone(w)
  PROVE  PoolInv'
<1> DEFINE lv == (closing \ {w}) \cup (UNION retiring)
<1>1. /\ w \in closing
      /\ UNCHANGED <<dying, retiring, gone, trimArmed, closed, failures>>
  BY DEF DiscardDone
<1>2. /\ LeaseInv(workers, busy, worn, starting, lv, req) /\ QueueInv(waiters, req)
      /\ FillInv(starting, dying, fills) /\ Ceil(workers, closed)
      /\ lv \subseteq closing \cup (UNION retiring) \cup workers /\ workers \subseteq Workers
      /\ closing \subseteq Workers /\ closed \in BOOLEAN
  BY DEF PoolInv, LeaseInv, Plain
<1>3. \A r \in Requests : req[r].phase = "holding" =>
        req[r].worker \in workers \/ (req[r].phase = "holding" /\ req[r].worker = req[r].worker)
  OBVIOUS
<1>4. CASE closing' = closing \ {w} /\ UNCHANGED <<workers, busy, worn, starting, fills, waiters, req>>
  BY <1>1, <1>2, <1>4 DEF PoolInv, Plain
<1>5. ASSUME NEW desired \in Int, NEW kind \in {"prime", "scale", "trim"},
             Spawn(workers, busy, fills, desired, kind, "all"),
             closing' = closing \ {w} /\ UNCHANGED <<worn, waiters, req>>
      PROVE  PoolInv'
  <2>1. /\ LeaseInv(workers', busy', worn, starting', lv, req)
        /\ FillInv(starting', dying, fills') /\ Ceil(workers', closed)
    <3> HIDE DEF lv
    <3> QED
      BY <1>2, <1>3, <1>5, SpawnStep
  <2> QED
    BY <1>1, <1>2, <1>5, <2>1 DEF PoolInv, Plain
<1>6. CASE ~closed /\ waiters # <<>> /\ Cardinality(workers) < poolSize
           /\ Spawn(workers, busy, fills, Demand(workers, Len(waiters)), "scale", "all")
           /\ closing' = closing \ {w} /\ UNCHANGED <<worn, waiters, req>>
  <2>1. Len(waiters) \in Nat
    BY <1>2 DEF QueueInv
  <2>2. Demand(workers, Len(waiters)) \in Int
    BY <1>2, <2>1, DemandInt
  <2> QED
    BY <1>5, <1>6, <2>2
<1>7. CASE (\E d \in Dispatched(workers, busy, waiters) :
              /\ workers' = d.workers /\ busy' = d.busy /\ waiters' = d.waiters
              /\ closing' = (closing \ {w}) \cup d.stale /\ worn' = worn \ d.stale
              /\ req' = Settled(req, d))
           /\ UNCHANGED <<starting, fills>>
  <2>1. PICK d \in Dispatched(workers, busy, waiters) :
              /\ workers' = d.workers /\ busy' = d.busy /\ waiters' = d.waiters
              /\ closing' = (closing \ {w}) \cup d.stale /\ worn' = worn \ d.stale
              /\ req' = Settled(req, d)
    BY <1>7
  <2>2. /\ LeaseInv(d.workers, d.busy, worn \ d.stale, starting, lv \cup d.stale, Settled(req, d))
        /\ QueueInv(d.waiters, Settled(req, d))
        /\ d.workers \subseteq workers /\ d.stale \subseteq workers
    <3> HIDE DEF lv
    <3> QED
      BY <1>2, DispatchProps
  <2>3. Ceil(d.workers, closed)
    BY <1>2, <2>2, FewerCeil
  <2>4. lv \cup d.stale = closing' \cup (UNION retiring) /\ closing' \subseteq Workers
    BY <1>2, <2>1, <2>2
  <2> QED
    BY <1>1, <1>2, <1>7, <2>1, <2>2, <2>3, <2>4 DEF PoolInv, Plain
<1>8. CASE /\ fills' = (fills \ Priming) \cup {[f EXCEPT !.blame = "all"] : f \in Priming}
           /\ UNCHANGED <<workers, busy, starting>>
           /\ closing' = closing \ {w} /\ UNCHANGED <<worn, waiters, req>>
  <2>1. FillInv(starting, dying, fills')
    BY <1>2, <1>8, BlameMoves
  <2> QED
    BY <1>1, <1>2, <1>8, <2>1 DEF PoolInv, Plain
<1>9. CASE /\ Spawn(workers, busy, fills, warmSize, "prime", "all")
           /\ closing' = closing \ {w} /\ UNCHANGED <<worn, waiters, req>>
  <2>1. warmSize \in Int
    BY <1>2, DemandInt
  <2> QED
    BY <1>5, <1>9, <2>1
<1> QED
  BY <1>4, <1>6, <1>7, <1>8, <1>9 DEF DiscardDone

\* lease.release: the connection is discarded, or serves the queue.
LEMMA ReleaseStep ==
  ASSUME PoolInv, NEW r \in Requests, Release(r)
  PROVE  PoolInv'
<1> DEFINE w == req[r].worker
           lv == closing \cup (UNION retiring)
           rt == [req EXCEPT ![r] = Done]
<1>1. /\ req[r].phase = "holding"
      /\ UNCHANGED <<starting, dying, fills, retiring, gone, closed, failures>>
      /\ \/ w \notin workers /\ req' = rt /\ UNCHANGED <<workers, busy, worn, closing, waiters, trimArmed>>
         \/ /\ w \in workers /\ req' = rt
            /\ workers' = workers \ {w} /\ busy' = busy \ {w}
            /\ closing' = closing \cup {w} /\ worn' = worn \ {w}
            /\ UNCHANGED <<waiters, trimArmed>>
         \/ /\ w \in workers \ worn /\ Dispatch(busy \ {w}, rt)
            /\ trimArmed' = (trimArmed \/ (CanTrim /\ Cardinality(workers') > warmSize))
  BY DEF Release, Discard
<1>2. /\ LeaseInv(workers, busy, worn, starting, lv, req) /\ QueueInv(waiters, req)
      /\ FillInv(starting, dying, fills) /\ Ceil(workers, closed)
      /\ workers \subseteq Workers /\ closing \subseteq Workers /\ req \in [Requests -> Call]
      /\ closed \in BOOLEAN /\ trimArmed \in BOOLEAN
  BY DEF PoolInv, LeaseInv, Plain
<1>3. /\ rt \in [Requests -> Call]
      /\ \A q \in Requests : rt[q].phase = "holding" => rt[q] = req[q] /\ q # r
      /\ \A q \in Requests : rt[q].phase = "queued" <=> req[q].phase = "queued"
  <2>1. \A q \in Requests : rt[q] = IF q = r THEN Done ELSE req[q]
    BY <1>2
  <2>2. rt \in [Requests -> Call]
    BY <1>2, CallProps
  <2> QED
    BY <1>1, <2>1, <2>2, CallProps
<1>4. \A q \in Requests : rt[q].phase = "holding" => rt[q] = req[q] /\ req[q].worker # w
  BY <1>1, <1>2, <1>3 DEF LeaseInv
<1> HIDE DEF rt
<1>5. LeaseInv(workers, busy, worn, starting, lv, rt) /\ QueueInv(waiters, rt)
  <2> HIDE DEF lv
  <2>1. /\ rt \in [Requests -> Call]
        /\ \A q \in Requests : rt[q].phase = "holding" => rt[q] = req[q]
        /\ \A q \in Requests : rt[q].phase = "queued" <=> req[q].phase = "queued"
    BY <1>3
  <2>2. LeaseInv(workers, busy, worn, starting, lv, req) /\ QueueInv(waiters, req)
    BY <1>2
  <2> QED
    BY <2>1, <2>2, CallsMove
<1>6. CASE w \notin workers /\ req' = rt /\ UNCHANGED <<workers, busy, worn, closing, waiters, trimArmed>>
  BY <1>1, <1>2, <1>5, <1>6 DEF PoolInv, Plain
<1>7. CASE /\ w \in workers /\ req' = rt
           /\ workers' = workers \ {w} /\ busy' = busy \ {w}
           /\ closing' = closing \cup {w} /\ worn' = worn \ {w}
           /\ UNCHANGED <<waiters, trimArmed>>
  <2>1. LeaseInv(workers \ {w}, busy \ {w}, worn \ {w}, starting, lv \cup {w}, rt)
    BY <1>2, <1>3, <1>4 DEF LeaseInv
  <2>2. Ceil(workers \ {w}, closed)
    BY <1>2, FewerCeil
  <2>3. closing' \cup (UNION retiring) = lv \cup {w} /\ closing' \subseteq Workers
    BY <1>2, <1>7
  <2> QED
    BY <1>1, <1>2, <1>5, <1>7, <2>1, <2>2, <2>3 DEF PoolInv, Plain
<1>8. CASE /\ w \in workers \ worn /\ Dispatch(busy \ {w}, rt)
           /\ trimArmed' = (trimArmed \/ (CanTrim /\ Cardinality(workers') > warmSize))
  <2>1. LeaseInv(workers, busy \ {w}, worn, starting, lv, rt)
    <3>1. w \notin starting
      BY <1>1, <1>2 DEF LeaseInv
    <3>2. \A q \in Requests : rt[q].phase = "holding" => rt[q].worker # w
      BY <1>4
    <3> QED
      BY <1>5, <3>1, <3>2 DEF LeaseInv
  <2>2. /\ LeaseInv(workers', busy', worn', starting, closing' \cup (UNION retiring), req')
        /\ QueueInv(waiters', req') /\ Ceil(workers', closed) /\ closing' \subseteq Workers
    BY <1>5, <1>8, <2>1, DispatchStep
  <2>3. trimArmed' \in BOOLEAN
    BY <1>8
  <2> QED
    BY <1>1, <1>2, <2>2, <2>3 DEF PoolInv, Plain
<1> QED
  BY <1>1, <1>6, <1>7, <1>8

\* The trim timer fires.
LEMMA TrimFiresStep ==
  ASSUME PoolInv, TrimFires
  PROVE  PoolInv'
<1>1. /\ trimArmed' = FALSE
      /\ UNCHANGED <<busy, starting, dying, fills, closing, waiters, req, gone, closed, failures>>
      /\ \/ UNCHANGED <<workers, worn, retiring>>
         \/ \E out \in SUBSET (workers \ busy) :
              /\ workers' = workers \ out /\ worn' = worn \ out
              /\ retiring' = retiring \cup {out}
  BY DEF TrimFires
<1>2. CASE UNCHANGED <<workers, worn, retiring>>
  BY <1>1, <1>2 DEF PoolInv, Plain
<1>3. CASE \E out \in SUBSET (workers \ busy) :
             /\ workers' = workers \ out /\ worn' = worn \ out
             /\ retiring' = retiring \cup {out}
  <2>1. PICK out \in SUBSET (workers \ busy) :
             /\ workers' = workers \ out /\ worn' = worn \ out
             /\ retiring' = retiring \cup {out}
    BY <1>3
  <2> DEFINE lv == closing \cup (UNION retiring)
  <2>2. LeaseInv(workers, busy, worn, starting, lv, req) /\ workers \subseteq Workers /\ closed \in BOOLEAN
        /\ Ceil(workers, closed)
    BY DEF PoolInv, LeaseInv, Plain
  <2>3. closing \cup (UNION retiring') = lv \cup out
    BY <2>1
  <2> HIDE DEF lv
  <2>4. LeaseInv(workers \ out, busy, worn \ out, starting, lv \cup out, req)
    BY <2>2 DEF LeaseInv
  <2>5. Ceil(workers', closed)
    BY <2>1, <2>2, FewerCeil
  <2>6. retiring' \subseteq SUBSET Workers
    BY <2>1, <2>2 DEF PoolInv, Plain
  <2> QED
    BY <1>1, <2>1, <2>3, <2>4, <2>5, <2>6 DEF PoolInv, Plain
<1> QED
  BY <1>1, <1>2, <1>3

\* Retired connections are closed; the pool fills up to its warm size.
LEMMA RetireDoneStep ==
  ASSUME PoolInv, NEW out \in retiring, RetireDone(out)
  PROVE  PoolInv'
<1> DEFINE lv == closing \cup (UNION retiring')
<1>1. /\ retiring' = retiring \ {out}
      /\ Spawn(workers, busy, fills, warmSize, "trim", "nobody")
      /\ UNCHANGED <<worn, dying, closing, waiters, req, gone, trimArmed, closed, failures>>
  BY DEF RetireDone
<1>2. lv \subseteq closing \cup (UNION retiring)
  BY <1>1
<1>3. /\ LeaseInv(workers, busy, worn, starting, lv, req)
      /\ FillInv(starting, dying, fills) /\ Ceil(workers, closed)
      /\ lv \subseteq closing \cup (UNION retiring) \cup workers /\ workers \subseteq Workers
  BY <1>2 DEF PoolInv, LeaseInv
<1>4. warmSize \in Int
  BY <1>3, DemandInt
<1>5. /\ LeaseInv(workers', busy', worn, starting', lv, req)
      /\ FillInv(starting', dying, fills') /\ Ceil(workers', closed)
  <2> HIDE DEF lv
  <2> QED
    BY <1>1, <1>3, <1>4, SpawnStep
<1> QED
  BY <1>1, <1>5 DEF PoolInv, Plain

\* The client of a waiting call leaves.
LEMMA ClientLeavesStep ==
  ASSUME PoolInv, NEW r \in Requests, ClientLeaves(r)
  PROVE  PoolInv'
<1>1. UNCHANGED <<poolVars, trimArmed, closed, failures>>
  BY DEF ClientLeaves
<1>2. CASE gone' = gone \cup {r} /\ UNCHANGED <<waiters, req>>
  BY <1>1, <1>2 DEF PoolInv, Plain, poolVars
<1>3. CASE /\ req[r].phase = "queued" /\ waiters' = Removed(r)
           /\ req' = [req EXCEPT ![r] = Done] /\ UNCHANGED gone
  BY <1>1, <1>3, WaiterGoes
<1> QED
  BY <1>2, <1>3 DEF ClientLeaves

\* A waiter's timer.
LEMMA QueueTimeoutStep ==
  ASSUME PoolInv, NEW r \in Requests, QueueTimeout(r)
  PROVE  PoolInv'
<1>1. /\ req[r].phase = "queued" /\ waiters' = Removed(r) /\ req' = [req EXCEPT ![r] = Done]
      /\ UNCHANGED <<poolVars, gone, trimArmed, closed, failures>>
  BY DEF QueueTimeout
<1> QED
  BY <1>1, WaiterGoes

\* A connection becomes due for recycling.
LEMMA WearOutStep ==
  ASSUME PoolInv, NEW w \in Workers, WearOut(w)
  PROVE  PoolInv'
<1>1. /\ w \in workers /\ worn' = worn \cup {w}
      /\ UNCHANGED <<workers, busy, starting, dying, fills, closing, retiring>>
      /\ UNCHANGED <<waiters, req, gone, trimArmed, closed, failures>>
  BY DEF WearOut
<1> DEFINE lv == closing \cup (UNION retiring)
<1>2. LeaseInv(workers, busy, worn, starting, lv, req)
  BY DEF PoolInv
<1> HIDE DEF lv
<1>3. LeaseInv(workers, busy, worn', starting, lv, req)
  BY <1>1, <1>2 DEF LeaseInv
<1> QED
  BY <1>1, <1>3 DEF PoolInv, Plain, lv

\* close(): nobody waits and nothing is pooled.
LEMMA CloseStep ==
  ASSUME PoolInv, Close
  PROVE  PoolInv'
<1> DEFINE lv == closing \cup (UNION retiring)
<1>1. /\ closed' = TRUE /\ trimArmed' = FALSE
      /\ waiters' = <<>> /\ workers' = {} /\ busy' = {} /\ worn' = {}
      /\ req' = [r \in Requests |-> IF Waiting(r) THEN Done ELSE req[r]]
      /\ UNCHANGED <<starting, dying, fills, closing, retiring, gone, failures>>
  BY DEF Close
<1>2. LeaseInv(workers, busy, worn, starting, lv, req)
  BY DEF PoolInv
<1>3. /\ req' \in [Requests -> Call]
      /\ \A r \in Requests : req'[r].phase = "holding" => req'[r] = req[r]
      /\ \A r \in Requests : req'[r].phase # "queued"
  <2>1. \A r \in Requests : req'[r] = IF req[r].phase = "queued" THEN Done ELSE req[r]
    BY <1>1, WaitingQueued
  <2>2. \A r \in Requests : req'[r] \in Call
    BY <1>2, <2>1, CallProps DEF LeaseInv
  <2>3. req' = [r \in Requests |-> req'[r]]
    BY <1>1
  <2> QED
    BY <2>1, <2>2, <2>3, CallProps
<1>4. LeaseInv({}, {}, {}, starting, lv, req')
  <2> HIDE DEF lv
  <2> QED
    BY <1>2, <1>3 DEF LeaseInv
<1>5. QueueInv(<<>>, req')
  <2>1. Len(<<>>) = 0 /\ <<>> \in Seq(Requests) /\ queueMax \in Nat
    BY ToolPoolConstants
  <2>2. Entries(<<>>) = {}
    BY <2>1 DEF Entries
  <2> QED
    BY <1>3, <2>1, <2>2 DEF QueueInv, Distinct
<1>6. Ceil({}, TRUE)
  BY FS_EmptySet DEF Ceil
<1> QED
  BY <1>1, <1>4, <1>5, <1>6 DEF PoolInv, Plain, FillInv

\* Every step preserves the invariant.
LEMMA PoolNext ==
  ASSUME PoolInv, [Next]_vars
  PROVE  PoolInv'
<1>1. CASE Next
  BY <1>1, PrimeStep, AcquireStep, TryAcquireStep, PrimedStep, ReleaseStep, TrimFiresStep,
     RetireDoneStep, ClientLeavesStep, QueueTimeoutStep, WearOutStep, CloseStep,
     WorkerReadyStep, WorkerFailsStep, FailureReportedStep, DiscardDoneStep DEF Next
<1>2. CASE UNCHANGED vars
  BY <1>2 DEF PoolInv, Plain, vars, poolVars
<1> QED
  BY <1>1, <1>2

-----------------------------------------------------------------------------
\* The parts of the pool agree: an idle connection is leased to nobody, a fill
\* waits only for connections under construction, the queue holds the waiting
\* calls.
THEOREM PoolInvariant == Spec => []PoolInv
<1>1. Init => PoolInv
  BY PoolInit
<1>2. PoolInv /\ [Next]_vars => PoolInv'
  BY PoolNext
<1> QED
  BY <1>1, <1>2, PTL DEF Spec

\* ToolAcpPool never leases a connection twice, nor one that is being prepared,
\* recycled or retired.
THEOREM LeasesStayExclusive == Spec => []ExclusiveLease
<1>1. PoolInv => ExclusiveLease
  BY DEF PoolInv, LeaseInv, ExclusiveLease, Leased
<1> QED
  BY <1>1, PoolInvariant, PTL

\* #ensureSize never passes the ceiling, and nothing comes back to a closed pool.
THEOREM CeilingKept == Spec => []CeilingHolds
<1>1. PoolInv => CeilingHolds
  BY DEF PoolInv, Ceil, CeilingHolds
<1> QED
  BY <1>1, PoolInvariant, PTL

\* #waiters holds the waiting calls, each once, and never more than queueMax.
THEOREM QueueKept == Spec => []QueueSound
<1>1. ASSUME PoolInv
      PROVE  QueueSound
  <2>1. QueueInv(waiters, req) /\ DOMAIN waiters = Entries(waiters)
    BY <1>1 DEF PoolInv, QueueInv, Entries
  <2>2. \A r \in Requests : (req[r].phase = "queued") <=> Waiting(r)
    BY <1>1, WaitingQueued
  <2> QED
    BY <2>1, <2>2 DEF QueueSound, QueueInv, Distinct
<1> QED
  BY <1>1, PoolInvariant, PTL

\* The variables keep their types, and no idle connection is leased.
THEOREM PoolTypes == Spec => []TypeOK
<1>1. ASSUME PoolInv
      PROVE  TypeOK
  <2>1. \A i \in DOMAIN waiters : waiters[i] \in Requests
    BY <1>1 DEF PoolInv, QueueInv
  <2>2. (starting \cup Leased) \cap workers \subseteq busy
    BY <1>1 DEF PoolInv, LeaseInv, Leased
  <2> QED
    BY <1>1, <2>1, <2>2 DEF PoolInv, LeaseInv, FillInv, Plain, TypeOK
<1> QED
  BY <1>1, PoolInvariant, PTL

-----------------------------------------------------------------------------
(***************************************************************************)
(* A queue in an open pool has something that will dispatch it.            *)
(***************************************************************************)
\* A call of rq holds connection w.
Held(rq, w) == \E r \in Requests : rq[r].phase = "holding" /\ rq[r].worker = w

\* Connections ws under construction are of the pool, every busy one is under
\* construction or leased, and a fill waits for each that is under construction.
Staffed(ws, bz, st, rq, fl) ==
  /\ st \subseteq ws
  /\ \A w \in bz : w \in st \/ Held(rq, w)
  /\ \A w \in st : \E f \in fl : w \in f.pending

\* What the fills that dispatch nothing wait for.
Trims(fl) == {f \in fl : f.kind = "trim"}
Trimmed(fl) == UNION {f.pending : f \in Trims(fl)}
TrimsFew(fl) == Cardinality(Trimmed(fl)) < poolSize

\* A lease that ends, a fill that dispatches or a discard that does.
Served(ws, rq, cl, fl) ==
  \/ \E w \in ws : Held(rq, w)
  \/ cl # {}
  \/ \E f \in fl : f.kind # "trim"

\* An open pool whose starts have all succeeded.
OpenInv ==
  /\ dying = {}
  /\ Staffed(workers, busy, starting, req, fills)
  /\ TrimsFew(fills)
  /\ waiters # <<>> => Served(workers, req, closing, fills)

\* Retirement, whose refill dispatches nothing, is only of pools with room above
\* their warm size.
ServeInv ==
  /\ ~closed /\ failures = 0 => OpenInv
  /\ trimArmed \/ retiring # {} => CanTrim

\* A queue that a run of #dispatchWaiters leaves: nothing was idle, or something
\* was discarded, or a waiter was served. Leases stay.
LEMMA DispatchServes ==
  ASSUME NEW ws, NEW bz, NEW st, NEW lv, NEW rq, NEW wt, NEW d \in Dispatched(ws, bz, wt),
         LeaseInv(ws, bz, worn, st, lv, rq), QueueInv(wt, rq), ~closed
  PROVE  /\ d.waiters # <<>> =>
              /\ wt # <<>>
              /\ (ws \subseteq bz /\ d.workers = ws) \/ d.stale # {} \/ \E w \in d.workers : Held(Settled(rq, d), w)
         /\ \A w \in ws : Held(rq, w) => w \in d.workers
         /\ \A w : Held(rq, w) => Held(Settled(rq, d), w)
         /\ \A w \in d.busy \ bz : Held(Settled(rq, d), w)
         /\ d.workers = ws \ d.stale /\ d.stale \cap bz = {}
<1> DEFINE n == Len(wt)
           there == IF closed THEN {} ELSE {i \in DOMAIN wt : wt[i] \notin gone}
           stale == IF there = {} THEN {} ELSE Stale(ws, bz)
           served == {i \in there : Cardinality({j \in there : j <= i}) <= Cardinality(Idle(ws, bz))}
           left == {i \in DOMAIN wt : closed \/ \E j \in there \ served : j <= i}
<1>1. PICK give \in [served -> Idle(ws, bz)] :
        /\ \A i, j \in served : i # j => give[i] # give[j]
        /\ d = [workers |-> ws \ stale, stale |-> stale,
                busy |-> bz \cup {give[i] : i \in served},
                waiters |-> SubSeq(wt, Len(wt) - Cardinality(left) + 1, Len(wt)),
                lease |-> [r \in {wt[i] : i \in served} |-> give[CHOOSE i \in served : wt[i] = r]],
                dropped |-> {wt[i] : i \in DOMAIN wt \ (left \cup served)}]
  BY DEF Dispatched
<1>2. n \in Nat /\ DOMAIN wt = 1..n /\ Entries(wt) = 1..n /\ \A i \in 1..n : wt[i] \in Requests
  BY DEF QueueInv, Entries
<1>3. /\ Idle(ws, bz) = (ws \ bz) \ worn /\ Stale(ws, bz) = (ws \ bz) \cap worn /\ ws \subseteq Workers
      /\ stale \subseteq Stale(ws, bz)
  BY DEF Idle, Stale, LeaseInv
<1>4. there \subseteq 1..n /\ served \subseteq there /\ left \subseteq 1..n
  BY <1>2
<1>5. d.workers = ws \ stale /\ d.stale = stale /\ d.busy = bz \cup {give[i] : i \in served}
      /\ d.waiters = SubSeq(wt, n - Cardinality(left) + 1, n)
      /\ DOMAIN d.lease = {wt[i] : i \in served} /\ d.dropped = {wt[i] : i \in (1..n) \ (left \cup served)}
      /\ \A r \in DOMAIN d.lease : d.lease[r] = give[CHOOSE i \in served : wt[i] = r]
  BY <1>1, <1>2
<1>6. \A r \in Requests : Settled(rq, d)[r] = IF r \in DOMAIN d.lease THEN Holding(d.lease[r])
                                              ELSE IF r \in d.dropped THEN Done ELSE rq[r]
  BY DEF Settled
<1>7. left # {} => there # {} /\ there \ served # {}
  OBVIOUS
<1>8. there \ served # {} /\ Idle(ws, bz) # {} => served # {}
  <2> SUFFICES ASSUME there \ served # {}, Idle(ws, bz) # {}
               PROVE  served # {}
    OBVIOUS
  <2>1. PICK i \in there : \A j \in there : i <= j
    BY <1>2, <1>4, FirstPlace
  <2>2. \A j \in there : j \in Int
    BY <1>2, <1>4
  <2>3. {j \in there : j <= i} = {i}
    BY <2>1, <2>2
  <2>4. Cardinality({i}) = 1
    BY FS_Singleton
  <2>5. IsFiniteSet(Idle(ws, bz)) /\ Cardinality(Idle(ws, bz)) \in Nat /\ Cardinality(Idle(ws, bz)) # 0
    <3>1. IsFiniteSet(Idle(ws, bz)) /\ Cardinality(Idle(ws, bz)) \in Nat
      BY <1>3, Countable
    <3> QED
      BY <3>1, FS_EmptySet
  <2>6. Cardinality({j \in there : j <= i}) <= Cardinality(Idle(ws, bz))
    BY <2>3, <2>4, <2>5
  <2>7. i \in served
    BY <2>1, <2>6
  <2> QED
    BY <2>7
<1> HIDE DEF served, left, there, stale, n
<1>9. \A i \in served : Held(Settled(rq, d), give[i]) /\ give[i] \in d.workers
  <2> SUFFICES ASSUME NEW i \in served
               PROVE  Held(Settled(rq, d), give[i]) /\ give[i] \in d.workers
    OBVIOUS
  <2> DEFINE at == CHOOSE j \in served : wt[j] = wt[i]
  <2>1. at \in served /\ wt[at] = wt[i]
    OBVIOUS
  <2>2. at = i
    BY <1>2, <1>4, <2>1 DEF QueueInv, Distinct
  <2>3. wt[i] \in DOMAIN d.lease /\ d.lease[wt[i]] = give[at]
    <3>1. wt[i] \in DOMAIN d.lease
      BY <1>5
    <3> QED
      BY <1>5, <3>1
  <2> HIDE DEF at
  <2>4. wt[i] \in Requests
    BY <1>2, <1>4
  <2>5. give[i] \in Idle(ws, bz)
    OBVIOUS
  <2>6. Settled(rq, d)[wt[i]] = Holding(give[i])
    BY <1>6, <2>2, <2>3, <2>4
  <2>7. Holding(give[i]).phase = "holding" /\ Holding(give[i]).worker = give[i]
    BY DEF Holding
  <2>8. give[i] \in d.workers
    BY <1>3, <1>5, <2>5
  <2> QED
    BY <2>4, <2>6, <2>7, <2>8 DEF Held
<1>10. ASSUME d.waiters # <<>>
       PROVE  /\ wt # <<>>
              /\ \/ ws \subseteq bz /\ d.workers = ws
                 \/ d.stale # {}
                 \/ \E w \in d.workers : Held(Settled(rq, d), w)
  <2>1. left # {}
    <3> SUFFICES ASSUME left = {}
                 PROVE  FALSE
      OBVIOUS
    <3>1. Cardinality(left) = 0
      BY FS_EmptySet
    <3>2. d.waiters = SubSeq(wt, n + 1, n)
      BY <1>2, <1>5, <3>1
    <3>3. wt \in Seq(Requests) /\ n = Len(wt)
      BY DEF QueueInv, n
    <3>4. SubSeq(wt, n + 1, n) = <<>>
      BY <1>2, <3>3
    <3> QED
      BY <1>10, <3>2, <3>4
  <2>2. wt # <<>>
    <3> SUFFICES ASSUME wt = <<>>
                 PROVE  FALSE
      OBVIOUS
    <3>1. n = 0 /\ 1..0 = {}
      BY DEF n
    <3> QED
      BY <1>4, <2>1, <3>1
  <2>3. there # {} /\ there \ served # {}
    BY <1>7, <2>1
  <2>4. stale = Stale(ws, bz)
    BY <2>3 DEF stale
  <2>5. CASE Idle(ws, bz) # {}
    BY <1>8, <1>9, <2>2, <2>3, <2>5
  <2>6. CASE Stale(ws, bz) # {}
    BY <1>5, <2>2, <2>4, <2>6
  <2>7. CASE Idle(ws, bz) = {} /\ Stale(ws, bz) = {}
    BY <1>3, <1>5, <2>2, <2>4, <2>7
  <2> QED
    BY <2>5, <2>6, <2>7
<1>11. ASSUME NEW r \in Requests, rq[r].phase = "holding"
       PROVE  Settled(rq, d)[r] = rq[r]
  <2>1. \A i \in 1..n : wt[i] # r
    BY <1>2, <1>11 DEF QueueInv
  <2>2. r \notin DOMAIN d.lease /\ r \notin d.dropped
    BY <1>4, <1>5, <2>1
  <2> QED
    BY <1>6, <2>2
<1>12. \A w : Held(rq, w) => Held(Settled(rq, d), w)
  BY <1>11 DEF Held
<1>13. \A w \in ws : Held(rq, w) => w \in d.workers
  BY <1>3, <1>5 DEF Held, LeaseInv
<1>14. \A w \in d.busy \ bz : Held(Settled(rq, d), w)
  BY <1>5, <1>9
<1>15. d.workers = ws \ d.stale /\ d.stale \cap bz = {}
  BY <1>3, <1>5
<1> QED
  BY <1>10, <1>12, <1>13, <1>14, <1>15

\* A full pool of which nothing is idle is served: not all of it is retirement's.
LEMMA FullIsServed ==
  ASSUME NEW ws \in SUBSET Workers, NEW bz, NEW st, NEW rq, NEW fl,
         Staffed(ws, bz, st, rq, fl), TrimsFew(fl), ws \subseteq bz, poolSize <= Cardinality(ws),
         \A f \in fl : f.pending \subseteq Workers
  PROVE  \/ \E w \in ws : Held(rq, w)
         \/ \E f \in fl : f.kind # "trim"
<1> SUFFICES ASSUME \A w \in ws : ~Held(rq, w), \A f \in fl : f.kind = "trim"
             PROVE  FALSE
  OBVIOUS
<1>1. Trims(fl) = fl
  BY DEF Trims
<1>2. \A w \in ws : \E f \in fl : w \in f.pending
  BY DEF Staffed
<1>3. ws \subseteq Trimmed(fl)
  BY <1>1, <1>2 DEF Trimmed
<1>4. Trimmed(fl) \subseteq Workers
  BY <1>1 DEF Trimmed
<1>5. /\ IsFiniteSet(Trimmed(fl)) /\ Cardinality(Trimmed(fl)) \in Nat
      /\ Cardinality(ws) \in Nat
  BY <1>4, Countable
<1>6. Cardinality(ws) <= Cardinality(Trimmed(fl))
  BY <1>3, <1>5, FS_Subset
<1> QED
  BY <1>5, <1>6, ToolPoolConstants DEF TrimsFew

\* The end of the queue is served last: if any waiter stays, the last one does.
LEMMA LastStays ==
  ASSUME NEW ws, NEW bz, NEW rq, NEW wt, NEW d \in Dispatched(ws, bz, wt), QueueInv(wt, rq),
         d.waiters # <<>>
  PROVE  \E i \in DOMAIN d.waiters : d.waiters[i] = wt[Len(wt)]
<1> DEFINE n == Len(wt)
<1>1. wt \in Seq(Requests) /\ n \in Nat /\ DOMAIN wt = 1..n
  BY DEF QueueInv
<1> DEFINE there == IF closed THEN {} ELSE {i \in DOMAIN wt : wt[i] \notin gone}
           served == {i \in there : Cardinality({j \in there : j <= i}) <= Cardinality(Idle(ws, bz))}
           left == {i \in DOMAIN wt : closed \/ \E j \in there \ served : j <= i}
<1>2. left \subseteq 1..n /\ d.waiters = SubSeq(wt, Len(wt) - Cardinality(left) + 1, Len(wt))
  <2>1. left \subseteq 1..n
    BY <1>1
  <2> DEFINE stale == IF there = {} THEN {} ELSE Stale(ws, bz)
  <2>2. PICK give \in [served -> Idle(ws, bz)] :
          /\ \A i, j \in served : i # j => give[i] # give[j]
          /\ d = [workers |-> ws \ stale, stale |-> stale,
                  busy |-> bz \cup {give[i] : i \in served},
                  waiters |-> SubSeq(wt, Len(wt) - Cardinality(left) + 1, Len(wt)),
                  lease |-> [r \in {wt[i] : i \in served} |-> give[CHOOSE i \in served : wt[i] = r]],
                  dropped |-> {wt[i] : i \in DOMAIN wt \ (left \cup served)}]
    BY DEF Dispatched
  <2>3. d.waiters = SubSeq(wt, Len(wt) - Cardinality(left) + 1, Len(wt))
    BY <2>2
  <2> QED
    BY <2>1, <2>3
<1> HIDE DEF left, served, there, n
<1> DEFINE c == Cardinality(left)
<1>3. c \in 0..n
  <2>1. IsFiniteSet(1..n) /\ Cardinality(1..n) = n
    <3>1. n \in Nat
      BY <1>1
    <3> QED
      BY <3>1, FS_Interval
  <2>2. c \in Nat /\ c <= n
    BY <1>2, <2>1, FS_Subset, FS_CardinalityType
  <2> QED
    BY <1>1, <2>2
<1> HIDE DEF c
<1>4. d.waiters = SubSeq(wt, n - c + 1, n)
  BY <1>2 DEF c, n
<1>5. c # 0
  <2> SUFFICES ASSUME c = 0
               PROVE  FALSE
    OBVIOUS
  <2>1. n - c + 1 = n + 1
    BY <1>1, <1>3
  <2>2. SubSeq(wt, n + 1, n) = <<>>
    BY <1>1 DEF n
  <2> QED
    BY <1>4, <2>1, <2>2
<1>6. n - c + 1 \in 1..n /\ n \in 1..n /\ n - (n - c + 1) + 1 = c
  BY <1>1, <1>3, <1>5
<1>7. \A i \in (n - c + 1)..n : wt[i] \in Requests
  BY <1>1, <1>6 DEF n
<1>8. /\ Len(SubSeq(wt, n - c + 1, n)) = n - (n - c + 1) + 1
      /\ \A i \in 1..(n - (n - c + 1) + 1) : SubSeq(wt, n - c + 1, n)[i] = wt[n - c + 1 + i - 1]
  BY <1>6, <1>7, SubSeqProperties
<1>9. c \in 1..(n - (n - c + 1) + 1) /\ n - c + 1 + c - 1 = n
  BY <1>1, <1>3, <1>5
<1>10. d.waiters[c] = wt[n]
  <2>1. SubSeq(wt, n - c + 1, n)[c] = wt[n - c + 1 + c - 1]
    BY <1>8, <1>9
  <2> QED
    BY <1>4, <1>9, <2>1
<1>11. DOMAIN d.waiters = 1..(n - (n - c + 1) + 1)
  <2>1. d.waiters \in Seq(Requests)
    <3>1. n - c + 1 \in 1..(n + 1)
      BY <1>1, <1>3
    <3> QED
      BY <1>1, <1>4, <3>1 DEF n
  <2>2. Len(d.waiters) = n - (n - c + 1) + 1
    BY <1>4, <1>8
  <2> QED
    BY <2>1, <2>2
<1> QED
  BY <1>9, <1>10, <1>11 DEF n

\* What serves the queue goes on doing so.
LEMMA StillServed ==
  ASSUME NEW ws, NEW us, NEW rq, NEW rt, NEW cl, NEW cm, NEW fl, NEW fm,
         Served(ws, rq, cl, fl), cl \subseteq cm, fl \subseteq fm,
         \A w \in ws : Held(rq, w) => w \in us /\ Held(rt, w)
  PROVE  Served(us, rt, cm, fm)
BY DEF Served

\* A run of #dispatchWaiters and what the pool needs of it.
LEMMA ServeDispatch ==
  ASSUME NEW ws, NEW bz, NEW st, NEW lv, NEW rq, NEW wt, NEW fl, NEW cl, NEW d \in Dispatched(ws, bz, wt),
         LeaseInv(ws, bz, worn, st, lv, rq), QueueInv(wt, rq), ~closed,
         Staffed(ws, bz, st, rq, fl),
         wt # <<>> /\ ws \subseteq bz => Served(ws, rq, cl, fl)
  PROVE  /\ Staffed(d.workers, d.busy, st, Settled(rq, d), fl)
         /\ d.waiters # <<>> => Served(d.workers, Settled(rq, d), cl \cup d.stale, fl)
<1>1. /\ d.waiters # <<>> =>
           /\ wt # <<>>
           /\ (ws \subseteq bz /\ d.workers = ws) \/ d.stale # {} \/ \E w \in d.workers : Held(Settled(rq, d), w)
      /\ \A w \in ws : Held(rq, w) => w \in d.workers
      /\ \A w : Held(rq, w) => Held(Settled(rq, d), w)
      /\ \A w \in d.busy \ bz : Held(Settled(rq, d), w)
      /\ d.workers = ws \ d.stale /\ d.stale \cap bz = {}
  BY DispatchServes
<1>2. Staffed(d.workers, d.busy, st, Settled(rq, d), fl)
  <2>1. st \subseteq ws /\ st \cap ws \subseteq bz
    BY DEF Staffed, LeaseInv
  <2>2. st \subseteq d.workers
    BY <1>1, <2>1
  <2>3. \A w \in d.busy : w \in st \/ Held(Settled(rq, d), w)
    BY <1>1 DEF Staffed
  <2> QED
    BY <2>2, <2>3 DEF Staffed
<1>3. ASSUME d.waiters # <<>>
      PROVE  Served(d.workers, Settled(rq, d), cl \cup d.stale, fl)
  <2>1. CASE ws \subseteq bz
    <3>1. Served(ws, rq, cl, fl) /\ cl \subseteq cl \cup d.stale /\ fl \subseteq fl
      BY <1>1, <1>3, <2>1
    <3>2. \A w \in ws : Held(rq, w) => w \in d.workers /\ Held(Settled(rq, d), w)
      BY <1>1
    <3> QED
      BY <3>1, <3>2, StillServed
  <2>2. CASE d.stale # {} \/ \E w \in d.workers : Held(Settled(rq, d), w)
    BY <2>2 DEF Served
  <2> QED
    BY <1>1, <1>3, <2>1, <2>2
<1> QED
  BY <1>2, <1>3

\* #ensureSize and what the queue needs of it.
LEMMA ServeSpawn ==
  ASSUME PoolInv, NEW ws \in SUBSET workers, NEW bz, NEW rq, NEW fl, NEW desired \in Int,
         NEW kind, NEW blame, Staffed(ws, bz, starting, rq, fl), Spawn(ws, bz, fl, desired, kind, blame)
  PROVE  /\ Staffed(workers', busy', starting', rq, fills')
         /\ fl \subseteq fills' /\ ws \subseteq workers'
         /\ kind # "trim" => Trims(fills') = Trims(fl)
         /\ ~closed /\ kind # "trim" /\ Cardinality(ws) < poolSize /\ Cardinality(ws) < desired =>
              \E f \in fills' : f.kind # "trim"
<1> DEFINE h(new) == [kind |-> kind, pending |-> new, blame |-> blame]
<1>1. PICK new \in Recruits(ws, desired) :
        /\ workers' = ws \cup new /\ busy' = bz \cup new
        /\ starting' = starting \cup new
        /\ fills' = fl \cup (IF new = {} THEN {} ELSE {h(new)})
  BY DEF Spawn
<1>2. h(new).kind = kind /\ h(new).pending = new
  OBVIOUS
<1> HIDE DEF h
<1>3. Staffed(workers', busy', starting', rq, fills')
  <2>1. \A w \in starting' : \E f \in fills' : w \in f.pending
    <3>1. \A w \in starting : \E f \in fl : w \in f.pending
      BY DEF Staffed
    <3>2. \A w \in new : h(new) \in fills' /\ w \in h(new).pending
      BY <1>1, <1>2
    <3> QED
      BY <1>1, <3>1, <3>2
  <2>2. \A w \in busy' : w \in starting' \/ Held(rq, w)
    BY <1>1 DEF Staffed
  <2>3. starting' \subseteq workers'
    BY <1>1 DEF Staffed
  <2> QED
    BY <2>1, <2>2, <2>3 DEF Staffed
<1>4. kind # "trim" => Trims(fills') = Trims(fl)
  BY <1>1, <1>2 DEF Trims
<1>5. ASSUME ~closed, kind # "trim", Cardinality(ws) < poolSize, Cardinality(ws) < desired
      PROVE  \E f \in fills' : f.kind # "trim"
  <2>1. Cardinality(new) = AtLeast(0, AtMost(poolSize, desired) - Cardinality(ws))
    BY <1>5 DEF Recruits
  <2>2. Cardinality(ws) \in Nat /\ poolSize \in Nat
    BY Countable, ToolPoolConstants DEF PoolInv, LeaseInv
  <2>3. AtMost(poolSize, desired) \in Int /\ Cardinality(ws) < AtMost(poolSize, desired)
    BY <1>5, <2>2 DEF AtMost
  <2>4. Cardinality(new) # 0
    BY <2>1, <2>2, <2>3 DEF AtLeast
  <2>5. new # {}
    BY <2>4, FS_EmptySet
  <2> QED
    BY <1>1, <1>2, <1>5, <2>5
<1> QED
  BY <1>1, <1>3, <1>4, <1>5

\* Calls that hold nothing go on, and calls begin to hold.
LEMMA HoldsOn ==
  ASSUME NEW rq, NEW rt, \A r \in Requests : rq[r].phase = "holding" => rt[r] = rq[r]
  PROVE  \A w : Held(rq, w) => Held(rt, w)
BY DEF Held

\* The connections of a pool are held by other calls.
LEMMA StaffedByOthers ==
  ASSUME NEW ws, NEW bz, NEW st, NEW rq, NEW rt, NEW fl, Staffed(ws, bz, st, rq, fl),
         \A w : Held(rq, w) => Held(rt, w)
  PROVE  Staffed(ws, bz, st, rt, fl)
BY DEF Staffed

\* Fewer fills of retirement wait for fewer connections.
LEMMA TrimsFewer ==
  ASSUME NEW fl \in SUBSET Fill, NEW fm, TrimsFew(fl), Trimmed(fm) \subseteq Trimmed(fl)
  PROVE  TrimsFew(fm)
<1>1. Trimmed(fl) \subseteq Workers
  BY DEF Trimmed, Trims, Fill
<1>2. /\ IsFiniteSet(Trimmed(fl)) /\ Cardinality(Trimmed(fl)) \in Nat
      /\ Cardinality(Trimmed(fm)) \in Nat
  BY <1>1, Countable
<1>3. Cardinality(Trimmed(fm)) <= Cardinality(Trimmed(fl))
  BY <1>2, FS_Subset
<1> QED
  BY <1>2, <1>3, ToolPoolConstants DEF TrimsFew

\* Calls but one hold what they held.
LEMMA OthersHold ==
  ASSUME NEW rq \in [Requests -> Call], NEW r \in Requests, NEW c, rq[r].phase # "holding"
  PROVE  \A w : Held(rq, w) => Held([rq EXCEPT ![r] = c], w)
BY DEF Held

\* The fills of retirement, after #ensureSize for another reason.
LEMMA SameTrims ==
  ASSUME NEW fl, NEW fm, Trims(fm) = Trims(fl)
  PROVE  TrimsFew(fl) => TrimsFew(fm)
BY DEF TrimsFew, Trimmed

\* #ensureSize on the pool as it is, for prime() or a larger demand.
LEMMA SpawnOpen ==
  ASSUME PoolInv, OpenInv, NEW desired \in Int, NEW kind \in {"prime", "scale"}, NEW blame, NEW rt,
         \A w : Held(req, w) => Held(rt, w), Spawn(workers, busy, fills, desired, kind, blame)
  PROVE  /\ Staffed(workers', busy', starting', rt, fills') /\ TrimsFew(fills')
         /\ waiters # <<>> => Served(workers', rt, closing, fills')
         /\ ~closed /\ Cardinality(workers) < poolSize /\ Cardinality(workers) < desired =>
              \E f \in fills' : f.kind # "trim"
<1>1. Staffed(workers, busy, starting, req, fills)
  BY DEF OpenInv
<1>2. /\ Staffed(workers', busy', starting', req, fills')
      /\ fills \subseteq fills' /\ workers \subseteq workers'
      /\ kind # "trim" => Trims(fills') = Trims(fills)
      /\ ~closed /\ kind # "trim" /\ Cardinality(workers) < poolSize /\ Cardinality(workers) < desired =>
           \E f \in fills' : f.kind # "trim"
  BY <1>1, ServeSpawn
<1>3. Staffed(workers', busy', starting', rt, fills')
  BY <1>2, StaffedByOthers
<1>4. TrimsFew(fills')
  BY <1>2, SameTrims DEF OpenInv
<1>5. ASSUME waiters # <<>>
      PROVE  Served(workers', rt, closing, fills')
  <2>1. Served(workers, req, closing, fills)
    BY <1>5 DEF OpenInv
  <2>2. \A w \in workers : Held(req, w) => w \in workers' /\ Held(rt, w)
    BY <1>2
  <2> QED
    BY <1>2, <2>1, <2>2, StillServed
<1> QED
  BY <1>2, <1>3, <1>4, <1>5

\* The pool is warmed up.
LEMMA ServePrime ==
  ASSUME PoolInv, ServeInv, Prime
  PROVE  ServeInv'
<1>1. /\ Spawn(workers, busy, fills, warmSize, "prime", "nobody")
      /\ UNCHANGED <<worn, dying, closing, retiring, waiters, req, gone, trimArmed, closed, failures>>
  BY DEF Prime
<1>2. warmSize \in Int
  BY ToolPoolConstants
<1>3. ASSUME OpenInv
      PROVE  OpenInv'
  <2>1. /\ Staffed(workers', busy', starting', req, fills') /\ TrimsFew(fills')
        /\ waiters # <<>> => Served(workers', req, closing, fills')
    BY <1>1, <1>2, <1>3, SpawnOpen
  <2> QED
    BY <1>1, <1>3, <2>1 DEF OpenInv
<1> QED
  BY <1>1, <1>3 DEF ServeInv, CanTrim

\* A call asks for a connection.
LEMMA ServeAcquire ==
  ASSUME PoolInv, ServeInv, NEW r \in Requests, Acquire(r)
  PROVE  ServeInv'
<1> DEFINE to(p) == [req EXCEPT ![r] = In(p)]
<1>1. /\ ~closed /\ req[r] = Out
      /\ UNCHANGED <<dying, retiring, gone, trimArmed, closed, failures>>
  BY DEF Acquire
<1>2. req \in [Requests -> Call] /\ req[r].phase \notin {"holding", "queued"}
  BY <1>1, CallProps DEF PoolInv, LeaseInv
<1>3. \A p : \A w : Held(req, w) => Held(to(p), w)
  BY <1>2, OthersHold
<1>4. /\ LeaseInv(workers, busy, worn, starting, closing \cup (UNION retiring), to("primed"))
      /\ QueueInv(waiters, to("primed"))
  <2>1. In("primed") \in Call /\ In("primed").phase \notin {"holding", "queued"}
    BY CallProps
  <2>2. /\ to("primed") \in [Requests -> Call]
        /\ \A q \in Requests : to("primed")[q].phase = "holding" => to("primed")[q] = req[q]
        /\ \A q \in Requests : to("primed")[q].phase = "queued" <=> req[q].phase = "queued"
    BY <1>2, <2>1, OneMoves
  <2> DEFINE lv == closing \cup (UNION retiring)
  <2>3. LeaseInv(workers, busy, worn, starting, lv, req) /\ QueueInv(waiters, req)
    BY DEF PoolInv
  <2> HIDE DEF lv, to
  <2>4. LeaseInv(workers, busy, worn, starting, lv, to("primed")) /\ QueueInv(waiters, to("primed"))
    BY <2>2, <2>3, CallsMove
  <2> QED
    BY <2>4 DEF lv
<1> HIDE DEF to
<1>5. ASSUME OpenInv
      PROVE  OpenInv'
  <2>1. CASE req' = to("priming") /\ UNCHANGED <<workers, busy, worn, closing, waiters, starting, fills>>
    <3>1. Staffed(workers, busy, starting, to("priming"), fills)
      BY <1>3, <1>5, StaffedByOthers DEF OpenInv
    <3>2. ASSUME waiters # <<>>
          PROVE  Served(workers, to("priming"), closing, fills)
      <4>1. Served(workers, req, closing, fills)
        BY <1>5, <3>2 DEF OpenInv
      <4> QED
        BY <1>3, <4>1, StillServed
    <3> QED
      BY <1>1, <1>5, <2>1, <3>1, <3>2 DEF OpenInv
  <2>2. CASE /\ Spawn(workers, busy, fills, warmSize, "prime", "nobody")
             /\ req' = to("priming") /\ UNCHANGED <<worn, closing, waiters>>
    <3>1. warmSize \in Int
      BY ToolPoolConstants
    <3>2. /\ Staffed(workers', busy', starting', to("priming"), fills') /\ TrimsFew(fills')
          /\ waiters # <<>> => Served(workers', to("priming"), closing, fills')
      BY <1>3, <1>5, <2>2, <3>1, SpawnOpen
    <3> QED
      BY <1>1, <1>5, <2>2, <3>2 DEF OpenInv
  <2>3. CASE Dispatch(busy, to("primed")) /\ UNCHANGED <<starting, fills>>
    <3>1. PICK d \in Dispatched(workers, busy, waiters) :
            /\ workers' = d.workers /\ closing' = closing \cup d.stale
            /\ busy' = d.busy /\ waiters' = d.waiters /\ req' = Settled(to("primed"), d)
      BY <2>3 DEF Dispatch, Discard
    <3>2. Staffed(workers, busy, starting, to("primed"), fills)
      BY <1>3, <1>5, StaffedByOthers DEF OpenInv
    <3>3. ASSUME waiters # <<>>
          PROVE  Served(workers, to("primed"), closing, fills)
      <4>1. Served(workers, req, closing, fills)
        BY <1>5, <3>3 DEF OpenInv
      <4> QED
        BY <1>3, <4>1, StillServed
    <3>4. /\ Staffed(d.workers, d.busy, starting, Settled(to("primed"), d), fills)
          /\ d.waiters # <<>> => Served(d.workers, Settled(to("primed"), d), closing \cup d.stale, fills)
      BY <1>1, <1>4, <3>2, <3>3, ServeDispatch
    <3> QED
      BY <1>1, <1>5, <2>3, <3>1, <3>4 DEF OpenInv
  <2> QED
    BY <2>1, <2>2, <2>3 DEF Acquire, to
<1> QED
  BY <1>1, <1>5 DEF ServeInv, CanTrim

\* A call takes an idle connection: the queue is empty.
LEMMA ServeTakesIdle ==
  ASSUME PoolInv, OpenInv, NEW r \in Requests, req[r].phase # "holding", TakesIdle(r), UNCHANGED dying
  PROVE  OpenInv'
<1>1. PICK w \in Idle(workers, busy) : req' = [req EXCEPT ![r] = Holding(w)] /\ busy' = busy \cup {w}
  BY DEF TakesIdle
<1>2. /\ workers' = workers \ Stale(workers, busy) /\ waiters = <<>>
      /\ UNCHANGED <<waiters, starting, fills>>
  BY DEF TakesIdle
<1>3. req \in [Requests -> Call] /\ starting \cap workers \subseteq busy
  BY DEF PoolInv, LeaseInv
<1>4. \A x : Held(req, x) => Held(req', x)
  BY <1>1, <1>3, OthersHold
<1>5. Held(req', w)
  <2>1. req'[r] = Holding(w)
    BY <1>1, <1>3
  <2> QED
    BY <2>1 DEF Held, Holding
<1>6. Staffed(workers', busy', starting, req', fills)
  <2>1. Staffed(workers, busy, starting, req, fills)
    BY DEF OpenInv
  <2>2. starting \subseteq workers'
    BY <1>2, <1>3, <2>1 DEF Staffed, Stale
  <2>3. \A x \in busy' : x \in starting \/ Held(req', x)
    BY <1>1, <1>4, <1>5, <2>1 DEF Staffed
  <2> QED
    BY <2>1, <2>2, <2>3 DEF Staffed
<1> QED
  BY <1>2, <1>6 DEF OpenInv

\* The queue is full: it stays as it is.
LEMMA ServeRefused ==
  ASSUME PoolInv, OpenInv, NEW r \in Requests, req[r].phase # "holding", Refused(r), UNCHANGED dying
  PROVE  OpenInv'
<1> DEFINE stale == IF waiters = <<>> THEN Stale(workers, busy) ELSE {}
<1>1. /\ workers' = workers \ stale /\ closing' = closing \cup stale
      /\ req' = [req EXCEPT ![r] = Done] /\ UNCHANGED <<waiters, busy, starting, fills>>
  BY DEF Refused, Discard
<1>2. stale \subseteq workers \ busy /\ (waiters # <<>> => stale = {})
  BY DEF Stale
<1> HIDE DEF stale
<1>3. req \in [Requests -> Call] /\ starting \cap workers \subseteq busy
  BY DEF PoolInv, LeaseInv
<1>4. \A x : Held(req, x) => Held(req', x)
  BY <1>1, <1>3, OthersHold
<1>5. Staffed(workers', busy, starting, req', fills)
  <2>1. Staffed(workers, busy, starting, req, fills)
    BY DEF OpenInv
  <2>2. starting \subseteq workers'
    BY <1>1, <1>2, <1>3, <2>1 DEF Staffed
  <2> QED
    BY <1>4, <2>1, <2>2 DEF Staffed
<1>6. ASSUME waiters # <<>>
      PROVE  Served(workers', req', closing', fills)
  <2>1. Served(workers, req, closing, fills)
    BY <1>6 DEF OpenInv
  <2>2. workers' = workers /\ closing \subseteq closing'
    BY <1>1, <1>2, <1>6
  <2>3. \A w \in workers : Held(req, w) => w \in workers' /\ Held(req', w)
    BY <1>4, <2>2
  <2> QED
    BY <2>1, <2>2, <2>3, StillServed
<1> QED
  BY <1>1, <1>5, <1>6 DEF OpenInv

\* A call queues: a pool with room grows for it, in a full one something is busy.
LEMMA ServeQueued ==
  ASSUME PoolInv, OpenInv, NEW r \in Requests, req[r].phase = "primed", Queued(r), ~closed, UNCHANGED dying
  PROVE  OpenInv'
<1> DEFINE wt == Append(waiters, r)
           rq == [req EXCEPT ![r] = In("queued")]
           lv == closing \cup (UNION retiring)
<1>1. PICK d \in Dispatched(workers, busy, wt) :
        /\ closing' = closing \cup d.stale /\ waiters' = d.waiters
        /\ req' = Settled(rq, d)
        /\ IF \E i \in DOMAIN d.waiters : d.waiters[i] = r
           THEN Spawn(d.workers, d.busy, fills, Demand(d.workers, Len(d.waiters)), "scale", r)
           ELSE workers' = d.workers /\ busy' = d.busy /\ UNCHANGED <<starting, fills>>
  BY DEF Queued, Discard
<1>2. QueueInv(wt, rq)
  BY JoinsQueue DEF Queued
<1>3. /\ req \in [Requests -> Call] /\ LeaseInv(workers, busy, worn, starting, lv, req)
      /\ workers \subseteq Workers /\ Ceil(workers, closed) /\ closed \in BOOLEAN
      /\ FillInv(starting, dying, fills)
  BY DEF PoolInv, LeaseInv, Plain
<1>4. \A w : Held(req, w) => Held(rq, w)
  BY <1>3, OthersHold
<1>5. LeaseInv(workers, busy, worn, starting, lv, rq)
  <2>1. rq \in [Requests -> Call] /\ rq[r].phase = "queued" /\ \A q \in Requests : q # r => rq[q] = req[q]
    BY <1>3, CallProps
  <2> HIDE DEF rq, lv
  <2> QED
    BY <1>3, <2>1 DEF LeaseInv
<1>6. Len(wt) = Len(waiters) + 1 /\ wt[Len(wt)] = r
  BY AppendProperties DEF PoolInv, QueueInv
<1> HIDE DEF rq, wt, lv
<1>7. Staffed(workers, busy, starting, rq, fills)
  BY <1>4, StaffedByOthers DEF OpenInv
<1>8. d.workers \subseteq workers /\ QueueInv(d.waiters, Settled(rq, d))
  BY <1>2, <1>3, <1>5, DispatchProps
<1>9. CASE \E i \in DOMAIN d.waiters : d.waiters[i] = r
  <2>1. Spawn(d.workers, d.busy, fills, Demand(d.workers, Len(d.waiters)), "scale", r)
    BY <1>1, <1>9
  <2>2. ASSUME NEW cl, wt # <<>> /\ workers \subseteq busy => Served(workers, rq, cl, fills)
        PROVE  /\ Staffed(d.workers, d.busy, starting, Settled(rq, d), fills)
               /\ d.waiters # <<>> => Served(d.workers, Settled(rq, d), cl \cup d.stale, fills)
    BY <1>2, <1>5, <1>7, <2>2, ServeDispatch
  <2>3. Staffed(d.workers, d.busy, starting, req', fills)
    <3>1. Served(workers, rq, {1}, fills)
      BY DEF Served
    <3> QED
      BY <1>1, <2>2, <3>1
  <2>4. Len(d.waiters) \in Nat /\ Demand(d.workers, Len(d.waiters)) \in Int
    <3>1. Len(d.waiters) \in Nat
      BY <1>8 DEF QueueInv
    <3> QED
      BY <1>3, <1>8, <3>1, DemandInt
  <2>5. /\ Staffed(workers', busy', starting', req', fills')
        /\ fills \subseteq fills' /\ d.workers \subseteq workers'
        /\ Trims(fills') = Trims(fills)
        /\ Cardinality(d.workers) < poolSize /\ Cardinality(d.workers) < Demand(d.workers, Len(d.waiters)) =>
             \E f \in fills' : f.kind # "trim"
    <3> DEFINE ds == d.workers
               db == d.busy
               size == Demand(d.workers, Len(d.waiters))
    <3>1. ds \in SUBSET workers /\ size \in Int /\ Staffed(ds, db, starting, req', fills)
          /\ Spawn(ds, db, fills, size, "scale", r)
      BY <1>8, <2>1, <2>3, <2>4
    <3> HIDE DEF ds, db, size
    <3>2. /\ Staffed(workers', busy', starting', req', fills')
          /\ fills \subseteq fills' /\ ds \subseteq workers'
          /\ "scale" # "trim" => Trims(fills') = Trims(fills)
          /\ ~closed /\ "scale" # "trim" /\ Cardinality(ds) < poolSize /\ Cardinality(ds) < size =>
               \E f \in fills' : f.kind # "trim"
      BY <3>1, ServeSpawn
    <3> QED
      BY <3>2 DEF ds, size
  <2>6. Served(workers', req', closing', fills')
    <3>1. Cardinality(d.workers) \in Nat /\ Cardinality(workers) \in Nat /\ poolSize \in Nat /\ warmSize \in Nat
          /\ IsFiniteSet(workers)
      BY <1>3, <1>8, Countable, ToolPoolConstants
    <3>2. CASE Cardinality(d.workers) < poolSize
      <4>1. AtLeast(1, Len(d.waiters)) >= 1 /\ AtLeast(1, Len(d.waiters)) \in Int
        BY <2>4 DEF AtLeast
      <4>2. Cardinality(d.workers) < Demand(d.workers, Len(d.waiters))
        BY <3>1, <4>1 DEF Demand, AtLeast
      <4> QED
        BY <2>5, <3>2, <4>2 DEF Served
    <3>3. CASE ~(Cardinality(d.workers) < poolSize)
      <4>1. Cardinality(d.workers) <= Cardinality(workers)
        BY <1>8, <3>1, FS_Subset
      <4>2. poolSize <= Cardinality(workers)
        BY <3>1, <3>3, <4>1
      <4>3. \A f \in fills : f.pending \subseteq Workers
        BY <1>3 DEF FillInv, Fill
      <4>4. workers \subseteq busy => Served(workers, rq, closing, fills)
        BY <1>3, <1>7, <4>2, <4>3, FullIsServed DEF OpenInv, Served
      <4>5. d.waiters # <<>>
        BY <1>9
      <4>6. Served(d.workers, req', closing', fills)
        BY <1>1, <2>2, <4>4, <4>5
      <4> QED
        BY <2>5, <4>6, StillServed
    <3> QED
      BY <3>2, <3>3
  <2>7. TrimsFew(fills')
    BY <2>5, SameTrims DEF OpenInv
  <2> QED
    BY <2>5, <2>6, <2>7 DEF OpenInv
<1>10. CASE ~(\E i \in DOMAIN d.waiters : d.waiters[i] = r)
  <2>1. d.waiters = <<>>
    BY <1>2, <1>6, <1>10, LastStays
  <2>2. wt # <<>> /\ workers \subseteq busy => Served(workers, rq, {1}, fills)
    BY DEF Served
  <2>3. Staffed(d.workers, d.busy, starting, Settled(rq, d), fills)
    BY <1>2, <1>5, <1>7, <2>2, ServeDispatch
  <2> QED
    BY <1>1, <1>10, <2>1, <2>3 DEF OpenInv
<1> QED
  BY <1>9, <1>10

\* acquire() goes on after prime().
LEMMA ServePrimed ==
  ASSUME PoolInv, ServeInv, NEW r \in Requests, Primed(r)
  PROVE  ServeInv'
<1>1. req[r].phase = "primed" /\ UNCHANGED <<dying, retiring, trimArmed, closed, failures>>
  BY DEF Primed
<1>2. ASSUME OpenInv, ~closed
      PROVE  OpenInv'
  BY <1>1, <1>2, ServeTakesIdle, ServeRefused, ServeQueued DEF Primed
<1> QED
  BY <1>1, <1>2 DEF ServeInv, CanTrim

\* tryAcquire().
LEMMA ServeTryAcquire ==
  ASSUME PoolInv, ServeInv, NEW r \in Requests, TryAcquire(r)
  PROVE  ServeInv'
<1> DEFINE stale == Stale(workers, busy)
           ws == workers \ stale
<1>1. ~closed /\ req[r] = Out /\ UNCHANGED <<dying, retiring, gone, trimArmed, closed, failures>>
  BY DEF TryAcquire
<1>2. /\ warmSize \in Int /\ \A w : Held(req, w) => Held(req, w)
      /\ starting \cap workers \subseteq busy /\ workers \subseteq Workers
      /\ LeaseInv(workers, busy, worn, starting, closing \cup (UNION retiring), req)
      /\ QueueInv(waiters, req)
  BY ToolPoolConstants DEF PoolInv, LeaseInv
<1>3. ASSUME OpenInv
      PROVE  OpenInv'
  <2>1. CASE TakesIdle(r)
    <3>1. req[r].phase # "holding"
      BY <1>1, CallProps
    <3> QED
      BY <1>1, <1>3, <2>1, <3>1, ServeTakesIdle
  <2>2. CASE /\ waiters = <<>> /\ Spawn(ws, busy, fills, Demand(ws, 0), "scale", "nobody")
             /\ UNCHANGED <<waiters, req>>
    <3>1. stale \cap busy = {}
      BY DEF Stale
    <3> HIDE DEF stale
    <3>2. Staffed(ws, busy, starting, req, fills)
      BY <1>2, <1>3, <3>1 DEF OpenInv, Staffed
    <3>3. ws \in SUBSET workers /\ Demand(ws, 0) \in Int
      BY <1>2, DemandInt
    <3> HIDE DEF ws
    <3>4. /\ Staffed(workers', busy', starting', req, fills')
          /\ "scale" # "trim" => Trims(fills') = Trims(fills)
      BY <2>2, <3>2, <3>3, ServeSpawn
    <3>5. TrimsFew(fills')
      BY <1>3, <3>4, SameTrims DEF OpenInv
    <3> QED
      BY <1>1, <1>3, <2>2, <3>4, <3>5 DEF OpenInv
  <2>3. CASE /\ Spawn(workers, busy, fills, warmSize, "prime", "nobody")
             /\ UNCHANGED <<worn, closing, waiters, req>>
    <3>1. /\ Staffed(workers', busy', starting', req, fills') /\ TrimsFew(fills')
          /\ waiters # <<>> => Served(workers', req, closing, fills')
      BY <1>2, <1>3, <2>3, SpawnOpen
    <3> QED
      BY <1>1, <1>3, <2>3, <3>1 DEF OpenInv
  <2>4. CASE Dispatch(busy, req) /\ UNCHANGED <<starting, fills>>
    <3>1. PICK d \in Dispatched(workers, busy, waiters) :
            /\ workers' = d.workers /\ closing' = closing \cup d.stale
            /\ busy' = d.busy /\ waiters' = d.waiters /\ req' = Settled(req, d)
      BY <2>4 DEF Dispatch, Discard
    <3>2. /\ Staffed(d.workers, d.busy, starting, Settled(req, d), fills)
          /\ d.waiters # <<>> => Served(d.workers, Settled(req, d), closing \cup d.stale, fills)
      BY <1>1, <1>2, <1>3, ServeDispatch DEF OpenInv
    <3> QED
      BY <1>1, <1>3, <2>4, <3>1, <3>2 DEF OpenInv
  <2> QED
    BY <2>1, <2>2, <2>3, <2>4 DEF TryAcquire
<1> QED
  BY <1>1, <1>3 DEF ServeInv, CanTrim

\* A connection is ready: the last of a fill is idle when the fill dispatches, and
\* before the last the fill goes on.
LEMMA ServeWorkerReady ==
  ASSUME PoolInv, ServeInv, NEW w \in Workers, WorkerReady(w)
  PROVE  ServeInv'
<1> DEFINE lv == closing \cup (UNION retiring)
           rq == IF Completes(w, {"prime"}) THEN AfterPriming(In("primed")) ELSE req
           st == starting \ {w}
           bz == busy \ {w}
           fl == Without(w)
<1>1. /\ w \in starting /\ starting' = st /\ fills' = fl
      /\ UNCHANGED <<dying, retiring, gone, trimArmed, closed, failures>>
      /\ \/ Dispatch(bz, rq)
         \/ /\ ~Completes(w, {"prime", "scale"})
            /\ busy' = bz /\ UNCHANGED <<workers, worn, closing, waiters, req>>
  BY DEF WorkerReady
<1>2. /\ LeaseInv(workers, busy, worn, starting, lv, req) /\ QueueInv(waiters, req) /\ fills \subseteq Fill
  BY DEF PoolInv, FillInv
<1>3. /\ rq \in [Requests -> Call]
      /\ \A r \in Requests : rq[r].phase = "holding" => rq[r] = req[r]
      /\ \A r \in Requests : req[r].phase = "holding" => rq[r] = req[r]
      /\ \A r \in Requests : rq[r].phase = "queued" <=> req[r].phase = "queued"
  BY <1>2, CallProps DEF AfterPriming, LeaseInv
<1>4. \A g \in fills : w \in g.pending /\ g.pending # {w} =>
        \E f \in fl : f.kind = g.kind /\ f.pending = g.pending \ {w}
  <2> SUFFICES ASSUME NEW g \in fills, w \in g.pending, g.pending # {w}
               PROVE  \E f \in fl : f.kind = g.kind /\ f.pending = g.pending \ {w}
    OBVIOUS
  <2> DEFINE f == [g EXCEPT !.pending = @ \ {w}]
  <2>1. f \in fl
    BY DEF Without
  <2>2. f.kind = g.kind /\ f.pending = g.pending \ {w}
    BY <1>2 DEF Fill
  <2> QED
    BY <2>1, <2>2
<1>5. \A g \in fills : w \notin g.pending => g \in fl
  BY DEF Without
<1>6. \A f \in fl : \E g \in fills : f.kind = g.kind /\ f.pending \subseteq g.pending
  BY <1>2 DEF Without, Fill
<1>7. LeaseInv(workers, bz, worn, st, lv, rq) /\ QueueInv(waiters, rq)
  <2>1. LeaseInv(workers, bz, worn, st, lv, req)
    BY <1>1, <1>2 DEF LeaseInv
  <2> HIDE DEF rq, st, bz, lv
  <2> QED
    BY <1>2, <1>3, <2>1, CallsMove
<1> HIDE DEF rq, fl
<1>8. ASSUME OpenInv
      PROVE  /\ Staffed(workers, bz, st, req, fl) /\ TrimsFew(fl) /\ w \in workers
  <2>1. Staffed(workers, busy, starting, req, fills)
    BY <1>8 DEF OpenInv
  <2>2. ASSUME NEW x \in st
        PROVE  \E f \in fl : x \in f.pending
    <3>1. PICK g \in fills : x \in g.pending
      BY <2>1, <2>2 DEF Staffed
    <3>2. CASE w \in g.pending
      BY <1>4, <2>2, <3>1, <3>2
    <3>3. CASE w \notin g.pending
      BY <1>5, <3>1, <3>3
    <3> QED
      BY <3>2, <3>3
  <2>3. Staffed(workers, bz, st, req, fl)
    BY <2>1, <2>2 DEF Staffed
  <2>4. TrimsFew(fl)
    <3>1. Trimmed(fl) \subseteq Trimmed(fills)
      BY <1>6 DEF Trimmed, Trims
    <3> QED
      BY <1>2, <1>8, <3>1, TrimsFewer DEF OpenInv
  <2> QED
    BY <1>1, <2>1, <2>3, <2>4 DEF Staffed
<1>9. ASSUME OpenInv, ~closed
      PROVE  OpenInv'
  <2>1. CASE Dispatch(bz, rq)
    <3>1. PICK d \in Dispatched(workers, bz, waiters) :
            /\ workers' = d.workers /\ closing' = closing \cup d.stale
            /\ busy' = d.busy /\ waiters' = d.waiters /\ req' = Settled(rq, d)
      BY <2>1 DEF Dispatch, Discard
    <3>2. Staffed(workers, bz, st, rq, fl)
      <4>1. \A x : Held(req, x) => Held(rq, x)
        BY <1>3, HoldsOn
      <4> QED
        BY <1>8, <1>9, <4>1, StaffedByOthers
    <3>3. ~(workers \subseteq bz)
      BY <1>8, <1>9
    <3> HIDE DEF bz, st
    <3>4. /\ Staffed(d.workers, d.busy, st, Settled(rq, d), fl)
          /\ d.waiters # <<>> => Served(d.workers, Settled(rq, d), closing \cup d.stale, fl)
      BY <1>7, <1>9, <3>2, <3>3, ServeDispatch
    <3> QED
      BY <1>1, <1>8, <1>9, <3>1, <3>4 DEF OpenInv
  <2>2. CASE /\ ~Completes(w, {"prime", "scale"})
             /\ busy' = bz /\ UNCHANGED <<workers, worn, closing, waiters, req>>
    <3>1. ASSUME NEW g \in fills, g.kind # "trim"
          PROVE  \E f \in fl : f.kind # "trim"
      <4>1. g.kind \in {"prime", "scale"}
        BY <1>2, <3>1 DEF Fill
      <4>2. g.pending # {w}
        BY <2>2, <4>1 DEF Completes
      <4> QED
        BY <1>4, <1>5, <3>1, <4>2
    <3>2. waiters # <<>> => Served(workers, req, closing, fl)
      BY <1>9, <3>1 DEF OpenInv, Served
    <3> QED
      BY <1>1, <1>8, <1>9, <2>2, <3>2 DEF OpenInv
  <2> QED
    BY <1>1, <2>1, <2>2
<1> QED
  BY <1>1, <1>9 DEF ServeInv, CanTrim

\* A start fails: nothing is promised from here on.
LEMMA ServeWorkerFails ==
  ASSUME PoolInv, ServeInv, NEW w \in Workers, WorkerFails(w)
  PROVE  ServeInv'
<1>1. failures' = (IF closed THEN failures ELSE failures + 1) /\ UNCHANGED <<retiring, trimArmed, closed>>
  BY DEF WorkerFails
<1>2. failures \in Nat
  BY ToolPoolConstants DEF PoolInv, Plain
<1>3. closed' \/ failures' # 0
  BY <1>1, <1>2
<1> QED
  BY <1>1, <1>3 DEF ServeInv, CanTrim

\* A failure is reported after a start has failed.
LEMMA ServeFailureReported ==
  ASSUME PoolInv, ServeInv, NEW w \in Workers, FailureReported(w)
  PROVE  ServeInv'
<1>1. w \in dying /\ UNCHANGED <<retiring, trimArmed, closed, failures>>
  BY DEF FailureReported
<1>2. ~OpenInv
  BY <1>1 DEF OpenInv
<1> QED
  BY <1>1, <1>2 DEF ServeInv, CanTrim

\* A discard ends: the pool grows for the queue, or dispatches when it is full.
LEMMA ServeDiscardDone ==
  ASSUME PoolInv, ServeInv, NEW w \in Workers, DiscardDone(w)
  PROVE  ServeInv'
<1>1. UNCHANGED <<dying, retiring, gone, trimArmed, closed, failures>>
  BY DEF DiscardDone
<1> DEFINE lv == closing \cup (UNION retiring)
<1>2. /\ LeaseInv(workers, busy, worn, starting, lv, req) /\ QueueInv(waiters, req)
      /\ workers \subseteq Workers /\ fills \subseteq Fill /\ Len(waiters) \in Nat /\ warmSize \in Int
      /\ \A x : Held(req, x) => Held(req, x)
  BY ToolPoolConstants DEF PoolInv, LeaseInv, FillInv, QueueInv
<1>3. ASSUME OpenInv, ~closed
      PROVE  OpenInv'
  <2>1. CASE /\ waiters # <<>> /\ Cardinality(workers) < poolSize
             /\ Spawn(workers, busy, fills, Demand(workers, Len(waiters)), "scale", "all")
             /\ UNCHANGED <<worn, waiters, req>>
    <3>1. Demand(workers, Len(waiters)) \in Int /\ Cardinality(workers) < Demand(workers, Len(waiters))
      <4>1. Cardinality(workers) \in Nat /\ AtLeast(1, Len(waiters)) >= 1 /\ AtLeast(1, Len(waiters)) \in Int
        BY <1>2, Countable DEF AtLeast
      <4>2. Demand(workers, Len(waiters)) \in Int
        BY <1>2, DemandInt
      <4> QED
        BY <1>2, <4>1, <4>2 DEF Demand, AtLeast
    <3>2. /\ Staffed(workers', busy', starting', req, fills') /\ TrimsFew(fills')
          /\ ~closed /\ Cardinality(workers) < poolSize
             /\ Cardinality(workers) < Demand(workers, Len(waiters)) => \E f \in fills' : f.kind # "trim"
      BY <1>2, <1>3, <2>1, <3>1, SpawnOpen
    <3>3. Served(workers', req, closing', fills')
      BY <1>3, <2>1, <3>1, <3>2 DEF Served
    <3> QED
      BY <1>1, <1>3, <2>1, <3>2, <3>3 DEF OpenInv
  <2>2. CASE /\ Cardinality(workers) >= poolSize
             /\ \E d \in Dispatched(workers, busy, waiters) :
                  /\ workers' = d.workers /\ busy' = d.busy /\ waiters' = d.waiters
                  /\ closing' = (closing \ {w}) \cup d.stale /\ worn' = worn \ d.stale
                  /\ req' = Settled(req, d)
             /\ UNCHANGED <<starting, fills>>
    <3>1. PICK d \in Dispatched(workers, busy, waiters) :
            /\ workers' = d.workers /\ busy' = d.busy /\ waiters' = d.waiters
            /\ closing' = (closing \ {w}) \cup d.stale
            /\ req' = Settled(req, d)
      BY <2>2
    <3> DEFINE cl == closing \ {w}
    <3>2. workers \subseteq busy => Served(workers, req, cl, fills)
      <4>1. \A f \in fills : f.pending \subseteq Workers
        BY <1>2 DEF Fill
      <4>2. poolSize <= Cardinality(workers)
        BY <1>2, <2>2, Countable, ToolPoolConstants
      <4> QED
        BY <1>2, <1>3, <4>1, <4>2, FullIsServed DEF OpenInv, Served
    <3>3. Staffed(workers, busy, starting, req, fills)
      BY <1>3 DEF OpenInv
    <3> HIDE DEF cl, lv
    <3>4. /\ Staffed(d.workers, d.busy, starting, Settled(req, d), fills)
          /\ d.waiters # <<>> => Served(d.workers, Settled(req, d), cl \cup d.stale, fills)
      BY <1>2, <1>3, <3>2, <3>3, ServeDispatch
    <3> QED
      BY <1>1, <1>3, <2>2, <3>1, <3>4 DEF OpenInv, cl
  <2>3. CASE /\ waiters = <<>> /\ Spawn(workers, busy, fills, warmSize, "prime", "all")
             /\ UNCHANGED <<worn, waiters, req>>
    <3>1. Staffed(workers', busy', starting', req, fills') /\ TrimsFew(fills')
      BY <1>2, <1>3, <2>3, SpawnOpen
    <3> QED
      BY <1>1, <1>3, <2>3, <3>1 DEF OpenInv
  <2>4. CASE /\ waiters = <<>>
             /\ fills' = (fills \ Priming) \cup {[f EXCEPT !.blame = "all"] : f \in Priming}
             /\ UNCHANGED <<workers, busy, starting>>
             /\ UNCHANGED <<worn, waiters, req>>
    <3> DEFINE to(f) == [f EXCEPT !.blame = "all"]
    <3>1. \A f \in fills : to(f).pending = f.pending /\ to(f).kind = f.kind
      BY <1>2 DEF Fill
    <3>2. fills' = (fills \ Priming) \cup {to(f) : f \in Priming}
      BY <2>4
    <3> HIDE DEF to
    <3>3. Trims(fills') = Trims(fills)
      BY <3>1, <3>2 DEF Trims, Priming
    <3>4. \A f \in fills : \E g \in fills' : g.pending = f.pending
      BY <3>1, <3>2 DEF Priming
    <3>5. Staffed(workers, busy, starting, req, fills')
      BY <1>3, <3>4 DEF OpenInv, Staffed
    <3>6. TrimsFew(fills')
      BY <1>3, <3>3, SameTrims DEF OpenInv
    <3> QED
      BY <1>1, <1>3, <2>4, <3>5, <3>6 DEF OpenInv
  <2> QED
    BY <1>3, <2>1, <2>2, <2>3, <2>4 DEF DiscardDone
<1> QED
  BY <1>1, <1>3 DEF ServeInv, CanTrim

\* A lease ends: its connection is discarded, or is idle when the queue is served.
LEMMA ServeRelease ==
  ASSUME PoolInv, ServeInv, NEW r \in Requests, Release(r)
  PROVE  ServeInv'
<1> DEFINE w == req[r].worker
           lv == closing \cup (UNION retiring)
           rt == [req EXCEPT ![r] = Done]
           bz == busy \ {w}
<1>1. /\ req[r].phase = "holding"
      /\ UNCHANGED <<starting, dying, fills, retiring, gone, closed, failures>>
      /\ \/ UNCHANGED trimArmed
         \/ trimArmed' = (trimArmed \/ (CanTrim /\ Cardinality(workers') > warmSize))
      /\ \/ w \notin workers /\ req' = rt /\ UNCHANGED <<workers, busy, worn, closing, waiters>>
         \/ /\ w \in workers /\ req' = rt
            /\ workers' = workers \ {w} /\ busy' = busy \ {w}
            /\ closing' = closing \cup {w} /\ UNCHANGED waiters
         \/ w \in workers \ worn /\ Dispatch(bz, rt)
  BY DEF Release, Discard
<1>2. /\ LeaseInv(workers, busy, worn, starting, lv, req) /\ QueueInv(waiters, req)
      /\ req \in [Requests -> Call] /\ busy \subseteq workers /\ w \notin starting
  BY <1>1 DEF PoolInv, LeaseInv
<1>3. /\ rt \in [Requests -> Call]
      /\ \A q \in Requests : rt[q].phase = "holding" => rt[q] = req[q]
      /\ \A q \in Requests : rt[q].phase = "queued" <=> req[q].phase = "queued"
      /\ \A q \in Requests : rt[q].phase = "holding" => req[q].worker # w
  <2>1. \A q \in Requests : rt[q] = IF q = r THEN Done ELSE req[q]
    BY <1>2
  <2>2. rt \in [Requests -> Call]
    BY <1>2, CallProps
  <2> QED
    BY <1>1, <1>2, <2>1, <2>2, CallProps DEF LeaseInv
<1>4. \A x : x # w /\ Held(req, x) => Held(rt, x)
  <2>1. \A q \in Requests : q # r => rt[q] = req[q]
    BY <1>2
  <2> QED
    BY <2>1 DEF Held
<1> HIDE DEF w, rt
<1>5. ASSUME OpenInv
      PROVE  Staffed(workers \ {w}, bz, starting, rt, fills)
  <2>1. Staffed(workers, busy, starting, req, fills)
    BY <1>5 DEF OpenInv
  <2> QED
    BY <1>2, <1>4, <2>1 DEF Staffed
<1>6. ASSUME OpenInv, ~closed
      PROVE  OpenInv'
  <2>1. CASE w \notin workers /\ req' = rt /\ UNCHANGED <<workers, busy, worn, closing, waiters>>
    <3>1. workers \ {w} = workers /\ bz = busy
      BY <1>2, <2>1
    <3>2. Staffed(workers, busy, starting, rt, fills)
      BY <1>5, <1>6, <3>1
    <3>3. ASSUME waiters # <<>>
          PROVE  Served(workers, rt, closing, fills)
      <4>1. Served(workers, req, closing, fills)
        BY <1>6, <3>3 DEF OpenInv
      <4>2. \A x \in workers : Held(req, x) => x \in workers /\ Held(rt, x)
        BY <1>4, <2>1
      <4> QED
        BY <4>1, <4>2, StillServed
    <3> QED
      BY <1>1, <1>6, <2>1, <3>2, <3>3 DEF OpenInv
  <2>2. CASE /\ w \in workers /\ req' = rt
             /\ workers' = workers \ {w} /\ busy' = bz
             /\ closing' = closing \cup {w} /\ UNCHANGED waiters
    <3>1. Served(workers', rt, closing', fills)
      BY <2>2 DEF Served
    <3>2. Staffed(workers', busy', starting, rt, fills)
      BY <1>5, <1>6, <2>2
    <3> QED
      BY <1>1, <1>6, <2>2, <3>1, <3>2 DEF OpenInv
  <2>3. CASE w \in workers \ worn /\ Dispatch(bz, rt)
    <3>1. PICK d \in Dispatched(workers, bz, waiters) :
            /\ workers' = d.workers /\ closing' = closing \cup d.stale
            /\ busy' = d.busy /\ waiters' = d.waiters /\ req' = Settled(rt, d)
      BY <2>3 DEF Dispatch, Discard
    <3>2. Staffed(workers, bz, starting, rt, fills)
      BY <1>5, <1>6 DEF Staffed
    <3>3. ~(workers \subseteq bz)
      BY <2>3
    <3> HIDE DEF lv
    <3>4. LeaseInv(workers, busy, worn, starting, lv, rt) /\ QueueInv(waiters, rt)
      <4>1. /\ rt \in [Requests -> Call]
            /\ \A q \in Requests : rt[q].phase = "holding" => rt[q] = req[q]
            /\ \A q \in Requests : rt[q].phase = "queued" <=> req[q].phase = "queued"
        BY <1>3
      <4>2. LeaseInv(workers, busy, worn, starting, lv, req) /\ QueueInv(waiters, req)
        BY <1>2
      <4> QED
        BY <4>1, <4>2, CallsMove
    <3>5. LeaseInv(workers, bz, worn, starting, lv, rt)
      <4>1. \A q \in Requests : rt[q].phase = "holding" => rt[q].worker # w
        BY <1>3
      <4> QED
        BY <1>2, <3>4, <4>1 DEF LeaseInv
    <3> HIDE DEF bz
    <3>6. /\ Staffed(d.workers, d.busy, starting, Settled(rt, d), fills)
          /\ d.waiters # <<>> => Served(d.workers, Settled(rt, d), closing \cup d.stale, fills)
      BY <1>6, <3>2, <3>3, <3>4, <3>5, ServeDispatch
    <3> QED
      BY <1>1, <1>6, <3>1, <3>6 DEF OpenInv
  <2> QED
    BY <1>1, <2>1, <2>2, <2>3
<1>7. trimArmed' => trimArmed \/ CanTrim
  BY <1>1
<1> QED
  BY <1>1, <1>6, <1>7 DEF ServeInv, CanTrim

\* Idle connections are retired only when nobody waits.
LEMMA ServeTrimFires ==
  ASSUME PoolInv, ServeInv, TrimFires
  PROVE  ServeInv'
<1>1. /\ trimArmed /\ trimArmed' = FALSE
      /\ UNCHANGED <<busy, starting, dying, fills, closing, waiters, req, gone, closed, failures>>
      /\ \/ UNCHANGED <<workers, worn, retiring>>
         \/ /\ waiters = <<>>
            /\ \E out \in SUBSET (workers \ busy) : workers' = workers \ out
  BY DEF TrimFires
<1>2. CanTrim
  BY <1>1 DEF ServeInv
<1>3. ASSUME OpenInv
      PROVE  OpenInv'
  <2>1. CASE UNCHANGED <<workers, worn, retiring>>
    BY <1>1, <1>3, <2>1 DEF OpenInv
  <2>2. CASE waiters = <<>> /\ \E out \in SUBSET (workers \ busy) : workers' = workers \ out
    <3>1. PICK out \in SUBSET (workers \ busy) : workers' = workers \ out
      BY <2>2
    <3>2. starting \cap workers \subseteq busy
      BY DEF PoolInv, LeaseInv
    <3>3. Staffed(workers', busy, starting, req, fills)
      BY <1>3, <3>1, <3>2 DEF OpenInv, Staffed
    <3> QED
      BY <1>1, <1>3, <2>2, <3>3 DEF OpenInv
  <2> QED
    BY <1>1, <2>1, <2>2
<1> QED
  BY <1>1, <1>2, <1>3 DEF ServeInv, CanTrim

\* The refill after a retirement stops at the warm size, below the ceiling.
LEMMA ServeRetireDone ==
  ASSUME PoolInv, ServeInv, NEW out \in retiring, RetireDone(out)
  PROVE  ServeInv'
<1>1. /\ Spawn(workers, busy, fills, warmSize, "trim", "nobody")
      /\ UNCHANGED <<worn, dying, closing, waiters, req, gone, trimArmed, closed, failures>>
  BY DEF RetireDone
<1>2. CanTrim
  BY DEF ServeInv
<1>3. warmSize \in Nat /\ warmSize \in Int /\ warmSize < poolSize /\ poolSize \in Nat
  BY <1>2, ToolPoolConstants DEF CanTrim
<1>4. PoolInv'
  BY RetireDoneStep
<1>5. ASSUME OpenInv, ~closed
      PROVE  OpenInv'
  <2>1. PICK new \in Recruits(workers, warmSize) :
          /\ workers' = workers \cup new
          /\ fills' = fills \cup (IF new = {} THEN {}
                                  ELSE {[kind |-> "trim", pending |-> new, blame |-> "nobody"]})
    BY <1>1 DEF Spawn
  <2>2. Staffed(workers, busy, starting, req, fills)
    BY <1>5 DEF OpenInv
  <2>3. Staffed(workers', busy', starting', req, fills') /\ fills \subseteq fills' /\ workers \subseteq workers'
    <3> DEFINE ws == workers
    <3>1. ws \in SUBSET workers /\ Staffed(ws, busy, starting, req, fills)
          /\ Spawn(ws, busy, fills, warmSize, "trim", "nobody")
      BY <1>1, <2>2
    <3> HIDE DEF ws
    <3>2. Staffed(workers', busy', starting', req, fills') /\ fills \subseteq fills' /\ ws \subseteq workers'
      BY <1>3, <3>1, ServeSpawn
    <3> QED
      BY <3>2 DEF ws
  <2>4. TrimsFew(fills')
    <3>1. CASE new = {}
      <4>1. fills' = fills
        BY <2>1, <3>1
      <4> QED
        BY <1>5, <4>1 DEF OpenInv
    <3>2. CASE new # {}
      <4>1. workers \subseteq Workers /\ new \subseteq Workers /\ new \cap workers = {} /\ workers' \subseteq Workers
        BY <1>4, Fresh DEF PoolInv, LeaseInv
      <4>2. /\ Cardinality(workers) \in Nat /\ Cardinality(new) \in Nat /\ Cardinality(new) # 0
            /\ IsFiniteSet(workers) /\ IsFiniteSet(new) /\ IsFiniteSet(workers') /\ Cardinality(workers') \in Nat
        BY <3>2, <4>1, Countable, FS_EmptySet
      <4>3. Cardinality(new) = AtLeast(0, AtMost(poolSize, warmSize) - Cardinality(workers))
        BY <1>5 DEF Recruits
      <4>4. AtMost(poolSize, warmSize) = warmSize
        BY <1>3 DEF AtMost
      <4>5. Cardinality(workers) + Cardinality(new) = warmSize
        BY <1>3, <4>2, <4>3, <4>4 DEF AtLeast
      <4>6. Cardinality(workers') = Cardinality(workers) + Cardinality(new) - Cardinality(workers \cap new)
        BY <2>1, <4>2, FS_Union
      <4>7. Cardinality(workers \cap new) = 0
        BY <4>1, FS_EmptySet
      <4>8. Cardinality(workers') < poolSize
        BY <1>3, <4>2, <4>5, <4>6, <4>7
      <4>9. Trimmed(fills') \subseteq workers'
        <5>1. \A f \in fills' : f.pending \subseteq starting'
          BY <1>4 DEF PoolInv, FillInv
        <5>2. starting' \subseteq workers'
          BY <2>3 DEF Staffed
        <5> QED
          BY <5>1, <5>2 DEF Trimmed, Trims
      <4>10. Cardinality(Trimmed(fills')) <= Cardinality(workers') /\ Cardinality(Trimmed(fills')) \in Nat
        <5>1. Trimmed(fills') \subseteq Workers
          BY <4>1, <4>9
        <5> QED
          BY <4>2, <4>9, <5>1, FS_Subset, Countable
      <4> QED
        BY <1>3, <4>2, <4>8, <4>10 DEF TrimsFew
    <3> QED
      BY <3>1, <3>2
  <2>5. ASSUME waiters # <<>>
        PROVE  Served(workers', req, closing, fills')
    <3>1. Served(workers, req, closing, fills)
      BY <1>5, <2>5 DEF OpenInv
    <3> QED
      BY <2>3, <3>1, StillServed
  <2> QED
    BY <1>1, <1>5, <2>3, <2>4, <2>5 DEF OpenInv
<1> QED
  BY <1>1, <1>2, <1>5 DEF ServeInv, CanTrim

\* A waiter leaves the queue, by its client or its timer.
LEMMA ServeWaiterGoes ==
  ASSUME PoolInv, OpenInv, NEW r \in Requests, req[r].phase = "queued",
         waiters' = Removed(r), req' = [req EXCEPT ![r] = Done], UNCHANGED poolVars
  PROVE  OpenInv'
<1>1. req \in [Requests -> Call] /\ Waiting(r)
  BY WaitingQueued DEF PoolInv, LeaseInv
<1>2. waiters # <<>>
  BY <1>1 DEF Waiting
<1>3. \A w : Held(req, w) => Held(req', w)
  BY <1>1, OthersHold
<1>4. Staffed(workers, busy, starting, req', fills)
  BY <1>3, StaffedByOthers DEF OpenInv
<1>5. Served(workers, req', closing, fills)
  <2>1. Served(workers, req, closing, fills)
    BY <1>2 DEF OpenInv
  <2>2. \A w \in workers : Held(req, w) => w \in workers /\ Held(req', w)
    BY <1>3
  <2> QED
    BY <2>1, <2>2, StillServed
<1> QED
  BY <1>4, <1>5 DEF OpenInv, poolVars

\* The client of a waiting call leaves, or its timer fires.
LEMMA ServeClientLeaves ==
  ASSUME PoolInv, ServeInv, NEW r \in Requests, ClientLeaves(r) \/ QueueTimeout(r)
  PROVE  ServeInv'
<1>1. UNCHANGED <<poolVars, trimArmed, closed, failures>>
  BY DEF ClientLeaves, QueueTimeout
<1>2. ASSUME OpenInv
      PROVE  OpenInv'
  <2>1. CASE UNCHANGED <<waiters, req>>
    BY <1>1, <1>2, <2>1 DEF OpenInv, poolVars
  <2>2. CASE req[r].phase = "queued" /\ waiters' = Removed(r) /\ req' = [req EXCEPT ![r] = Done]
    BY <1>1, <1>2, <2>2, ServeWaiterGoes
  <2> QED
    BY <2>1, <2>2 DEF ClientLeaves, QueueTimeout
<1> QED
  BY <1>1, <1>2 DEF ServeInv, CanTrim, poolVars

\* Nobody waits at first.
LEMMA ServeInit ==
  ASSUME Init
  PROVE  ServeInv
<1>1. Trimmed(fills) = {}
  BY DEF Init, Trimmed, Trims
<1>2. TrimsFew(fills)
  BY <1>1, FS_EmptySet, ToolPoolConstants DEF TrimsFew
<1>3. OpenInv
  BY <1>2 DEF OpenInv, Init, Staffed
<1> QED
  BY <1>3 DEF ServeInv, Init

\* Every step keeps the queue served.
LEMMA ServeNext ==
  ASSUME PoolInv, ServeInv, [Next]_vars
  PROVE  ServeInv'
<1>1. CASE Next
  <2>1. ASSUME NEW w \in Workers, WearOut(w)
        PROVE  ServeInv'
    BY <2>1 DEF WearOut, ServeInv, OpenInv, CanTrim
  <2>2. CASE Close
    BY <2>2 DEF Close, ServeInv, CanTrim
  <2> QED
    BY <1>1, <2>1, <2>2, ServePrime, ServeAcquire, ServeTryAcquire, ServePrimed, ServeRelease,
       ServeTrimFires, ServeRetireDone, ServeClientLeaves, ServeWorkerReady, ServeWorkerFails,
       ServeFailureReported, ServeDiscardDone DEF Next
<1>2. CASE UNCHANGED vars
  BY <1>2 DEF ServeInv, OpenInv, CanTrim, vars, poolVars
<1> QED
  BY <1>1, <1>2

\* A queue in an open pool has something that will dispatch it, until a start
\* fails: dispatches happen when a lease, a fill or a discard ends, and one of
\* them is always to come.
THEOREM QueueServed == Spec => []QueueHasServer
<1>1. Init => PoolInv /\ ServeInv
  BY PoolInit, ServeInit
<1>2. PoolInv /\ ServeInv /\ [Next]_vars => (PoolInv /\ ServeInv)'
  BY PoolNext, ServeNext
<1>3. PoolInv /\ ServeInv => QueueHasServer
  <2> SUFFICES ASSUME PoolInv, ServeInv, waiters # <<>>, ~closed, failures = 0
               PROVE  \/ Leased \cap workers # {} \/ closing # {}
                      \/ \E f \in fills : f.kind # "trim"
    BY DEF QueueHasServer
  <2>1. Served(workers, req, closing, fills)
    BY DEF ServeInv, OpenInv
  <2>2. ASSUME NEW w \in workers, Held(req, w)
        PROVE  Leased \cap workers # {}
    BY <2>2 DEF Held, Leased
  <2> QED
    BY <2>1, <2>2 DEF Served
<1> QED
  BY <1>1, <1>2, <1>3, PTL DEF Spec

==============================================================================

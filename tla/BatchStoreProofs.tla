-------------------------- MODULE BatchStoreProofs --------------------------
(***************************************************************************)
(* Theorems about BatchStore, for every number of jobs, items and slots,   *)
(* and any number of crashes and restarts.                                 *)
(***************************************************************************)
EXTENDS BatchStore, FiniteSetTheorems, FunctionTheorems, TLAPS

\* A job that was accepted.
Job == [status : ItemStatus, item : ItemLists]

\* A record of a job whose items are settled before it is completed or failed.
Proper ==
  {x \in JobRecord :
     x.status \in {"completed", "failed"} => \A i \in DOMAIN x.item : x.item[i] # "in_progress"}

\* A run that waits for another attempt has one left.
ProperRun == {r \in Run : r.state = "sleeping" => TriesAgain(r)}

\* The types of a state, and what memory and files agree on.
Shape(o, kn, rn, dk, dt, c) ==
  /\ o \in [Jobs -> Proper] /\ dk \in [Jobs -> Proper]
  /\ c \in 0..JobBound /\ kn \subseteq 1..c /\ dt \subseteq Jobs
  /\ rn \subseteq ProperRun
  /\ \A j \in kn : o[j] # NoJob
  /\ \A j \in Jobs : j > c => o[j] = NoJob /\ dk[j] = NoJob

\* At most as many runs as slots.
Slots(rn) == IsFiniteSet(rn) /\ Cardinality(rn) <= concurrency

\* The item of a run is in progress.
RunsItem(o, r) ==
  /\ o[r.job] # NoJob /\ r.item \in DOMAIN o[r.job].item
  /\ o[r.job].item[r.item] = "in_progress"

\* ExecutionAccounted, with the items there are.
Accounted(o, kn, rn) ==
  /\ \A r, q \in rn : r.job = q.job /\ r.item = q.item => r = q
  /\ \A r \in rn : RunsItem(o, r)
  /\ \A j \in kn : \A i \in DOMAIN o[j].item :
       o[j].item[i] = "in_progress" =>
         o[j].status = "cancelled" \/ \E r \in rn : r.job = j /\ r.item = i

\* SavedOrDirty.
Saved(o, kn, dk, dt) == \A j \in kn \ dt : Reloaded(dk[j]) = Reloaded(o[j])

Good(o, kn, rn, dk, dt, c) ==
  /\ Shape(o, kn, rn, dk, dt, c) /\ Slots(rn)
  /\ Accounted(o, kn, rn) /\ Saved(o, kn, dk, dt)

BatchInv ==
  /\ Good(obj, known, runs, disk, dirty, created)
  /\ phase \in {"up", "closing", "down"} /\ stops \in 0..MaxStops

-----------------------------------------------------------------------------
(***************************************************************************)
(* Counting.                                                               *)
(***************************************************************************)
\* The values of a function on a finite set are no more than its arguments.
LEMMA ImageSmaller ==
  ASSUME NEW S, IsFiniteSet(S), NEW f, f \in [S -> {f[x] : x \in S}]
  PROVE  IsFiniteSet({f[x] : x \in S}) /\ Cardinality({f[x] : x \in S}) <= Cardinality(S)
<1>1. f \in Surjection(S, {f[x] : x \in S})
  BY DEF Surjection
<1> QED
  BY <1>1, FS_Surjection

\* The pump picks queued items, no more than there are free slots.
LEMMA PickedBounded ==
  ASSUME NEW o, NEW kn \in SUBSET Jobs, NEW rn, Free(rn) \in Nat, NEW ps \in Picked(o, kn, rn)
  PROVE  IsFiniteSet(ps) /\ Cardinality(ps) <= Free(rn)
<1> DEFINE Q == Queued(o, kn)
<1>1. IsFiniteSet(Jobs) /\ IsFiniteSet(1..maxRequests)
  BY FS_Interval, BatchConstants DEF Jobs
<1>2. IsFiniteSet(Jobs \X (1..maxRequests)) /\ Q \subseteq Jobs \X (1..maxRequests)
  BY <1>1, FS_Product DEF Queued
<1>3. IsFiniteSet(Q)
  BY <1>2, FS_Subset
<1>4. ps \subseteq Q /\ Cardinality(ps) <= Free(rn)
  BY DEF Picked
<1> QED
  BY <1>3, <1>4, FS_Subset

\* The runs that the pump starts are one for each item it picks.
LEMMA NewRunsBounded ==
  ASSUME NEW ps, IsFiniteSet(ps)
  PROVE  IsFiniteSet(NewRuns(ps)) /\ Cardinality(NewRuns(ps)) <= Cardinality(ps)
<1> DEFINE f == [p \in ps |-> [job |-> p[1], item |-> p[2], attempt |-> 1,
                                state |-> "executing", aborted |-> FALSE]]
<1>1. NewRuns(ps) = {f[p] : p \in ps}
  BY DEF NewRuns
<1>2. f \in [ps -> {f[p] : p \in ps}]
  OBVIOUS
<1> HIDE DEF f
<1> QED
  BY <1>1, <1>2, ImageSmaller

\* With the runs that the pump adds, all slots are taken at most.
LEMMA PumpSlots ==
  ASSUME NEW o, NEW kn \in SUBSET Jobs, NEW rn, Slots(rn), NEW ps,
         ps = {} \/ ps \in Picked(o, kn, rn)
  PROVE  Slots(rn \cup NewRuns(ps))
<1>1. Cardinality(rn) \in Nat /\ concurrency \in Nat /\ Free(rn) \in Nat /\ IsFiniteSet(rn)
      /\ Free(rn) = concurrency - Cardinality(rn)
  BY FS_CardinalityType, BatchConstants DEF Slots, Free
<1>2. IsFiniteSet(ps) /\ Cardinality(ps) <= Free(rn)
  <2>1. CASE ps = {}
    BY <1>1, <2>1, FS_EmptySet
  <2>2. CASE ps \in Picked(o, kn, rn)
    BY <1>1, <2>2, PickedBounded
  <2> QED
    BY <2>1, <2>2
<1>3. IsFiniteSet(NewRuns(ps)) /\ Cardinality(NewRuns(ps)) <= Cardinality(ps)
  BY <1>2, NewRunsBounded
<1>4. /\ IsFiniteSet(rn \cup NewRuns(ps)) /\ IsFiniteSet(rn \cap NewRuns(ps))
      /\ Cardinality(rn \cup NewRuns(ps)) =
           Cardinality(rn) + Cardinality(NewRuns(ps)) - Cardinality(rn \cap NewRuns(ps))
  BY <1>1, <1>3, FS_Union, FS_Subset
<1>5. /\ Cardinality(ps) \in Nat /\ Cardinality(NewRuns(ps)) \in Nat
      /\ Cardinality(rn \cap NewRuns(ps)) \in Nat /\ Cardinality(rn \cup NewRuns(ps)) \in Nat
  BY <1>2, <1>3, <1>4, FS_CardinalityType
<1>6. Cardinality(rn \cup NewRuns(ps)) <= concurrency
  BY <1>1, <1>2, <1>3, <1>4, <1>5
<1> QED
  BY <1>4, <1>6 DEF Slots

\* Fewer runs, or other runs in their place, take no more slots.
LEMMA SlotsImage ==
  ASSUME NEW rn, Slots(rn), NEW f, f \in [rn -> {f[r] : r \in rn}]
  PROVE  Slots({f[r] : r \in rn})
<1>1. IsFiniteSet({f[r] : r \in rn}) /\ Cardinality({f[r] : r \in rn}) <= Cardinality(rn)
  BY ImageSmaller DEF Slots
<1>2. Cardinality({f[r] : r \in rn}) \in Nat /\ Cardinality(rn) \in Nat
  BY <1>1, FS_CardinalityType DEF Slots
<1> QED
  BY <1>1, <1>2, BatchConstants DEF Slots

\* Fewer runs take no more slots.
LEMMA SlotsFewer ==
  ASSUME NEW rn, Slots(rn), NEW less \in SUBSET rn
  PROVE  Slots(less)
<1>1. IsFiniteSet(less) /\ Cardinality(less) <= Cardinality(rn)
  BY FS_Subset DEF Slots
<1>2. Cardinality(less) \in Nat /\ Cardinality(rn) \in Nat
  BY <1>1, FS_CardinalityType DEF Slots
<1> QED
  BY <1>1, <1>2, BatchConstants DEF Slots

\* A run in the place of another takes no slot more.
LEMMA SlotsOther ==
  ASSUME NEW rn, Slots(rn), NEW r \in rn, NEW q
  PROVE  Slots((rn \ {r}) \cup {q})
<1>1. IsFiniteSet(rn \ {r}) /\ Cardinality(rn \ {r}) = Cardinality(rn) - 1
  BY FS_RemoveElement DEF Slots
<1>2. /\ IsFiniteSet((rn \ {r}) \cup {q})
      /\ Cardinality((rn \ {r}) \cup {q}) =
           IF q \in rn \ {r} THEN Cardinality(rn \ {r}) ELSE Cardinality(rn \ {r}) + 1
  BY <1>1, FS_AddElement
<1>3. Cardinality(rn) \in Nat
  BY FS_CardinalityType DEF Slots
<1> QED
  BY <1>1, <1>2, <1>3, BatchConstants DEF Slots

-----------------------------------------------------------------------------
(***************************************************************************)
(* Records of jobs.                                                        *)
(***************************************************************************)
\* A record is a job, or none.
LEMMA JobOrNone ==
  ASSUME NEW x \in JobRecord
  PROVE  IF x = NoJob THEN x.status = "none" ELSE x \in Job /\ x.status # "none"
BY DEF JobRecord, Job, NoJob, ItemStatus

\* The items of a job are numbered from one, and settled one by one.
LEMMA ItemsType ==
  ASSUME NEW it \in ItemLists
  PROVE  /\ it \in [DOMAIN it -> ItemStatus]
         /\ DOMAIN it \subseteq 1..maxRequests
         /\ \A g \in [DOMAIN it -> ItemStatus] : g \in ItemLists
<1>1. PICK n \in 1..maxRequests : it \in [1..n -> ItemStatus]
  BY DEF ItemLists
<1>2. DOMAIN it = 1..n
  BY <1>1
<1>3. ASSUME NEW g \in [DOMAIN it -> ItemStatus] PROVE g \in ItemLists
  BY <1>2 DEF ItemLists
<1>4. 1..n \subseteq 1..maxRequests
  BY BatchConstants
<1> QED
  BY <1>1, <1>2, <1>3, <1>4

\* A job with other items and another status.
LEMMA JobMade ==
  ASSUME NEW x \in Job, NEW st \in ItemStatus, NEW g \in [DOMAIN x.item -> ItemStatus],
         st \in {"completed", "failed"} => \A i \in DOMAIN x.item : g[i] # "in_progress"
  PROVE  [status |-> st, item |-> g] \in Proper /\ [status |-> st, item |-> g] # NoJob
<1>1. g \in ItemLists /\ DOMAIN g = DOMAIN x.item
  BY ItemsType DEF Job
<1>2. [status |-> st, item |-> g] \in Job /\ [status |-> st, item |-> g] \in JobRecord
  BY <1>1 DEF Job, JobRecord
<1>3. [status |-> st, item |-> g] # NoJob
  BY DEF NoJob, ItemStatus
<1> QED
  BY <1>1, <1>2, <1>3 DEF Proper

\* What the pump launches.
LEMMA LaunchedProps ==
  ASSUME NEW o \in [Jobs -> Proper], NEW kn \in SUBSET Jobs, NEW ps \in SUBSET Queued(o, kn),
         \A j \in kn : o[j] # NoJob, NEW j \in Jobs
  PROVE  LET u == Launched(o, ps)[j] IN
         /\ u \in Proper /\ (u = NoJob <=> o[j] = NoJob)
         /\ DOMAIN u.item = DOMAIN o[j].item
         /\ \A i \in DOMAIN o[j].item :
              u.item[i] = IF <<j, i>> \in ps THEN "in_progress" ELSE o[j].item[i]
         /\ j \notin JobsOf(ps) => u = o[j]
         /\ j \in JobsOf(ps) => j \in kn /\ o[j].status \notin Terminal
<1>1. \A p \in ps : /\ p = <<p[1], p[2]>> /\ p[1] \in kn /\ o[p[1]].status \notin Terminal
                    /\ p[2] \in DOMAIN o[p[1]].item /\ o[p[1]].item[p[2]] = "queued"
  BY DEF Queued
<1>2. CASE j \in JobsOf(ps)
  <2> DEFINE g == [i \in DOMAIN o[j].item |->
                     IF <<j, i>> \in ps THEN "in_progress" ELSE o[j].item[i]]
  <2>1. j \in kn /\ o[j].status \notin Terminal
    BY <1>1, <1>2 DEF JobsOf
  <2>2. o[j] \in Job
    BY <2>1, JobOrNone DEF Proper
  <2>3. g \in [DOMAIN o[j].item -> ItemStatus]
    BY <2>2, ItemsType DEF ItemStatus, Job
  <2>4. Launched(o, ps)[j] = [status |-> "in_progress", item |-> g]
    BY <1>2 DEF Launched
  <2> HIDE DEF g
  <2>5. Launched(o, ps)[j] \in Proper /\ Launched(o, ps)[j] # NoJob
    BY <2>2, <2>3, <2>4, JobMade DEF ItemStatus
  <2>6. Launched(o, ps)[j].item = g
    BY <2>4
  <2> QED
    BY <1>2, <2>1, <2>3, <2>5, <2>6 DEF g
<1>3. CASE j \notin JobsOf(ps)
  <2>1. Launched(o, ps)[j] = o[j]
    BY <1>3 DEF Launched
  <2>2. \A i : <<j, i>> \notin ps
    BY <1>3 DEF JobsOf
  <2> QED
    BY <1>3, <2>1, <2>2
<1> QED
  BY <1>2, <1>3

\* The pump keeps what its caller left good.
LEMMA PumpGood ==
  ASSUME NEW o, NEW kn, NEW rn, NEW dk, NEW dt, NEW c,
         Good(o, kn, rn, dk, dt, c), Pump(o, kn, rn, dt)
  PROVE  Good(obj', known', runs', dk, dirty', c)
<1>1. PICK ps \in (IF phase = "closing" THEN {{}} ELSE Picked(o, kn, rn)) :
        /\ obj' = Launched(o, ps) /\ known' = kn /\ runs' = rn \cup NewRuns(ps)
        /\ dirty' = dt \cup JobsOf(ps)
  BY DEF Pump
<1>2. (ps = {} \/ ps \in Picked(o, kn, rn)) /\ ps \subseteq Queued(o, kn)
  BY <1>1 DEF Picked
<1>3. /\ o \in [Jobs -> Proper] /\ kn \subseteq Jobs /\ \A j \in kn : o[j] # NoJob
      /\ dt \subseteq Jobs /\ rn \subseteq ProperRun /\ rn \subseteq Run /\ c \in 0..JobBound
  BY BatchConstants DEF Good, Shape, Jobs, ProperRun
<1>4. ASSUME NEW j \in Jobs
      PROVE  /\ obj'[j] \in Proper /\ (obj'[j] = NoJob <=> o[j] = NoJob)
             /\ DOMAIN obj'[j].item = DOMAIN o[j].item
             /\ \A i \in DOMAIN o[j].item :
                  obj'[j].item[i] = IF <<j, i>> \in ps THEN "in_progress" ELSE o[j].item[i]
             /\ j \notin JobsOf(ps) => obj'[j] = o[j]
             /\ j \in JobsOf(ps) => j \in kn /\ o[j].status \notin Terminal
  BY <1>1, <1>2, <1>3, LaunchedProps
<1>5. \A p \in ps : /\ p = <<p[1], p[2]>> /\ p[1] \in kn /\ p[2] \in 1..maxRequests
                    /\ p[2] \in DOMAIN o[p[1]].item /\ o[p[1]].item[p[2]] = "queued"
  BY <1>2 DEF Queued
<1>6. Shape(obj', known', runs', dk, dirty', c)
  <2>1. obj' \in [Jobs -> Proper]
    BY <1>1, <1>4 DEF Launched
  <2>2. NewRuns(ps) \subseteq ProperRun
    <3>1. ASSUME NEW p \in ps
          PROVE  [job |-> p[1], item |-> p[2], attempt |-> 1, state |-> "executing",
                  aborted |-> FALSE] \in ProperRun
      <4>1. p[1] \in Jobs /\ p[2] \in 1..maxRequests /\ 1 \in 1..MaxAttempts
        BY <1>3, <1>5 DEF MaxAttempts
      <4> QED
        BY <4>1 DEF Run, ProperRun
    <3> QED
      BY <3>1 DEF NewRuns
  <2>3. JobsOf(ps) \subseteq Jobs
    BY <1>3, <1>5 DEF JobsOf
  <2> QED
    BY <1>1, <1>3, <1>4, <2>1, <2>2, <2>3 DEF Good, Shape
<1>7. Slots(runs')
  BY <1>1, <1>2, <1>3, PumpSlots DEF Good
<1>8. Accounted(obj', known', runs')
  <2>1. ASSUME NEW q \in NewRuns(ps)
        PROVE  /\ <<q.job, q.item>> \in ps /\ q.job \in kn
               /\ q.item \in DOMAIN o[q.job].item /\ o[q.job].item[q.item] = "queued"
               /\ q = [job |-> q.job, item |-> q.item, attempt |-> 1, state |-> "executing",
                       aborted |-> FALSE]
    BY <1>5 DEF NewRuns
  <2>2. ASSUME NEW r \in rn
        PROVE  r.job \in Jobs /\ RunsItem(o, r)
    BY <1>3 DEF Good, Accounted, Run
  <2>3. ASSUME NEW r \in runs', NEW q \in runs', r.job = q.job, r.item = q.item PROVE r = q
    <3>1. CASE r \in rn /\ q \in rn
      BY <2>3, <3>1 DEF Good, Accounted
    <3>2. CASE r \in NewRuns(ps) /\ q \in NewRuns(ps)
      BY <2>1, <2>3, <3>2
    <3>3. CASE r \in rn /\ q \in NewRuns(ps)
      BY <2>1, <2>2, <2>3, <3>3 DEF RunsItem
    <3>4. CASE r \in NewRuns(ps) /\ q \in rn
      BY <2>1, <2>2, <2>3, <3>4 DEF RunsItem
    <3> QED
      BY <1>1, <3>1, <3>2, <3>3, <3>4
  <2>4. ASSUME NEW r \in runs' PROVE RunsItem(obj', r)
    <3>1. CASE r \in rn
      BY <1>4, <2>2, <3>1 DEF RunsItem
    <3>2. CASE r \in NewRuns(ps)
      BY <1>3, <1>4, <2>1, <3>2 DEF RunsItem
    <3> QED
      BY <1>1, <3>1, <3>2
  <2>5. ASSUME NEW j \in known', NEW i \in DOMAIN obj'[j].item, obj'[j].item[i] = "in_progress"
        PROVE  obj'[j].status = "cancelled" \/ \E r \in runs' : r.job = j /\ r.item = i
    <3>1. j \in Jobs /\ j \in kn /\ i \in DOMAIN o[j].item
      BY <1>1, <1>3, <1>4, <2>5
    <3>2. CASE <<j, i>> \in ps
      <4> DEFINE p == <<j, i>>
      <4>0. p \in ps /\ p[1] = j /\ p[2] = i
        BY <3>2
      <4> HIDE DEF p
      <4>1. [job |-> j, item |-> i, attempt |-> 1, state |-> "executing", aborted |-> FALSE] \in NewRuns(ps)
        BY <4>0 DEF NewRuns
      <4> QED
        BY <1>1, <4>1
    <3>3. CASE <<j, i>> \notin ps
      <4>1. o[j].status = "cancelled" \/ \E r \in rn : r.job = j /\ r.item = i
        BY <1>4, <2>5, <3>1, <3>3 DEF Good, Accounted
      <4> QED
        BY <1>1, <1>4, <3>1, <4>1 DEF Terminal
    <3> QED
      BY <3>2, <3>3
  <2> QED
    BY <2>3, <2>4, <2>5 DEF Accounted
<1>9. Saved(obj', known', dk, dirty')
  BY <1>1, <1>3, <1>4 DEF Good, Saved
<1> QED
  BY <1>6, <1>7, <1>8, <1>9 DEF Good

-----------------------------------------------------------------------------
(***************************************************************************)
(* What the callers of the pump do before.                                 *)
(***************************************************************************)
LEMMA NoJobProper == NoJob \in Proper /\ DOMAIN NoJob.item = {} /\ NoJob.status = "none"
<1>1. DOMAIN <<>> = {}
  OBVIOUS
<1> QED
  BY <1>1 DEF Proper, JobRecord, NoJob

\* Removed jobs leave #jobs, their files and their timers go; objects stay as
\* long as they run.
LEMMA ForgetGood ==
  ASSUME BatchInv, NEW gone \in SUBSET known
  PROVE  Good(Forget(obj, gone, runs), known \ gone, runs, Without(disk, gone), dirty \ gone, created)
<1> DEFINE o == Forget(obj, gone, runs)
           dk == Without(disk, gone)
<1>1. /\ obj \in [Jobs -> Proper] /\ disk \in [Jobs -> Proper] /\ runs \subseteq Run
      /\ known \subseteq 1..created /\ created \in 0..JobBound /\ dirty \subseteq Jobs
  BY DEF BatchInv, Good, Shape, ProperRun
<1>2. \A j \in Jobs : /\ o[j] = obj[j] \/ (o[j] = NoJob /\ j \in gone /\ \A r \in runs : r.job # j)
                      /\ dk[j] = IF j \in gone THEN NoJob ELSE disk[j]
  BY DEF Forget, Without
<1>3. o \in [Jobs -> Proper] /\ dk \in [Jobs -> Proper]
  BY <1>1, NoJobProper DEF Forget, Without
<1>4. \A r \in runs : r.job \in Jobs
  BY <1>1 DEF Run
<1> HIDE DEF o, dk
<1>5. known \subseteq Jobs
  BY <1>1, BatchConstants DEF Jobs
<1>6. Shape(o, known \ gone, runs, dk, dirty \ gone, created)
  BY <1>1, <1>2, <1>3, <1>5 DEF BatchInv, Good, Shape
<1>7. Accounted(o, known \ gone, runs)
  <2>1. ASSUME NEW r \in runs PROVE RunsItem(o, r)
    <3>1. o[r.job] = obj[r.job]
      BY <1>2, <1>4
    <3> QED
      BY <3>1 DEF BatchInv, Good, Accounted, RunsItem
  <2>2. \A j \in known \ gone : o[j] = obj[j]
    BY <1>2, <1>5
  <2> QED
    BY <2>1, <2>2 DEF BatchInv, Good, Accounted
<1>8. Saved(o, known \ gone, dk, dirty \ gone)
  BY <1>2, <1>5 DEF BatchInv, Good, Saved
<1> QED
  BY <1>6, <1>7, <1>8 DEF BatchInv, Good, o, dk

\* An accepted job is saved before it is shown.
LEMMA AddGood ==
  ASSUME NEW o, NEW kn, NEW rn, NEW dk, NEW dt, NEW c, Good(o, kn, rn, dk, dt, c),
         c < JobBound, NEW new \in Proper, new # NoJob,
         \A i \in DOMAIN new.item : new.item[i] = "queued"
  PROVE  Good([o EXCEPT ![c + 1] = new], kn \cup {c + 1}, rn, [dk EXCEPT ![c + 1] = new], dt, c + 1)
<1> DEFINE j == c + 1
           p == [o EXCEPT ![j] = new]
           d == [dk EXCEPT ![j] = new]
<1>1. /\ o \in [Jobs -> Proper] /\ dk \in [Jobs -> Proper] /\ rn \subseteq Run
      /\ kn \subseteq 1..c /\ c \in 0..JobBound /\ dt \subseteq Jobs /\ JobBound \in Nat
  BY BatchConstants DEF Good, Shape, ProperRun
<1>2. j \in Jobs /\ j \in 1..j /\ 1..c \subseteq 1..j /\ j \notin kn /\ j \in 0..JobBound
      /\ kn \subseteq Jobs /\ j > c
  BY <1>1 DEF Jobs
<1>3. /\ p \in [Jobs -> Proper] /\ p[j] = new /\ d \in [Jobs -> Proper] /\ d[j] = new
      /\ \A x \in Jobs : x # j => p[x] = o[x] /\ d[x] = dk[x]
  BY <1>1, <1>2
<1>4. o[j] = NoJob /\ dk[j] = NoJob
  BY <1>2 DEF Good, Shape
<1>5. \A x \in Jobs : x > j => x > c /\ x # j
  BY <1>1 DEF Jobs
<1> HIDE DEF j, p, d
<1>6. Shape(p, kn \cup {j}, rn, d, dt, j)
  BY <1>1, <1>2, <1>3, <1>5 DEF Good, Shape
<1>7. Accounted(p, kn \cup {j}, rn)
  <2>1. ASSUME NEW r \in rn PROVE RunsItem(p, r)
    <3>1. r.job \in Jobs /\ RunsItem(o, r)
      BY <1>1 DEF Good, Accounted, Run
    <3>2. p[r.job] = o[r.job]
      BY <1>3, <1>4, <3>1 DEF RunsItem
    <3> QED
      BY <3>1, <3>2 DEF RunsItem
  <2>2. ASSUME NEW x \in kn \cup {j}, NEW i \in DOMAIN p[x].item, p[x].item[i] = "in_progress"
        PROVE  p[x].status = "cancelled" \/ \E r \in rn : r.job = x /\ r.item = i
    <3>1. x # j
      BY <1>3, <2>2
    <3>2. x \in kn /\ p[x] = o[x]
      BY <1>2, <1>3, <3>1
    <3> QED
      BY <2>2, <3>2 DEF Good, Accounted
  <2> QED
    BY <2>1, <2>2 DEF Good, Accounted
<1>8. Saved(p, kn \cup {j}, d, dt)
  <2>1. ASSUME NEW x \in (kn \cup {j}) \ dt PROVE Reloaded(d[x]) = Reloaded(p[x])
    <3>1. CASE x = j
      BY <1>3, <3>1
    <3>2. CASE x # j
      BY <1>2, <1>3, <3>2 DEF Good, Saved
    <3> QED
      BY <3>1, <3>2
  <2> QED
    BY <2>1 DEF Saved
<1>9. Good(p, kn \cup {j}, rn, d, dt, j)
  BY <1>6, <1>7, <1>8 DEF Good
<1> QED
  BY <1>9 DEF j, p, d

\* Aborting runs changes neither their jobs nor their items.
LEMMA AbortedGood ==
  ASSUME NEW o, NEW kn, NEW rn, NEW dk, NEW dt, NEW c, Good(o, kn, rn, dk, dt, c), NEW js
  PROVE  Good(o, kn, Aborted(rn, js), dk, dt, c)
<1> DEFINE f == [r \in rn |-> [r EXCEPT !.aborted = @ \/ r.job \in js]]
<1>1. rn \subseteq ProperRun
  BY DEF Good, Shape
<1>2. Aborted(rn, js) = {f[r] : r \in rn}
  BY DEF Aborted
<1>3. ASSUME NEW r \in rn PROVE f[r] \in ProperRun /\ f[r].job = r.job /\ f[r].item = r.item
  <2>1. r \in Run /\ (r.state = "sleeping" => TriesAgain(r)) /\ (r.aborted \/ r.job \in js) \in BOOLEAN
    BY <1>1 DEF ProperRun
  <2>2. f[r] = [r EXCEPT !.aborted = @ \/ r.job \in js]
    OBVIOUS
  <2> HIDE DEF f
  <2>3. /\ f[r] \in Run /\ f[r].job = r.job /\ f[r].item = r.item
        /\ f[r].state = r.state /\ f[r].attempt = r.attempt
    BY <2>1, <2>2 DEF Run
  <2> QED
    BY <2>1, <2>3 DEF ProperRun, TriesAgain
<1>4. f \in [rn -> {f[r] : r \in rn}]
  OBVIOUS
<1> HIDE DEF f
<1>5. Slots(Aborted(rn, js))
  BY <1>2, <1>4, SlotsImage DEF Good
<1>6. Accounted(o, kn, Aborted(rn, js))
  <2>1. ASSUME NEW a \in Aborted(rn, js), NEW b \in Aborted(rn, js), a.job = b.job, a.item = b.item
        PROVE  a = b
    <3>1. PICK r \in rn, q \in rn : a = f[r] /\ b = f[q]
      BY <1>2
    <3>2. r = q
      BY <1>3, <2>1, <3>1 DEF Good, Accounted
    <3> QED
      BY <3>1, <3>2
  <2>2. ASSUME NEW a \in Aborted(rn, js) PROVE RunsItem(o, a)
    <3>1. PICK r \in rn : a = f[r]
      BY <1>2
    <3> QED
      BY <1>3, <3>1 DEF Good, Accounted, RunsItem
  <2>3. ASSUME NEW r \in rn PROVE \E a \in Aborted(rn, js) : a.job = r.job /\ a.item = r.item
    BY <1>2, <1>3
  <2>4. ASSUME NEW j \in kn, NEW i \in DOMAIN o[j].item, o[j].item[i] = "in_progress"
        PROVE  o[j].status = "cancelled" \/ \E a \in Aborted(rn, js) : a.job = j /\ a.item = i
    <3>1. o[j].status = "cancelled" \/ \E r \in rn : r.job = j /\ r.item = i
      BY <2>4 DEF Good, Accounted
    <3> QED
      BY <2>3, <3>1
  <2> QED
    BY <2>1, <2>2, <2>4 DEF Accounted
<1>7. Aborted(rn, js) \subseteq ProperRun
  BY <1>2, <1>3
<1>8. Shape(o, kn, Aborted(rn, js), dk, dt, c)
  BY <1>7 DEF Good, Shape
<1> QED
  BY <1>5, <1>6, <1>8 DEF Good

\* A run in the place of another, of the same item.
LEMMA OtherRunGood ==
  ASSUME NEW o, NEW kn, NEW rn, NEW dk, NEW dt, NEW c, Good(o, kn, rn, dk, dt, c),
         NEW r \in rn, NEW q \in ProperRun, q.job = r.job, q.item = r.item
  PROVE  Good(o, kn, (rn \ {r}) \cup {q}, dk, dt, c)
<1> DEFINE rq == (rn \ {r}) \cup {q}
<1>1. Slots(rq)
  BY SlotsOther DEF Good
<1>3. Accounted(o, kn, rq)
  <2>1. ASSUME NEW a \in rq, NEW b \in rq, a.job = b.job, a.item = b.item PROVE a = b
    <3>1. CASE a \in rn \ {r} /\ b \in rn \ {r}
      BY <2>1, <3>1 DEF Good, Accounted
    <3>2. CASE a = q /\ b = q
      BY <3>2
    <3>3. CASE a = q /\ b \in rn \ {r}
      BY <2>1, <3>3 DEF Good, Accounted
    <3>4. CASE b = q /\ a \in rn \ {r}
      BY <2>1, <3>4 DEF Good, Accounted
    <3> QED
      BY <3>1, <3>2, <3>3, <3>4
  <2>2. \A a \in rq : RunsItem(o, a)
    BY DEF Good, Accounted, RunsItem
  <2>3. ASSUME NEW j \in kn, NEW i \in DOMAIN o[j].item, o[j].item[i] = "in_progress"
        PROVE  o[j].status = "cancelled" \/ \E a \in rq : a.job = j /\ a.item = i
    BY <2>3 DEF Good, Accounted
  <2> HIDE DEF rq
  <2> QED
    BY <2>1, <2>2, <2>3 DEF Accounted
<1>4. Shape(o, kn, rq, dk, dt, c)
  BY DEF Good, Shape
<1> QED
  BY <1>1, <1>3, <1>4 DEF Good

-----------------------------------------------------------------------------
(***************************************************************************)
(* Every action preserves the invariant.                                   *)
(***************************************************************************)
LEMMA CreateStep ==
  ASSUME BatchInv, NEW n \in 1..maxRequests, Create(n)
  PROVE  BatchInv'
<1> DEFINE j == created + 1
           new == [status |-> "queued", item |-> [i \in 1..n |-> "queued"]]
<1>1. PICK gone \in Prunable(obj, known, TRUE) :
        \/ /\ Cardinality(known \ gone) >= maxJobs
           /\ obj' = Forget(obj, gone, runs) /\ known' = known \ gone
           /\ disk' = Without(disk, gone) /\ dirty' = dirty \ gone
           /\ UNCHANGED <<runs, created>>
        \/ /\ Cardinality(known \ gone) < maxJobs /\ created < JobBound
           /\ created' = j /\ disk' = [Without(disk, gone) EXCEPT ![j] = new]
           /\ Pump([Forget(obj, gone, runs) EXCEPT ![j] = new], (known \ gone) \cup {j}, runs, dirty \ gone)
  BY DEF Create
<1>2. gone \subseteq known
  BY DEF Prunable, Finished
<1>3. Good(Forget(obj, gone, runs), known \ gone, runs, Without(disk, gone), dirty \ gone, created)
  BY <1>2, ForgetGood
<1>4. new \in Proper /\ new # NoJob /\ \A i \in DOMAIN new.item : new.item[i] = "queued"
  <2>1. [i \in 1..n |-> "queued"] \in ItemLists
    BY DEF ItemLists, ItemStatus
  <2>2. new \in JobRecord
    BY <2>1 DEF JobRecord, ItemStatus
  <2> QED
    BY <2>2 DEF Proper, NoJob
<1>5. Good(obj', known', runs', disk', dirty', created')
  <2>1. CASE /\ obj' = Forget(obj, gone, runs) /\ known' = known \ gone
             /\ disk' = Without(disk, gone) /\ dirty' = dirty \ gone
             /\ UNCHANGED <<runs, created>>
    BY <1>3, <2>1
  <2>2. CASE /\ created < JobBound /\ created' = j
             /\ disk' = [Without(disk, gone) EXCEPT ![j] = new]
             /\ Pump([Forget(obj, gone, runs) EXCEPT ![j] = new], (known \ gone) \cup {j}, runs, dirty \ gone)
    <3> HIDE DEF new
    <3>1. Good([Forget(obj, gone, runs) EXCEPT ![j] = new], (known \ gone) \cup {j}, runs,
               [Without(disk, gone) EXCEPT ![j] = new], dirty \ gone, j)
      BY <1>3, <1>4, <2>2, AddGood
    <3> QED
      BY <2>2, <3>1, PumpGood
  <2> HIDE DEF new, j
  <2> QED
    BY <1>1, <2>1, <2>2
<1> QED
  BY <1>5 DEF BatchInv, Create

\* list() preserves the invariant.
LEMMA ListStep ==
  ASSUME BatchInv, List
  PROVE  BatchInv'
<1>1. PICK gone \in Prunable(obj, known, FALSE) :
        /\ obj' = Forget(obj, gone, runs) /\ known' = known \ gone
        /\ disk' = Without(disk, gone) /\ dirty' = dirty \ gone
  BY DEF List
<1>2. gone \subseteq known
  BY DEF Prunable, Finished
<1>3. Good(obj', known', runs', disk', dirty', created')
  BY <1>1, <1>2, ForgetGood DEF List
<1> QED
  BY <1>3 DEF BatchInv, List

\* A cancelled job is saved as what it has become.
LEMMA CancelStep ==
  ASSUME BatchInv, NEW j \in Jobs, Cancel(j)
  PROVE  BatchInv'
<1> DEFINE g == [i \in DOMAIN obj[j].item |->
                   IF obj[j].item[i] = "queued" THEN "cancelled" ELSE obj[j].item[i]]
           new == [status |-> "cancelled", item |-> g]
<1>1. /\ obj \in [Jobs -> Proper] /\ disk \in [Jobs -> Proper] /\ j \in known
      /\ known \subseteq 1..created /\ created \in 0..JobBound /\ obj[j] # NoJob
  BY DEF BatchInv, Good, Shape, Cancel
<1>2. obj[j] \in Job
  BY <1>1, JobOrNone DEF Proper
<1>3. g \in [DOMAIN obj[j].item -> ItemStatus]
  BY <1>2, ItemsType DEF Job, ItemStatus
<1>4. new \in Proper /\ new # NoJob
  <2> HIDE DEF g
  <2> QED
    BY <1>2, <1>3, JobMade DEF ItemStatus
<1>5. /\ new.status = "cancelled" /\ DOMAIN new.item = DOMAIN obj[j].item
      /\ \A i \in DOMAIN obj[j].item : obj[j].item[i] = "in_progress" => new.item[i] = "in_progress"
  OBVIOUS
<1>6. /\ obj' = [obj EXCEPT ![j] = new] /\ disk' = [disk EXCEPT ![j] = new]
      /\ dirty' = dirty \ {j} /\ runs' = Aborted(runs, {j}) /\ UNCHANGED <<known, created, phase, stops>>
  BY DEF Cancel
<1> HIDE DEF g, new
<1>7. /\ obj'[j] = new /\ disk'[j] = new /\ obj' \in [Jobs -> Proper] /\ disk' \in [Jobs -> Proper]
      /\ \A x \in Jobs : x # j => obj'[x] = obj[x] /\ disk'[x] = disk[x]
  BY <1>1, <1>4, <1>6
<1>8. Good(obj', known, runs, disk', dirty', created)
  <2>1. Shape(obj', known, runs, disk', dirty', created)
    <3>1. ~(j > created) /\ known \subseteq Jobs
      BY <1>1, BatchConstants DEF Jobs
    <3>2. \A x \in known : obj'[x] # NoJob
      BY <1>1, <1>4, <1>7, <3>1 DEF BatchInv, Good, Shape
    <3>3. \A x \in Jobs : x > created => obj'[x] = NoJob /\ disk'[x] = NoJob
      BY <1>7, <3>1 DEF BatchInv, Good, Shape
    <3> QED
      BY <1>6, <1>7, <3>2, <3>3 DEF BatchInv, Good, Shape
  <2>2. Accounted(obj', known, runs)
    <3>1. ASSUME NEW r \in runs PROVE RunsItem(obj', r)
      <4>1. RunsItem(obj, r) /\ r.job \in Jobs
        BY DEF BatchInv, Good, Accounted, Shape, ProperRun, Run
      <4>2. CASE r.job = j
        BY <1>4, <1>5, <1>7, <4>1, <4>2 DEF RunsItem
      <4>3. CASE r.job # j
        BY <1>7, <4>1, <4>3 DEF RunsItem
      <4> QED
        BY <4>2, <4>3
    <3>2. ASSUME NEW x \in known, NEW i \in DOMAIN obj'[x].item, obj'[x].item[i] = "in_progress"
          PROVE  obj'[x].status = "cancelled" \/ \E r \in runs : r.job = x /\ r.item = i
      <4>1. x \in Jobs
        BY <1>1, BatchConstants DEF Jobs
      <4>2. CASE x = j
        BY <1>5, <1>7, <4>2
      <4>3. CASE x # j
        BY <1>7, <3>2, <4>1, <4>3 DEF BatchInv, Good, Accounted
      <4> QED
        BY <4>2, <4>3
    <3> QED
      BY <3>1, <3>2 DEF BatchInv, Good, Accounted
  <2>3. Saved(obj', known, disk', dirty')
    <3>1. ASSUME NEW x \in known \ dirty' PROVE Reloaded(disk'[x]) = Reloaded(obj'[x])
      <4>1. x \in Jobs
        BY <1>1, BatchConstants DEF Jobs
      <4>2. CASE x = j
        BY <1>7, <4>2
      <4>3. CASE x # j
        BY <1>6, <1>7, <4>1, <4>3 DEF BatchInv, Good, Saved
      <4> QED
        BY <4>2, <4>3
    <3> QED
      BY <3>1 DEF Saved
  <2> QED
    BY <2>1, <2>2, <2>3 DEF BatchInv, Good
<1>9. Good(obj', known', runs', disk', dirty', created')
  BY <1>6, <1>8, AbortedGood
<1> QED
  BY <1>6, <1>9 DEF BatchInv

\* The end of a run of job j: its item settles in the record u of the job, which
\* with its last item is over; the pump goes on from what that leaves in memory.
Settled(r, st, j, u, left, dt) ==
  /\ Pump(left, known, runs \ {r}, dt)
  /\ u # NoJob /\ u.item = [obj[j].item EXCEPT ![r.item] = st]
  /\ IF \E i \in DOMAIN u.item : u.item[i] \in Pending
     THEN u.status = obj[j].status
     ELSE u.status = IF obj[j].status = "cancelled" THEN "cancelled"
                     ELSE IF \E i \in DOMAIN u.item : u.item[i] = "failed" THEN "failed"
                     ELSE "completed"
  /\ \A x \in Jobs : x # j => left[x] = obj[x] /\ disk'[x] = disk[x] /\ (x \in dt <=> x \in dirty)
  /\ left[j] = u \/ (left[j] = NoJob /\ j \notin known /\ \A q \in runs \ {r} : q.job # j)
  /\ disk' \in [Jobs -> Proper]
  /\ \/ disk'[j] = u /\ j \notin dt
     \/ disk'[j] = disk[j] /\ j \in dt /\ u.status \in Pending

\* What #runItem leaves behind.
LEMMA SettleFacts ==
  ASSUME BatchInv, NEW r \in runs, NEW st \in Terminal, Settle(r, st), NEW j \in Jobs, j = r.job
  PROVE  \E u \in Proper, left \in [Jobs -> Proper], dt \in SUBSET Jobs : Settled(r, st, j, u, left, dt)
<1> DEFINE o == [obj EXCEPT ![r.job].item[r.item] = st]
           now == Done(o, r.job) \/ o[r.job].status = "cancelled"
           rest == runs \ {r}
           saved == IF Done(o, r.job) THEN [o EXCEPT ![r.job].status = Outcome(o, r.job)] ELSE o
           left == IF r.job \in known THEN saved ELSE Forget(saved, {r.job}, rest)
           dt == IF now THEN dirty \ {r.job} ELSE dirty \cup {r.job}
<1>1. /\ Pump(left, known, rest, dt)
      /\ disk' = IF now THEN [disk EXCEPT ![r.job] = saved[r.job]] ELSE disk
  BY DEF Settle
<1>3. /\ obj \in [Jobs -> Proper] /\ disk \in [Jobs -> Proper]
      /\ dirty \subseteq Jobs /\ RunsItem(obj, r) /\ obj[j] # NoJob
  BY DEF BatchInv, Good, Shape, Accounted, RunsItem
<1>4. obj[j] \in Job /\ obj[j].status \in Pending \cup {"cancelled"}
  BY <1>3, JobOrNone DEF Proper, RunsItem, Job, ItemStatus, Pending
<1> DEFINE g == [obj[j].item EXCEPT ![r.item] = st]
<1>5. /\ g \in [DOMAIN obj[j].item -> ItemStatus] /\ g[r.item] = st
      /\ \A i \in DOMAIN obj[j].item : i # r.item => g[i] = obj[j].item[i]
  BY <1>3, <1>4, ItemsType DEF Job, RunsItem, ItemStatus, Terminal
<1>6. o = [obj EXCEPT ![j] = [status |-> obj[j].status, item |-> g]]
  <2>1. o = [obj EXCEPT ![j] = [obj[j] EXCEPT !.item = g]]
    BY <1>3
  <2> HIDE DEF g
  <2>2. [obj[j] EXCEPT !.item = g] = [status |-> obj[j].status, item |-> g]
    BY <1>4 DEF Job
  <2> HIDE DEF o
  <2> QED
    BY <2>1, <2>2
<1> HIDE DEF g, o
<1>7. o[j].status = obj[j].status /\ o[j].item = g
  BY <1>3, <1>6
<1>8. PICK u \in Proper :
        /\ u # NoJob /\ u.item = g /\ saved = [obj EXCEPT ![j] = u]
        /\ IF Done(o, j) THEN u.status = Outcome(o, j) ELSE u.status = obj[j].status
  <2>1. CASE Done(o, j)
    <3> DEFINE v == [status |-> Outcome(o, j), item |-> g]
    <3>1. Outcome(o, j) \in Terminal
      BY <1>7 DEF Outcome, Terminal
    <3>2. \A i \in DOMAIN obj[j].item : g[i] # "in_progress"
      BY <1>5, <1>7, <2>1 DEF Done, Pending
    <3>3. v \in Proper /\ v # NoJob
      BY <1>4, <1>5, <3>1, <3>2, JobMade DEF Terminal, ItemStatus
    <3>4. saved = [obj EXCEPT ![j] = v]
      <4>1. saved = [o EXCEPT ![j] = [o[j] EXCEPT !.status = Outcome(o, j)]]
        BY <2>1
      <4>2. o[j] = [status |-> obj[j].status, item |-> g]
        BY <1>3, <1>6
      <4>3. [o[j] EXCEPT !.status = Outcome(o, j)] = v
        BY <4>2
      <4> HIDE DEF saved, v
      <4> QED
        BY <1>3, <1>6, <4>1, <4>3
    <3> QED
      BY <2>1, <3>3, <3>4
  <2>2. CASE ~Done(o, j)
    <3> DEFINE v == [status |-> obj[j].status, item |-> g]
    <3>1. v \in Proper /\ v # NoJob
      BY <1>4, <1>5, JobMade DEF Job, Pending
    <3>2. saved = [obj EXCEPT ![j] = v]
      BY <1>6, <2>2
    <3> QED
      BY <2>2, <3>1, <3>2
  <2> QED
    BY <2>1, <2>2
<1> HIDE DEF saved
<1>9. /\ left \in [Jobs -> Proper]
      /\ \A x \in Jobs : x # j => left[x] = obj[x]
      /\ left[j] = u \/ (left[j] = NoJob /\ j \notin known /\ \A q \in rest : q.job # j)
  <2>1. CASE j \in known
    BY <1>3, <1>8, <2>1
  <2>2. CASE j \notin known
    <3>1. left = Forget(saved, {j}, rest)
      BY <2>2
    <3>2. saved \in [Jobs -> Proper] /\ saved[j] = u /\ \A x \in Jobs : x # j => saved[x] = obj[x]
      BY <1>3, <1>8
    <3>3. Forget(saved, {j}, rest) \in [Jobs -> Proper]
      BY <3>2, NoJobProper DEF Forget, Without
    <3>4. /\ \A x \in Jobs : x # j => Forget(saved, {j}, rest)[x] = saved[x]
          /\ \/ Forget(saved, {j}, rest)[j] = saved[j]
             \/ Forget(saved, {j}, rest)[j] = NoJob /\ \A q \in rest : q.job # j
      BY DEF Forget, Without
    <3> QED
      BY <2>2, <3>1, <3>2, <3>3, <3>4
  <2> QED
    BY <2>1, <2>2
<1> HIDE DEF left
<1>10. Done(o, j) <=> ~\E i \in DOMAIN u.item : u.item[i] \in Pending
  BY <1>7, <1>8 DEF Done
<1>11. Outcome(o, j) = IF obj[j].status = "cancelled" THEN "cancelled"
                       ELSE IF \E i \in DOMAIN u.item : u.item[i] = "failed" THEN "failed"
                       ELSE "completed"
  BY <1>7, <1>8 DEF Outcome
<1>12. /\ disk' \in [Jobs -> Proper] /\ dt \subseteq Jobs
       /\ \A x \in Jobs : x # j => disk'[x] = disk[x] /\ (x \in dt <=> x \in dirty)
       /\ \/ disk'[j] = u /\ j \notin dt
          \/ disk'[j] = disk[j] /\ j \in dt /\ u.status \in Pending
  <2>1. CASE now
    BY <1>1, <1>3, <1>8, <2>1
  <2>2. CASE ~now
    <3>1. u.status \in Pending
      BY <1>4, <1>7, <1>8, <2>2
    <3> QED
      BY <1>1, <1>3, <2>2, <3>1
  <2> QED
    BY <2>1, <2>2
<1> HIDE DEF now, dt, rest
<1>13. u.item = [obj[j].item EXCEPT ![r.item] = st] /\ Pump(left, known, runs \ {r}, dt)
  BY <1>1, <1>8 DEF g, rest
<1>14. left[j] = u \/ (left[j] = NoJob /\ j \notin known /\ \A q \in runs \ {r} : q.job # j)
  BY <1>9 DEF rest
<1> QED
  BY <1>8, <1>9, <1>10, <1>11, <1>12, <1>13, <1>14 DEF Settled

\* The end of a run preserves the invariant.
LEMMA SettleStep ==
  ASSUME BatchInv, NEW r \in runs, NEW st \in Terminal, Settle(r, st)
  PROVE  BatchInv'
<1> DEFINE rest == runs \ {r}
<1>2. PICK j \in Jobs : j = r.job
  BY DEF BatchInv, Good, Shape, ProperRun, Run
<1>3. /\ runs \subseteq ProperRun /\ known \subseteq Jobs /\ RunsItem(obj, r)
      /\ known \subseteq 1..created /\ created \in 0..JobBound /\ obj[j] \in JobRecord
  BY <1>2, BatchConstants DEF BatchInv, Good, Shape, Jobs, Accounted, Proper
<1>0. PICK u \in Proper, left \in [Jobs -> Proper], dt \in SUBSET Jobs : Settled(r, st, j, u, left, dt)
  BY <1>2, SettleFacts
<1>4. /\ Pump(left, known, rest, dt)
      /\ u # NoJob /\ u.item = [obj[j].item EXCEPT ![r.item] = st]
      /\ \A x \in Jobs : x # j => left[x] = obj[x] /\ disk'[x] = disk[x] /\ (x \in dt <=> x \in dirty)
      /\ left[j] = u \/ (left[j] = NoJob /\ j \notin known /\ \A q \in rest : q.job # j)
      /\ disk' \in [Jobs -> Proper]
      /\ disk'[j] = u \/ j \in dt
  BY <1>0 DEF Settled
<1>6. obj[j].status = "cancelled" => u.status = "cancelled"
  BY <1>0 DEF Settled, Pending
<1>5. /\ DOMAIN u.item = DOMAIN obj[j].item /\ u.item[r.item] = st
      /\ \A i \in DOMAIN obj[j].item : i # r.item => u.item[i] = obj[j].item[i]
  <2>1. obj[j].item \in [DOMAIN obj[j].item -> ItemStatus] /\ r.item \in DOMAIN obj[j].item
    BY <1>2, <1>3, ItemsType, JobOrNone DEF RunsItem, Job
  <2> QED
    BY <1>4, <2>1
<1>11. Shape(left, known, rest, disk', dt, created)
  <2>1. ~(j > created)
    BY <1>2, <1>3 DEF BatchInv, Good, Shape, RunsItem
  <2>2. \A x \in known : left[x] # NoJob
    BY <1>3, <1>4 DEF BatchInv, Good, Shape
  <2>3. \A x \in Jobs : x > created => left[x] = NoJob /\ disk'[x] = NoJob
    BY <1>4, <2>1 DEF BatchInv, Good, Shape
  <2> QED
    BY <1>3, <1>4, <2>2, <2>3 DEF Shape
<1>12. Accounted(left, known, rest)
  <2>1. ASSUME NEW q \in rest PROVE RunsItem(left, q)
    <3>1. RunsItem(obj, q) /\ q.job \in Jobs
      BY <1>3 DEF BatchInv, Good, Accounted, ProperRun, Run
    <3>2. CASE q.job = j
      <4>1. q.item # r.item
        BY <1>2, <3>2 DEF BatchInv, Good, Accounted
      <4>2. left[j] = u
        BY <1>4, <3>2
      <4> QED
        BY <1>4, <1>5, <3>1, <3>2, <4>1, <4>2 DEF RunsItem
    <3>3. CASE q.job # j
      BY <1>4, <3>1, <3>3 DEF RunsItem
    <3> QED
      BY <3>2, <3>3
  <2>2. ASSUME NEW x \in known, NEW i \in DOMAIN left[x].item, left[x].item[i] = "in_progress"
        PROVE  left[x].status = "cancelled" \/ \E q \in rest : q.job = x /\ q.item = i
    <3>1. CASE x = j
      <4>1. left[j] = u /\ i \in DOMAIN obj[j].item /\ i # r.item /\ obj[j].item[i] = "in_progress"
        BY <1>4, <1>5, <2>2, <3>1 DEF Terminal
      <4>2. obj[j].status = "cancelled" \/ \E q \in runs : q.job = j /\ q.item = i
        BY <2>2, <3>1, <4>1 DEF BatchInv, Good, Accounted
      <4> QED
        BY <1>6, <3>1, <4>1, <4>2
    <3>2. CASE x # j
      <4>1. x \in Jobs /\ left[x] = obj[x]
        BY <1>3, <1>4, <3>2
      <4>2. obj[x].status = "cancelled" \/ \E q \in runs : q.job = x /\ q.item = i
        BY <2>2, <4>1 DEF BatchInv, Good, Accounted
      <4> QED
        BY <1>2, <3>2, <4>1, <4>2
    <3> QED
      BY <3>1, <3>2
  <2> QED
    BY <2>1, <2>2 DEF BatchInv, Good, Accounted
<1>13. Saved(left, known, disk', dt)
  <2>1. ASSUME NEW x \in known \ dt PROVE Reloaded(disk'[x]) = Reloaded(left[x])
    <3>1. CASE x = j
      BY <1>4, <3>1
    <3>2. CASE x # j
      BY <1>3, <1>4, <3>2 DEF BatchInv, Good, Saved
    <3> QED
      BY <3>1, <3>2
  <2> QED
    BY <2>1 DEF Saved
<1>14. Slots(rest)
  BY SlotsFewer DEF BatchInv, Good
<1>15. Good(obj', known', runs', disk', dirty', created)
  <2> HIDE DEF rest
  <2> QED
    BY <1>4, <1>11, <1>12, <1>13, <1>14, PumpGood DEF Good
<1> QED
  BY <1>15 DEF BatchInv, Settle

\* An answer settles its run, or leaves it to another attempt.
LEMMA AnswerStep ==
  ASSUME BatchInv, NEW r \in runs, Answer(r)
  PROVE  BatchInv'
<1>1. CASE \E st \in Terminal : Settle(r, st)
  BY <1>1, SettleStep
<1>2. CASE /\ runs' = (runs \ {r}) \cup {[r EXCEPT !.state = "sleeping"]}
           /\ TriesAgain(r) /\ UNCHANGED <<obj, known, disk, dirty, created, phase, stops>>
  <2>1. r \in Run
    BY DEF BatchInv, Good, Shape, ProperRun
  <2> DEFINE q == [r EXCEPT !.state = "sleeping"]
  <2>2. q \in Run /\ q.job = r.job /\ q.item = r.item /\ q.attempt = r.attempt
    BY <2>1 DEF Run
  <2> HIDE DEF q
  <2>4. q \in ProperRun
    BY <1>2, <2>2 DEF ProperRun, TriesAgain
  <2>3. Good(obj, known, (runs \ {r}) \cup {q}, disk, dirty, created)
    BY <2>2, <2>4, OtherRunGood DEF BatchInv
  <2> QED
    BY <1>2, <2>3 DEF BatchInv, q
<1> QED
  BY <1>1, <1>2 DEF Answer, Terminal

\* So does the end of a pause.
LEMMA WakeUpStep ==
  ASSUME BatchInv, NEW r \in runs, WakeUp(r)
  PROVE  BatchInv'
<1>1. CASE Settle(r, "cancelled")
  BY <1>1, SettleStep DEF Terminal
<1>2. CASE /\ runs' = (runs \ {r}) \cup {[r EXCEPT !.state = "executing", !.attempt = @ + 1]}
           /\ UNCHANGED <<obj, known, disk, dirty, created, phase, stops>>
  <2>1. r \in Run /\ r.attempt < MaxAttempts
    BY DEF BatchInv, Good, Shape, ProperRun, WakeUp, TriesAgain
  <2> DEFINE n == r.attempt + 1
             q == [r EXCEPT !.state = "executing", !.attempt = n]
  <2>2. n \in 1..MaxAttempts
    BY <2>1 DEF Run, MaxAttempts
  <2> HIDE DEF n
  <2>3. q \in ProperRun /\ q.job = r.job /\ q.item = r.item
    BY <2>1, <2>2 DEF Run, ProperRun
  <2> HIDE DEF q
  <2>4. Good(obj, known, (runs \ {r}) \cup {q}, disk, dirty, created)
    BY <2>3, OtherRunGood DEF BatchInv
  <2>5. q = [r EXCEPT !.state = "executing", !.attempt = @ + 1]
    BY DEF q, n
  <2> QED
    BY <1>2, <2>4, <2>5 DEF BatchInv
<1> QED
  BY <1>1, <1>2 DEF WakeUp

\* The persist timer writes what is in memory.
LEMMA SaveStep ==
  ASSUME BatchInv, NEW j \in Jobs, Save(j)
  PROVE  BatchInv'
<1>1. /\ obj \in [Jobs -> Proper] /\ disk \in [Jobs -> Proper] /\ known \subseteq Jobs
      /\ dirty' = dirty \ {j} /\ UNCHANGED <<obj, known, runs, created, phase, stops>>
      /\ disk' = IF j \in known THEN [disk EXCEPT ![j] = obj[j]] ELSE disk
  BY BatchConstants DEF BatchInv, Good, Shape, Save, Jobs
<1>2. /\ disk' \in [Jobs -> Proper]
      /\ \A x \in Jobs : disk'[x] = IF x = j /\ j \in known THEN obj[j] ELSE disk[x]
  BY <1>1
<1>3. Shape(obj, known, runs, disk', dirty', created)
  BY <1>1, <1>2 DEF BatchInv, Good, Shape
<1>4. Saved(obj, known, disk', dirty')
  BY <1>1, <1>2 DEF BatchInv, Good, Saved
<1> QED
  BY <1>1, <1>3, <1>4 DEF BatchInv, Good

\* What close() saves is what its jobs are; running items are aborted.
LEMMA CloseStep ==
  ASSUME BatchInv, Close
  PROVE  BatchInv'
<1>1. /\ obj \in [Jobs -> Proper] /\ disk \in [Jobs -> Proper] /\ known \subseteq Jobs
      /\ dirty' = {} /\ runs' = Aborted(runs, Jobs) /\ UNCHANGED <<obj, known, created>>
      /\ disk' = [x \in Jobs |-> IF x \in dirty \cap known THEN obj[x] ELSE disk[x]]
  BY BatchConstants DEF BatchInv, Good, Shape, Close, Jobs
<1>2. /\ disk' \in [Jobs -> Proper]
      /\ \A x \in Jobs : disk'[x] = IF x \in dirty \cap known THEN obj[x] ELSE disk[x]
  BY <1>1
<1>3. Shape(obj, known, runs, disk', dirty', created)
  BY <1>1, <1>2 DEF BatchInv, Good, Shape
<1>4. Saved(obj, known, disk', dirty')
  BY <1>1, <1>2 DEF BatchInv, Good, Saved
<1>5. Good(obj, known, runs, disk', dirty', created)
  BY <1>3, <1>4 DEF BatchInv, Good
<1>6. Good(obj', known', runs', disk', dirty', created')
  BY <1>1, <1>5, AbortedGood
<1>7. stops' \in 0..MaxStops
  BY BatchConstants DEF BatchInv, Close
<1> QED
  BY <1>6, <1>7 DEF BatchInv, Close

\* Without runs no slot is taken.
LEMMA NoSlots == Slots({})
BY FS_EmptySet, BatchConstants DEF Slots

\* A process that is gone leaves its files.
LEMMA ExitStep ==
  ASSUME BatchInv, Exit
  PROVE  BatchInv'
<1>1. /\ obj' = [j \in Jobs |-> NoJob] /\ known' = {} /\ dirty' = {} /\ runs' = {}
      /\ UNCHANGED <<disk, created>> /\ phase' = "down"
      /\ stops' = IF phase = "up" THEN stops + 1 ELSE stops
  BY DEF Exit
<1>2. Shape(obj', known', runs', disk', dirty', created')
  BY <1>1, NoJobProper DEF BatchInv, Good, Shape
<1>3. Accounted(obj', known', runs') /\ Saved(obj', known', disk', dirty')
  BY <1>1 DEF Accounted, Saved
<1>4. Good(obj', known', runs', disk', dirty', created')
  BY <1>1, <1>2, <1>3, NoSlots DEF Good
<1>5. stops' \in 0..MaxStops
  BY <1>1, BatchConstants DEF BatchInv, Exit
<1> QED
  BY <1>1, <1>4, <1>5 DEF BatchInv

\* What a new process makes of a file: a job without an item in progress,
\* unless it was cancelled; loading it again changes nothing more.
LEMMA ReloadedProps ==
  ASSUME NEW x \in Proper
  PROVE  /\ Reloaded(x) \in Proper /\ (Reloaded(x) = NoJob <=> x = NoJob)
         /\ Reloaded(Reloaded(x)) = Reloaded(x)
         /\ \A i \in DOMAIN Reloaded(x).item :
              Reloaded(x).item[i] = "in_progress" => Reloaded(x).status = "cancelled"
<1>1. CASE x.status \in Terminal \cup {"none"}
  <2>1. Reloaded(x) = x
    BY <1>1 DEF Reloaded
  <2>2. \A i \in DOMAIN x.item : x.item[i] = "in_progress" => x.status = "cancelled"
    BY <1>1, JobOrNone, NoJobProper DEF Proper, Terminal
  <2> QED
    BY <2>1, <2>2
<1>2. CASE x.status \notin Terminal \cup {"none"}
  <2> DEFINE g == [i \in DOMAIN x.item |->
                     IF x.item[i] = "in_progress" THEN "queued" ELSE x.item[i]]
             y == [status |-> "queued", item |-> g]
  <2>1. x \in Job /\ x # NoJob
    BY <1>2, JobOrNone, NoJobProper DEF Proper
  <2>2. g \in [DOMAIN x.item -> ItemStatus] /\ \A i \in DOMAIN g : g[i] # "in_progress"
    BY <2>1, ItemsType DEF Job, ItemStatus
  <2>3. Reloaded(x) = y
    BY <1>2 DEF Reloaded
  <2>4. y.status = "queued" /\ y.item = g
    OBVIOUS
  <2>5. [i \in DOMAIN g |-> IF g[i] = "in_progress" THEN "queued" ELSE g[i]] = g
    BY <2>2
  <2> HIDE DEF g
  <2>6. y \in Proper /\ y # NoJob
    BY <2>1, <2>2, JobMade DEF ItemStatus
  <2>7. Reloaded(y) = y
    <3>1. Reloaded(y) = [status |-> "queued",
                         item |-> [i \in DOMAIN g |-> IF g[i] = "in_progress" THEN "queued" ELSE g[i]]]
      BY <2>4 DEF Reloaded, Terminal
    <3> QED
      BY <2>5, <3>1
  <2> HIDE DEF y
  <2> QED
    BY <2>1, <2>2, <2>3, <2>4, <2>6, <2>7
<1> QED
  BY <1>1, <1>2

\* A new process takes its jobs from the files and prunes the expired ones.
LEMMA BootStep ==
  ASSUME BatchInv, Boot
  PROVE  BatchInv'
<1> DEFINE o == [j \in Jobs |-> Reloaded(disk[j])]
           found == {j \in Jobs : disk[j] # NoJob}
<1>1. PICK gone \in Prunable(o, found, FALSE) :
        /\ Pump(Without(o, gone), found \ gone, {}, {})
        /\ disk' = Without(disk, gone)
  BY DEF Boot
<1>2. disk \in [Jobs -> Proper] /\ created \in 0..JobBound
  BY DEF BatchInv, Good, Shape
<1>3. \A j \in Jobs : /\ o[j] \in Proper /\ (o[j] = NoJob <=> disk[j] = NoJob)
                      /\ Reloaded(o[j]) = Reloaded(disk[j])
                      /\ \A i \in DOMAIN o[j].item :
                           o[j].item[i] = "in_progress" => o[j].status = "cancelled"
  BY <1>2, ReloadedProps
<1>4. found \subseteq 1..created /\ found \subseteq Jobs
  BY <1>2, BatchConstants DEF BatchInv, Good, Shape, Jobs
<1> DEFINE w == Without(o, gone)
<1>5. /\ w \in [Jobs -> Proper]
      /\ \A j \in Jobs : w[j] = IF j \in gone THEN NoJob ELSE o[j]
      /\ disk' \in [Jobs -> Proper]
      /\ \A j \in Jobs : disk'[j] = IF j \in gone THEN NoJob ELSE disk[j]
  BY <1>1, <1>2, <1>3, NoJobProper DEF Without
<1>6. \A j \in Jobs : j > created => o[j] = NoJob
  BY <1>3 DEF BatchInv, Good, Shape
<1>7. \A j \in found : j \in Jobs /\ o[j] # NoJob
  BY <1>3
<1>8. \A j \in Jobs : j > created => disk[j] = NoJob
  BY DEF BatchInv, Good, Shape
<1> HIDE DEF o, found, w
<1>9. Shape(w, found \ gone, {}, disk', {}, created)
  BY <1>2, <1>4, <1>5, <1>6, <1>7, <1>8 DEF Shape
<1>10. Accounted(w, found \ gone, {})
  BY <1>3, <1>5, <1>7 DEF Accounted
<1>11. Saved(w, found \ gone, disk', {})
  BY <1>3, <1>5, <1>7 DEF Saved
<1>12. Good(w, found \ gone, {}, disk', {}, created)
  BY <1>9, <1>10, <1>11, NoSlots DEF Good
<1>13. Good(obj', known', runs', disk', dirty', created)
  BY <1>1, <1>12, PumpGood DEF w
<1> QED
  BY <1>13 DEF BatchInv, Boot

-----------------------------------------------------------------------------
(***************************************************************************)
(* The theorems.                                                           *)
(***************************************************************************)
LEMMA BatchInvInit == Init => BatchInv
<1> SUFFICES ASSUME Init PROVE BatchInv
  OBVIOUS
<1>1. Shape(obj, known, runs, disk, dirty, created)
  BY NoJobProper, BatchConstants DEF Init, Shape
<1>2. Accounted(obj, known, runs) /\ Saved(obj, known, disk, dirty) /\ Slots(runs)
  BY NoSlots DEF Init, Accounted, Saved
<1> QED
  BY <1>1, <1>2, BatchConstants DEF Init, BatchInv, Good

\* Every action preserves the invariant.
LEMMA BatchInvNext == BatchInv /\ [Next]_vars => BatchInv'
<1> SUFFICES ASSUME BatchInv, [Next]_vars PROVE BatchInv'
  OBVIOUS
<1>1. CASE \E n \in 1..maxRequests : Create(n)
  BY <1>1, CreateStep
<1>2. CASE List
  BY <1>2, ListStep
<1>3. CASE \E j \in Jobs : Cancel(j) \/ Save(j)
  BY <1>3, CancelStep, SaveStep
<1>4. CASE \E r \in runs : Answer(r) \/ WakeUp(r)
  BY <1>4, AnswerStep, WakeUpStep
<1>5. CASE Close
  BY <1>5, CloseStep
<1>6. CASE Exit
  BY <1>6, ExitStep
<1>7. CASE Boot
  BY <1>7, BootStep
<1>8. CASE UNCHANGED vars
  BY <1>8 DEF vars, BatchInv, Good, Shape, Slots, Accounted, Saved, RunsItem
<1> QED
  BY <1>1, <1>2, <1>3, <1>4, <1>5, <1>6, <1>7, <1>8 DEF Next

\* In every state, memory and files fit together as BatchInv says: the
\* inductive invariant of BatchManager, crashes and restarts included.
THEOREM BatchInvariant == Spec => []BatchInv
BY BatchInvInit, BatchInvNext, PTL DEF Spec

\* The state of BatchManager has its types.
THEOREM BatchTypes == Spec => []TypeOK
<1>1. BatchInv => TypeOK
  <2> SUFFICES ASSUME BatchInv PROVE TypeOK
    OBVIOUS
  <2>1. Proper \subseteq JobRecord /\ ProperRun \subseteq Run
    BY DEF Proper, ProperRun
  <2>2. obj \in [Jobs -> JobRecord] /\ disk \in [Jobs -> JobRecord]
    BY <2>1 DEF BatchInv, Good, Shape
  <2>3. known \subseteq Jobs
    BY BatchConstants DEF BatchInv, Good, Shape, Jobs
  <2> QED
    BY <2>1, <2>2, <2>3 DEF BatchInv, Good, Shape, TypeOK
<1> QED
  BY <1>1, BatchInvariant, PTL

\* The pump of #schedulePump never has more items running or waiting for their
\* next attempt than config.batchConcurrency, whatever is retried, cancelled,
\* pruned or reloaded.
THEOREM ConcurrencyBounded == Spec => []BoundedConcurrency
<1>1. BatchInv => BoundedConcurrency
  BY DEF BatchInv, Good, Slots, BoundedConcurrency
<1> QED
  BY <1>1, BatchInvariant, PTL

\* #pump never starts an item twice, and an item in progress has a #runItem
\* that will settle it, unless its job was cancelled before a crash.
THEOREM RunsAccounted == Spec => []ExecutionAccounted
<1>1. BatchInv => ExecutionAccounted
  BY DEF BatchInv, Good, Accounted, RunsItem, ExecutionAccounted
<1> QED
  BY <1>1, BatchInvariant, PTL

\* A job without a persist timer would be reloaded from its file as what it is
\* in memory: what create(), cancel() and #finishJobIfDone save, or what close()
\* and the timers wrote, is never behind.
THEOREM NothingLost == Spec => []SavedOrDirty
<1>1. BatchInv => SavedOrDirty
  BY DEF BatchInv, Good, Saved, SavedOrDirty
<1> QED
  BY <1>1, BatchInvariant, PTL

-----------------------------------------------------------------------------
(***************************************************************************)
(* The refinement: every step is one of the board's.                       *)
(***************************************************************************)
\* A job as the board shows it.
Shown(j) == View(IF phase = "down" THEN disk[j] ELSE IF j \in known THEN obj[j] ELSE NoJob)

\* A job that is not there is none on the board either.
LEMMA ViewNone == View(NoJob) = Board!None
<1>1. View(NoJob).status = "none"
  BY DEF View, NoJob, Pending
<1>2. View(NoJob) = [status |-> "none", item |-> [i \in {} |-> "pending"]]
  BY NoJobProper DEF View, NoJob, Pending
<1>3. [i \in {} |-> "pending"] = <<>>
  OBVIOUS
<1> QED
  BY <1>2, <1>3 DEF Board!None

\* A job looks the same after it has been loaded again.
LEMMA ViewReloaded ==
  ASSUME NEW x \in Proper
  PROVE  View(Reloaded(x)) = View(x)
<1>1. CASE x.status \in Terminal \cup {"none"}
  BY <1>1 DEF Reloaded
<1>2. CASE x.status \notin Terminal \cup {"none"}
  <2>1. x \in Job /\ x.status \in Pending
    BY <1>2, JobOrNone, NoJobProper DEF Proper, Pending, Terminal, ItemStatus, Job
  <2> DEFINE g == [i \in DOMAIN x.item |-> IF x.item[i] = "in_progress" THEN "queued" ELSE x.item[i]]
  <2>2. Reloaded(x) = [status |-> "queued", item |-> g]
    BY <1>2 DEF Reloaded
  <2>3. [i \in DOMAIN g |-> IF g[i] \in Pending THEN "pending" ELSE g[i]]
          = [i \in DOMAIN x.item |-> IF x.item[i] \in Pending THEN "pending" ELSE x.item[i]]
    BY DEF Pending
  <2> HIDE DEF g
  <2> QED
    BY <2>1, <2>2, <2>3 DEF View, Pending
<1> QED
  BY <1>1, <1>2

\* What a step of the board may do to job j and its file.
JobStep(j) ==
  /\ Board!Change(Shown(j), Shown(j)')
  /\ \/ View(disk'[j]) = Shown(j)'
     \/ View(disk'[j]) = View(disk[j]) /\ Shown(j).status = "open" /\ Shown(j)'.status = "open"
     \/ Shown(j)' = Board!None /\ View(disk'[j]) = View(disk[j]) /\ Shown(j) = Board!None
     \/ /\ Shown(j)' = Board!None /\ View(disk'[j]).status = "cancelled"
        /\ j \notin known /\ obj[j] # NoJob

\* Removed jobs that run on were removed before, or just now, cancelled.
LingerStep(j) ==
  j \notin known' /\ obj'[j] # NoJob =>
    \/ j \notin known /\ obj[j] # NoJob
    \/ Shown(j).status = "cancelled" /\ Shown(j)' = Board!None

\* Such steps of all jobs are a step of the board.
LEMMA ServeStep ==
  ASSUME \A j \in Jobs : JobStep(j) /\ LingerStep(j)
  PROVE  Board!Next
<1>1. \A j \in Jobs : Board!Saves(j)
  BY DEF Board!Saves, Shown, JobStep
<1>2. Board!Serve
  BY <1>1 DEF Board!Serve, Shown, JobStep, LingerStep
<1> QED
  BY <1>2 DEF Board!Next

\* The view of a job shows its status and its results.
LEMMA ViewProps ==
  ASSUME NEW x \in Proper
  PROVE  /\ View(x).status = IF x.status \in Pending THEN "open" ELSE x.status
         /\ View(x).status = "open" <=> x.status \in Pending
         /\ DOMAIN View(x).item = DOMAIN x.item
         /\ \A i \in DOMAIN x.item :
              /\ View(x).item[i] = IF x.item[i] \in Pending THEN "pending" ELSE x.item[i]
              /\ View(x).item[i] = "pending" <=> x.item[i] \in Pending
         /\ View(x).status = "none" <=> x = NoJob
         /\ Board!Over(View(x)) <=> x.status \in Terminal
<1>1. x.status \in ItemStatus \cup {"none"} /\ (x.status = "none" <=> x = NoJob)
  BY JobOrNone, NoJobProper DEF Proper, Job
<1>2. \A i \in DOMAIN x.item : x.item[i] \in ItemStatus
  BY JobOrNone, NoJobProper, ItemsType DEF Proper, Job
<1>3. View(x).status = IF x.status \in Pending THEN "open" ELSE x.status
  BY DEF View
<1>4. /\ DOMAIN View(x).item = DOMAIN x.item
      /\ \A i \in DOMAIN x.item : View(x).item[i] = IF x.item[i] \in Pending THEN "pending" ELSE x.item[i]
  BY DEF View
<1> QED
  BY <1>1, <1>2, <1>3, <1>4 DEF Pending, Terminal, ItemStatus, Board!Over

\* A job with a persist timer is still open.
Timed(o, kn, dt) == \A j \in dt \cap kn : o[j].status \in Pending

\* A removed job that is still in memory was cancelled.
Left(o, kn) == \A j \in Jobs \ kn : o[j] # NoJob => o[j].status = "cancelled"

BoardInv == BatchInv /\ Timed(obj, known, dirty) /\ Left(obj, known)

\* The pump changes nothing that clients see.
LEMMA PumpUnseen ==
  ASSUME NEW o \in [Jobs -> Proper], NEW kn \in SUBSET Jobs, NEW rn, NEW dt,
         \A j \in kn : o[j] # NoJob, Timed(o, kn, dt), Left(o, kn), Pump(o, kn, rn, dt)
  PROVE  /\ Timed(obj', known', dirty') /\ Left(obj', known') /\ known' = kn
         /\ \A j \in Jobs : View(obj'[j]) = View(o[j]) /\ (obj'[j] = NoJob <=> o[j] = NoJob)
<1>1. PICK ps \in (IF phase = "closing" THEN {{}} ELSE Picked(o, kn, rn)) :
        obj' = Launched(o, ps) /\ known' = kn /\ dirty' = dt \cup JobsOf(ps)
  BY DEF Pump
<1>2. ps \subseteq Queued(o, kn)
  BY <1>1 DEF Picked
<1>3. ASSUME NEW j \in Jobs
      PROVE  /\ obj'[j] \in Proper /\ (obj'[j] = NoJob <=> o[j] = NoJob)
             /\ DOMAIN obj'[j].item = DOMAIN o[j].item
             /\ \A i \in DOMAIN o[j].item :
                  obj'[j].item[i] = IF <<j, i>> \in ps THEN "in_progress" ELSE o[j].item[i]
             /\ j \notin JobsOf(ps) => obj'[j] = o[j]
             /\ j \in JobsOf(ps) => j \in kn /\ o[j].status \notin Terminal
  BY <1>1, <1>2, LaunchedProps
<1>4. ASSUME NEW j \in JobsOf(ps)
      PROVE  /\ j \in kn /\ obj'[j].status = "in_progress" /\ o[j].status \in Pending
             /\ View(obj'[j]) = View(o[j])
  <2>1. j \in kn
    BY <1>2 DEF JobsOf, Queued
  <2>2. o[j] \in Job
    BY <2>1, JobOrNone DEF Proper
  <2>3. o[j].status \in Pending
    BY <1>3, <2>1, <2>2 DEF Job, ItemStatus, Pending, Terminal
  <2>4. obj'[j].status = "in_progress"
    BY <1>1, <2>1 DEF Launched
  <2>5. \A i \in DOMAIN o[j].item : <<j, i>> \in ps => o[j].item[i] = "queued"
    <3>1. \A p \in ps : o[p[1]].item[p[2]] = "queued"
      BY <1>2 DEF Queued
    <3>2. ASSUME NEW i, <<j, i>> \in ps PROVE o[j].item[i] = "queued"
      <4> DEFINE p == <<j, i>>
      <4>1. p \in ps /\ p[1] = j /\ p[2] = i
        BY <3>2
      <4> HIDE DEF p
      <4> QED
        BY <3>1, <4>1
    <3> QED
      BY <3>2
  <2>6. [i \in DOMAIN obj'[j].item |-> IF obj'[j].item[i] \in Pending THEN "pending" ELSE obj'[j].item[i]]
          = [i \in DOMAIN o[j].item |-> IF o[j].item[i] \in Pending THEN "pending" ELSE o[j].item[i]]
    BY <1>3, <2>1, <2>5 DEF Pending
  <2> QED
    BY <2>1, <2>3, <2>4, <2>6 DEF View, Pending
<1>5. \A j \in Jobs : View(obj'[j]) = View(o[j])
  BY <1>3, <1>4
<1>6. Timed(obj', known', dirty')
  BY <1>1, <1>3, <1>4 DEF Timed, Pending
<1>7. Left(obj', known')
  BY <1>1, <1>3, <1>4 DEF Left
<1> QED
  BY <1>1, <1>3, <1>5, <1>6, <1>7

\* A job that neither changes on the board nor on disk.
LEMMA Unchanged ==
  ASSUME BoardInv, phase # "down", NEW j \in Jobs,
         View(disk'[j]) = View(disk[j]), Shown(j)' = Shown(j)
  PROVE  JobStep(j)
<1>1. Board!Change(Shown(j), Shown(j)')
  BY DEF Board!Change
<1>2. obj[j] \in Proper /\ disk[j] \in Proper
  BY DEF BoardInv, BatchInv, Good, Shape
<1>3. CASE j \notin known
  <2>1. Shown(j) = Board!None
    BY <1>3, ViewNone DEF Shown
  <2> QED
    BY <1>1, <2>1 DEF JobStep
<1>4. CASE j \in known \cap dirty
  <2>1. Shown(j) = View(obj[j]) /\ obj[j].status \in Pending
    BY <1>4 DEF Shown, BoardInv, Timed
  <2>2. Shown(j).status = "open"
    BY <1>2, <2>1, ViewProps
  <2> QED
    BY <1>1, <2>2 DEF JobStep
<1>5. CASE j \in known \ dirty
  <2>1. Reloaded(disk[j]) = Reloaded(obj[j])
    BY <1>5 DEF BoardInv, BatchInv, Good, Saved
  <2>2. View(disk[j]) = View(obj[j])
    BY <1>2, <2>1, ViewReloaded
  <2>3. Shown(j) = View(obj[j])
    BY <1>5 DEF Shown
  <2> QED
    BY <1>1, <2>2, <2>3 DEF JobStep
<1> QED
  BY <1>3, <1>4, <1>5

\* Jobs that expired, or made room, were over.
LEMMA GoneStep ==
  ASSUME BoardInv, phase # "down", phase' # "down", NEW gone \in SUBSET Finished(obj, known),
         NEW j \in gone, j \notin known', disk'[j] = NoJob, 
         obj'[j] = NoJob \/ (obj'[j] = obj[j] /\ \E r \in runs : r.job = j)
  PROVE  JobStep(j) /\ LingerStep(j) /\ (obj'[j] # NoJob => obj'[j].status = "cancelled")
<1>1. /\ j \in known /\ j \in Jobs /\ obj[j].status \in Terminal /\ obj[j] \in Proper
      /\ runs \subseteq Run
  BY BatchConstants DEF Finished, BoardInv, BatchInv, Good, Shape, Jobs, ProperRun
<1>2. Shown(j) = View(obj[j]) /\ Board!Over(Shown(j))
  BY <1>1, ViewProps DEF Shown
<1>3. Shown(j)' = Board!None
  BY ViewNone DEF Shown
<1>4. JobStep(j)
  BY <1>2, <1>3, ViewNone DEF JobStep, Board!Change
<1>5. ASSUME obj'[j] # NoJob PROVE obj[j].status = "cancelled" /\ obj'[j] = obj[j]
  <2>1. PICK r \in runs : r.job = j
    BY <1>5
  <2>2. RunsItem(obj, r)
    BY DEF BoardInv, BatchInv, Good, Accounted
  <2> QED
    BY <1>1, <1>5, <2>1, <2>2 DEF RunsItem, Proper, Terminal
<1>6. View(obj[j]).status = "cancelled" <=> obj[j].status = "cancelled"
  BY <1>1, ViewProps DEF Pending
<1>7. LingerStep(j)
  BY <1>2, <1>3, <1>5, <1>6 DEF LingerStep
<1> QED
  BY <1>4, <1>5, <1>7

\* A job that stays where it was.
LEMMA StayStep ==
  ASSUME BoardInv, phase # "down", phase' # "down", NEW j \in Jobs, View(disk'[j]) = View(disk[j]),
         j \in known' <=> j \in known, View(obj'[j]) = View(obj[j]), obj'[j] = NoJob <=> obj[j] = NoJob
  PROVE  JobStep(j) /\ LingerStep(j)
<1>1. Shown(j)' = Shown(j)
  BY DEF Shown
<1> QED
  BY <1>1, Unchanged DEF LingerStep

\* list() takes jobs off the board that are over.
LEMMA ListBoard ==
  ASSUME BoardInv, List
  PROVE  Board!Next /\ BoardInv'
<1>1. PICK gone \in Prunable(obj, known, FALSE) :
        /\ obj' = Forget(obj, gone, runs) /\ known' = known \ gone
        /\ disk' = Without(disk, gone) /\ dirty' = dirty \ gone
  BY DEF List
<1>2. gone \subseteq Finished(obj, known) /\ phase # "down" /\ phase' # "down"
  BY DEF Prunable, List
<1>3. ASSUME NEW j \in Jobs
      PROVE  JobStep(j) /\ LingerStep(j) /\ (j \in gone /\ obj'[j] # NoJob => obj'[j].status = "cancelled")
             /\ (j \notin gone => obj'[j] = obj[j])
  <2>1. CASE j \in gone
    <3>1. disk'[j] = NoJob /\ (obj'[j] = NoJob \/ (obj'[j] = obj[j] /\ \E r \in runs : r.job = j))
      BY <1>1, <2>1 DEF Without, Forget
    <3> QED
      BY <1>1, <1>2, <2>1, <3>1, GoneStep
  <2>2. CASE j \notin gone
    <3>1. disk'[j] = disk[j] /\ obj'[j] = obj[j]
      BY <1>1, <2>2 DEF Without, Forget
    <3> QED
      BY <1>1, <1>2, <2>2, <3>1, StayStep
  <2> QED
    BY <2>1, <2>2
<1>4. Timed(obj', known', dirty')
  BY <1>1, <1>3 DEF Timed, BoardInv, BatchInv, Good, Shape
<1>5. Left(obj', known')
  BY <1>1, <1>3 DEF Left, BoardInv
<1> QED
  BY <1>3, <1>4, <1>5, ServeStep, ListStep DEF BoardInv

\* create() puts a new job on the board and in its file.
LEMMA CreateBoard ==
  ASSUME BoardInv, NEW n \in 1..maxRequests, Create(n)
  PROVE  Board!Next /\ BoardInv'
<1> DEFINE new == [status |-> "queued", item |-> [i \in 1..n |-> "queued"]]
<1>1. PICK gone \in Prunable(obj, known, TRUE) :
        \/ /\ obj' = Forget(obj, gone, runs) /\ known' = known \ gone
           /\ disk' = Without(disk, gone) /\ dirty' = dirty \ gone
        \/ /\ created < JobBound
           /\ disk' = [Without(disk, gone) EXCEPT ![created + 1] = new]
           /\ Pump([Forget(obj, gone, runs) EXCEPT ![created + 1] = new],
                   (known \ gone) \cup {created + 1}, runs, dirty \ gone)
  BY DEF Create
<1>2. /\ gone \subseteq Finished(obj, known) /\ gone \subseteq known /\ phase # "down" /\ phase' # "down"
      /\ known \subseteq 1..created /\ created \in 0..JobBound /\ known \subseteq Jobs
      /\ obj \in [Jobs -> Proper] /\ disk \in [Jobs -> Proper]
      /\ \A j \in Jobs : j > created => obj[j] = NoJob /\ disk[j] = NoJob
  BY BatchConstants DEF Prunable, Create, Finished, BoardInv, BatchInv, Good, Shape, Jobs
<1> DEFINE o == Forget(obj, gone, runs)
           dk == Without(disk, gone)
<1>3. /\ o \in [Jobs -> Proper] /\ dk \in [Jobs -> Proper]
      /\ \A j \in Jobs : /\ j \in gone => dk[j] = NoJob /\ (o[j] = NoJob \/ (o[j] = obj[j] /\ \E r \in runs : r.job = j))
                         /\ j \notin gone => dk[j] = disk[j] /\ o[j] = obj[j]
  BY <1>2, NoJobProper DEF Without, Forget
<1> HIDE DEF o, dk
<1>4. CASE /\ obj' = o /\ known' = known \ gone /\ disk' = dk /\ dirty' = dirty \ gone
  <2>1. ASSUME NEW j \in Jobs
        PROVE  JobStep(j) /\ LingerStep(j) /\ (j \in gone /\ obj'[j] # NoJob => obj'[j].status = "cancelled")
    <3>1. CASE j \in gone
      BY <1>2, <1>3, <1>4, <3>1, GoneStep
    <3>2. CASE j \notin gone
      BY <1>2, <1>3, <1>4, <3>2, StayStep
    <3> QED
      BY <3>1, <3>2
  <2>2. Timed(obj', known', dirty') /\ Left(obj', known')
    BY <1>2, <1>3, <1>4, <2>1 DEF Timed, Left, BoardInv
  <2> QED
    BY <2>1, <2>2, ServeStep, CreateStep DEF BoardInv
<1>5. CASE /\ created < JobBound /\ disk' = [dk EXCEPT ![created + 1] = new]
           /\ Pump([o EXCEPT ![created + 1] = new], (known \ gone) \cup {created + 1}, runs, dirty \ gone)
  <2>0. PICK c \in Jobs : c = created + 1
    <3>1. created \in Nat /\ JobBound \in Nat /\ created < JobBound
      BY <1>2, <1>5, BatchConstants
    <3>2. created + 1 \in Jobs
      BY <3>1 DEF Jobs
    <3> QED
      BY <3>2
  <2> DEFINE p == [o EXCEPT ![c] = new]
             kn == (known \ gone) \cup {c}
  <2>1. new \in Proper /\ new # NoJob /\ new.status = "queued" /\ new.item = [i \in 1..n |-> "queued"]
        /\ DOMAIN new.item = 1..n /\ (\A i \in 1..n : new.item[i] = "queued") /\ 1 \in 1..n
    <3>1. [i \in 1..n |-> "queued"] \in ItemLists
      BY DEF ItemLists, ItemStatus
    <3>2. new \in JobRecord
      BY <3>1 DEF JobRecord, ItemStatus
    <3> QED
      BY <3>2 DEF Proper, NoJob
  <2> HIDE DEF new
  <2>2. /\ p \in [Jobs -> Proper] /\ p[c] = new /\ disk' \in [Jobs -> Proper] /\ disk'[c] = new
        /\ \A j \in Jobs : j # c => p[j] = o[j] /\ disk'[j] = dk[j]
    BY <1>3, <1>5, <2>0, <2>1
  <2>3. c \notin known /\ c \notin gone /\ kn \subseteq Jobs /\ obj[c] = NoJob /\ disk[c] = NoJob
    BY <1>2, <2>0
  <2>4. \A j \in kn : p[j] # NoJob
    BY <1>2, <1>3, <2>1, <2>2, <2>3 DEF BoardInv, BatchInv, Good, Shape
  <2>5. Timed(p, kn, dirty \ gone)
    BY <1>2, <1>3, <2>1, <2>2, <2>3 DEF Timed, BoardInv, Pending
  <2>6. ASSUME NEW j \in Jobs, j \notin kn, p[j] # NoJob PROVE p[j].status = "cancelled"
    <3>1. j # c /\ p[j] = o[j]
      BY <2>2, <2>6
    <3>2. CASE j \in gone
      <4>1. o[j] = obj[j] /\ \E r \in runs : r.job = j
        BY <1>3, <2>6, <3>1, <3>2
      <4>2. PICK r \in runs : r.job = j
        BY <4>1
      <4>3. RunsItem(obj, r) /\ obj[j].status \in Terminal /\ obj[j] \in Proper
        BY <1>2, <3>2 DEF BoardInv, BatchInv, Good, Accounted, Finished
      <4> QED
        BY <3>1, <4>1, <4>2, <4>3 DEF RunsItem, Proper, Terminal
    <3>3. CASE j \notin gone
      BY <1>3, <2>6, <3>1, <3>3 DEF BoardInv, Left
    <3> QED
      BY <3>2, <3>3
  <2>7. Left(p, kn)
    BY <2>6 DEF Left
  <2>8. Pump(p, kn, runs, dirty \ gone)
    BY <1>5, <2>0
  <2> HIDE DEF p, kn
  <2>9. /\ Timed(obj', known', dirty') /\ Left(obj', known') /\ known' = kn
        /\ \A j \in Jobs : View(obj'[j]) = View(p[j]) /\ (obj'[j] = NoJob <=> p[j] = NoJob)
    BY <2>2, <2>3, <2>4, <2>5, <2>7, <2>8, PumpUnseen
  <2>10. ASSUME NEW j \in Jobs PROVE JobStep(j) /\ LingerStep(j)
    <3>1. CASE j = c
      <4>1. Shown(j) = Board!None /\ Shown(j)' = View(new) /\ View(disk'[j]) = View(new)
        BY <1>2, <2>2, <2>3, <2>9, <3>1, ViewNone DEF Shown, kn
      <4>2. Board!New(View(new))
        <5>1. /\ View(new).status = "open" /\ DOMAIN View(new).item = 1..n
              /\ \A i \in 1..n : View(new).item[i] = "pending"
          BY <2>1, ViewProps DEF Pending
        <5>2. View(new).item # <<>>
          BY <2>1, <5>1
        <5> QED
          BY <5>1, <5>2 DEF Board!New, Board!PendingItems
      <4> QED
        BY <2>9, <3>1, <4>1, <4>2 DEF JobStep, LingerStep, Board!Change, kn
    <3>2. CASE j \in gone
      <4>1. j # c /\ disk'[j] = NoJob /\ j \notin known'
        BY <1>3, <2>2, <2>3, <2>9, <3>2 DEF kn
      <4>2. p[j] = NoJob \/ (p[j] = obj[j] /\ \E r \in runs : r.job = j)
        BY <1>3, <2>2, <3>2, <4>1
      <4>3. Shown(j) = View(obj[j]) /\ Board!Over(Shown(j)) /\ Shown(j)' = Board!None /\ obj[j] \in Proper
        BY <1>2, <3>2, <4>1, ViewProps, ViewNone DEF Shown, Finished
      <4>4. obj'[j] # NoJob => obj[j].status = "cancelled"
        BY <2>6, <2>9, <3>2, <4>1, <4>2 DEF kn
      <4>5. obj[j].status = "cancelled" => View(obj[j]).status = "cancelled"
        BY <4>3, ViewProps DEF Pending
      <4> QED
        BY <4>1, <4>3, <4>4, <4>5, ViewNone DEF JobStep, LingerStep, Board!Change
    <3>3. CASE j # c /\ j \notin gone
      BY <1>2, <1>3, <2>2, <2>9, <3>3, StayStep DEF kn
    <3> QED
      BY <3>1, <3>2, <3>3
  <2> QED
    BY <2>9, <2>10, ServeStep, CreateStep DEF BoardInv
<1> QED
  BY <1>1, <1>4, <1>5 DEF o, dk

\* cancel() cancels an open job, on the board and in its file.
LEMMA CancelBoard ==
  ASSUME BoardInv, NEW j \in Jobs, Cancel(j)
  PROVE  Board!Next /\ BoardInv'
<1> DEFINE g == [i \in DOMAIN obj[j].item |->
                   IF obj[j].item[i] = "queued" THEN "cancelled" ELSE obj[j].item[i]]
           new == [status |-> "cancelled", item |-> g]
<1>1. /\ obj \in [Jobs -> Proper] /\ disk \in [Jobs -> Proper] /\ j \in known
      /\ obj[j] # NoJob /\ obj[j].status \notin Terminal /\ phase # "down" /\ phase' # "down"
      /\ obj' = [obj EXCEPT ![j] = new] /\ disk' = [disk EXCEPT ![j] = new]
      /\ dirty' = dirty \ {j} /\ known' = known
  BY DEF BoardInv, BatchInv, Good, Shape, Cancel
<1>2. obj[j] \in Job /\ obj[j].status \in Pending
  BY <1>1, JobOrNone DEF Proper, Job, ItemStatus, Pending, Terminal
<1>3. g \in [DOMAIN obj[j].item -> ItemStatus] /\ DOMAIN g = DOMAIN obj[j].item
      /\ \A i \in DOMAIN g : obj[j].item[i] \notin Pending => g[i] = obj[j].item[i]
  BY <1>2, ItemsType DEF Job, ItemStatus, Pending
<1>4. new.status = "cancelled" /\ new.item = g
  OBVIOUS
<1> HIDE DEF g
<1>5. new \in Proper /\ new # NoJob
  BY <1>2, <1>3, JobMade DEF ItemStatus
<1> HIDE DEF new
<1>6. /\ obj'[j] = new /\ disk'[j] = new
      /\ \A x \in Jobs : x # j => obj'[x] = obj[x] /\ disk'[x] = disk[x]
  BY <1>1
<1>7. Shown(j) = View(obj[j]) /\ Shown(j)' = View(new) /\ View(disk'[j]) = View(new)
  BY <1>1, <1>6 DEF Shown
<1>8. Board!Progress(View(obj[j]), View(new))
  <2>1. /\ View(obj[j]).status = "open" /\ DOMAIN View(obj[j]).item = DOMAIN obj[j].item
        /\ \A i \in DOMAIN obj[j].item :
             /\ View(obj[j]).item[i] = IF obj[j].item[i] \in Pending THEN "pending" ELSE obj[j].item[i]
             /\ View(obj[j]).item[i] = "pending" <=> obj[j].item[i] \in Pending
    BY <1>1, <1>2, ViewProps
  <2>2. /\ View(new).status = "cancelled" /\ DOMAIN View(new).item = DOMAIN obj[j].item
        /\ \A i \in DOMAIN obj[j].item : View(new).item[i] = IF g[i] \in Pending THEN "pending" ELSE g[i]
    BY <1>3, <1>4, <1>5, ViewProps DEF Pending
  <2> QED
    BY <1>3, <2>1, <2>2 DEF Board!Progress, Board!Continues, Board!PendingItems
<1>9. ASSUME NEW x \in Jobs PROVE JobStep(x) /\ LingerStep(x)
  <2>1. CASE x = j
    BY <1>1, <1>7, <1>8, <2>1 DEF JobStep, LingerStep, Board!Change
  <2>2. CASE x # j
    BY <1>1, <1>6, <2>2, StayStep
  <2> QED
    BY <2>1, <2>2
<1>10. Timed(obj', known', dirty') /\ Left(obj', known')
  BY <1>1, <1>6 DEF Timed, Left, BoardInv, BatchInv, Good, Shape
<1> QED
  BY <1>9, <1>10, ServeStep, CancelStep DEF BoardInv

\* A persist timer only saves what the board shows.
LEMMA SaveBoard ==
  ASSUME BoardInv, NEW j \in Jobs, Save(j)
  PROVE  Board!Next /\ BoardInv'
<1>1. /\ disk \in [Jobs -> Proper] /\ phase # "down" /\ phase' # "down"
      /\ dirty' = dirty \ {j} /\ UNCHANGED <<obj, known>>
      /\ disk' = IF j \in known THEN [disk EXCEPT ![j] = obj[j]] ELSE disk
  BY DEF BoardInv, BatchInv, Good, Shape, Save
<1>2. ASSUME NEW x \in Jobs PROVE JobStep(x) /\ LingerStep(x)
  <2>1. CASE x = j /\ j \in known
    <3>1. Shown(x)' = Shown(x) /\ View(disk'[x]) = Shown(x)'
      BY <1>1, <2>1 DEF Shown
    <3> QED
      BY <1>1, <2>1, <3>1 DEF JobStep, LingerStep, Board!Change
  <2>2. CASE ~(x = j /\ j \in known)
    <3>1. disk'[x] = disk[x]
      BY <1>1, <2>2
    <3> QED
      BY <1>1, <3>1, StayStep
  <2> QED
    BY <2>1, <2>2
<1>3. Timed(obj', known', dirty') /\ Left(obj', known')
  BY <1>1 DEF Timed, Left, BoardInv
<1> QED
  BY <1>2, <1>3, ServeStep, SaveStep DEF BoardInv

\* close() saves what the board shows.
LEMMA CloseBoard ==
  ASSUME BoardInv, Close
  PROVE  Board!Next /\ BoardInv'
<1>1. /\ phase # "down" /\ phase' # "down" /\ dirty' = {} /\ UNCHANGED <<obj, known>>
      /\ disk' = [x \in Jobs |-> IF x \in dirty \cap known THEN obj[x] ELSE disk[x]]
  BY DEF Close
<1>2. ASSUME NEW x \in Jobs PROVE JobStep(x) /\ LingerStep(x)
  <2>1. CASE x \in dirty \cap known
    <3>1. Shown(x)' = Shown(x) /\ View(disk'[x]) = Shown(x)'
      BY <1>1, <2>1 DEF Shown
    <3> QED
      BY <1>1, <2>1, <3>1 DEF JobStep, LingerStep, Board!Change
  <2>2. CASE x \notin dirty \cap known
    BY <1>1, <2>2, StayStep
  <2> QED
    BY <2>1, <2>2
<1>3. Timed(obj', known', dirty') /\ Left(obj', known')
  BY <1>1 DEF Timed, Left, BoardInv
<1> QED
  BY <1>2, <1>3, ServeStep, CloseStep DEF BoardInv

\* A process that goes is the board's restart: what is saved is shown.
LEMMA ExitBoard ==
  ASSUME BoardInv, Exit
  PROVE  Board!Next /\ BoardInv'
<1>1. /\ phase' = "down" /\ obj' = [j \in Jobs |-> NoJob] /\ known' = {} /\ dirty' = {} /\ disk' = disk
  BY DEF Exit
<1>2. Board!Restart
  BY <1>1 DEF Board!Restart
<1>3. Timed(obj', known', dirty') /\ Left(obj', known')
  BY <1>1 DEF Timed, Left
<1> QED
  BY <1>2, <1>3, ExitStep DEF BoardInv, Board!Next

\* A settled item is progress of an open job, or the end of a cancelled one.
LEMMA SettleBoard ==
  ASSUME BoardInv, NEW r \in runs, NEW st \in Terminal, Settle(r, st), phase # "down",
         obj[r.job].status = "cancelled" => st = "cancelled"
  PROVE  Board!Next /\ BoardInv'
<1>1. PICK j \in Jobs : j = r.job
  BY DEF BoardInv, BatchInv, Good, Shape, ProperRun, Run
<1>2. PICK u \in Proper, left \in [Jobs -> Proper], dt \in SUBSET Jobs : Settled(r, st, j, u, left, dt)
  BY <1>1, SettleFacts DEF BoardInv
<1>3. /\ Pump(left, known, runs \ {r}, dt) /\ phase' # "down"
      /\ u # NoJob /\ u.item = [obj[j].item EXCEPT ![r.item] = st]
      /\ \A x \in Jobs : x # j => left[x] = obj[x] /\ disk'[x] = disk[x] /\ (x \in dt <=> x \in dirty)
      /\ left[j] = u \/ (left[j] = NoJob /\ j \notin known)
      /\ disk' \in [Jobs -> Proper]
      /\ \/ disk'[j] = u /\ j \notin dt
         \/ disk'[j] = disk[j] /\ j \in dt /\ u.status \in Pending
  BY <1>2 DEF Settled, Settle
<1>4. IF \E i \in DOMAIN u.item : u.item[i] \in Pending
      THEN u.status = obj[j].status
      ELSE u.status = IF obj[j].status = "cancelled" THEN "cancelled"
                      ELSE IF \E i \in DOMAIN u.item : u.item[i] = "failed" THEN "failed"
                      ELSE "completed"
  BY <1>2 DEF Settled
<1>5. /\ obj[j] \in Proper /\ obj[j] # NoJob /\ r.item \in DOMAIN obj[j].item /\ known \subseteq Jobs
      /\ obj[j].item[r.item] = "in_progress" /\ obj[j].status \in Pending \cup {"cancelled"}
  <2>1. /\ obj[j] \in Proper /\ RunsItem(obj, r) /\ known \subseteq Jobs
    BY BatchConstants DEF BoardInv, BatchInv, Good, Shape, Accounted, Jobs
  <2>2. obj[j] \in Job
    BY <1>1, <2>1, JobOrNone DEF Proper, RunsItem
  <2> QED
    BY <1>1, <2>1, <2>2 DEF RunsItem, Proper, Pending, Job, ItemStatus
<1>6. /\ DOMAIN u.item = DOMAIN obj[j].item /\ u.item[r.item] = st
      /\ \A i \in DOMAIN obj[j].item : i # r.item => u.item[i] = obj[j].item[i]
  <2>1. obj[j].item \in [DOMAIN obj[j].item -> ItemStatus]
    BY <1>5, ItemsType, JobOrNone DEF Proper, Job
  <2> QED
    BY <1>3, <1>5, <2>1
<1>7. obj[j].status = "cancelled" => u.status = "cancelled"
  BY <1>4
<1>8. ASSUME j \notin known PROVE u.status = "cancelled" /\ disk'[j] = u
  <2>1. obj[j].status = "cancelled"
    BY <1>5, <1>8 DEF BoardInv, Left
  <2> QED
    BY <1>3, <1>7, <2>1 DEF Pending
<1>9. /\ Timed(obj', known', dirty') /\ Left(obj', known') /\ known' = known
      /\ \A x \in Jobs : View(obj'[x]) = View(left[x]) /\ (obj'[x] = NoJob <=> left[x] = NoJob)
  <2>1. \A x \in known : left[x] # NoJob
    BY <1>3, <1>5 DEF BoardInv, BatchInv, Good, Shape
  <2>2. Timed(left, known, dt)
    BY <1>3, <1>5 DEF Timed, BoardInv
  <2>3. Left(left, known)
    BY <1>3, <1>8 DEF Left, BoardInv
  <2> QED
    BY <1>3, <1>5, <2>1, <2>2, <2>3, PumpUnseen
<1>10. /\ View(u).status = (IF u.status \in Pending THEN "open" ELSE u.status)
       /\ View(obj[j]).status = (IF obj[j].status \in Pending THEN "open" ELSE obj[j].status)
       /\ DOMAIN View(u).item = DOMAIN obj[j].item /\ DOMAIN View(obj[j]).item = DOMAIN obj[j].item
       /\ \A i \in DOMAIN obj[j].item :
            /\ View(u).item[i] = IF u.item[i] \in Pending THEN "pending" ELSE u.item[i]
            /\ View(obj[j]).item[i] = IF obj[j].item[i] \in Pending THEN "pending" ELSE obj[j].item[i]
            /\ View(obj[j]).item[i] = "pending" <=> obj[j].item[i] \in Pending
            /\ View(u).item[i] = "pending" <=> u.item[i] \in Pending
  BY <1>5, <1>6, ViewProps
<1>11. Board!Continues(View(obj[j]), View(u))
  BY <1>5, <1>6, <1>10 DEF Board!Continues, Board!PendingItems, Pending
<1>12. ASSUME j \in known PROVE Board!Change(View(obj[j]), View(u))
  <2>1. CASE obj[j].status = "cancelled"
    <3>1. View(u).item[r.item] = "cancelled" /\ \A i \in DOMAIN obj[j].item : i # r.item => View(u).item[i] = View(obj[j]).item[i]
      BY <1>1, <1>5, <1>6, <1>10, <2>1 DEF Pending
    <3>2. Board!WindsUp(View(obj[j]), View(u))
      BY <1>7, <1>10, <1>11, <2>1, <3>1 DEF Board!WindsUp, Pending
    <3> QED
      BY <3>2 DEF Board!Change
  <2>2. CASE obj[j].status \in Pending
    <3>1. CASE \E i \in DOMAIN u.item : u.item[i] \in Pending
      <4>1. View(u).status = "open" /\ Board!PendingItems(View(u)) # {}
        BY <1>4, <1>6, <1>10, <2>2, <3>1 DEF Board!PendingItems
      <4> QED
        BY <1>10, <1>11, <2>2, <4>1 DEF Board!Change, Board!Progress
    <3>2. CASE ~\E i \in DOMAIN u.item : u.item[i] \in Pending
      <4>1. /\ Board!PendingItems(View(u)) = {}
            /\ \A i \in DOMAIN obj[j].item : View(u).item[i] = u.item[i]
        BY <1>6, <1>10, <3>2 DEF Board!PendingItems
      <4>2. u.status = Board!Verdict(View(u)) /\ u.status \notin Pending
        BY <1>4, <1>6, <1>10, <2>2, <3>2, <4>1 DEF Board!Verdict, Pending
      <4> QED
        BY <1>10, <1>11, <2>2, <4>1, <4>2 DEF Board!Change, Board!Progress
    <3> QED
      BY <3>1, <3>2
  <2> QED
    BY <1>5, <2>1, <2>2
<1>13. ASSUME NEW x \in Jobs PROVE JobStep(x) /\ LingerStep(x)
  <2>1. CASE x = j /\ j \in known
    <3>1. Shown(x) = View(obj[j]) /\ Shown(x)' = View(u)
      BY <1>3, <1>9, <2>1 DEF Shown
    <3>2. CASE disk'[j] = u
      BY <1>9, <1>12, <2>1, <3>1, <3>2 DEF JobStep, LingerStep
    <3>3. CASE disk'[j] = disk[j] /\ u.status \in Pending
      <4>1. View(u).status = "open" /\ View(obj[j]).status = "open"
        BY <1>5, <1>7, <1>10, <3>3 DEF Pending
      <4> QED
        BY <1>9, <1>12, <2>1, <3>1, <3>3, <4>1 DEF JobStep, LingerStep
    <3> QED
      BY <1>3, <3>2, <3>3
  <2>2. CASE x = j /\ j \notin known
    <3>1. Shown(x) = Board!None /\ Shown(x)' = Board!None
      BY <1>3, <1>9, <2>2, ViewNone DEF Shown
    <3>2. View(disk'[j]).status = "cancelled"
      BY <1>8, <1>10, <2>2 DEF Pending
    <3> QED
      BY <1>5, <2>2, <3>1, <3>2 DEF JobStep, LingerStep, Board!Change
  <2>3. CASE x # j
    BY <1>3, <1>9, <2>3, StayStep
  <2> QED
    BY <2>1, <2>2, <2>3
<1> QED
  BY <1>9, <1>13, ServeStep, SettleStep DEF BoardInv

\* An item that is tried again changes nothing on the board.
LEMMA RunBoard ==
  ASSUME BoardInv, NEW r \in runs, Answer(r) \/ WakeUp(r)
  PROVE  (Board!Next \/ UNCHANGED Board!board) /\ BoardInv'
<1>1. phase # "down"
  BY DEF Answer, WakeUp
<1>2. CASE \E st \in Terminal : Settle(r, st) /\ (obj[r.job].status = "cancelled" => st = "cancelled")
  BY <1>1, <1>2, SettleBoard
<1>3. CASE UNCHANGED <<obj, known, disk, dirty, created, phase, stops>>
  <2>1. UNCHANGED Board!board
    BY <1>3 DEF Board!board
  <2>2. BoardInv'
    BY <1>3, AnswerStep, WakeUpStep DEF BoardInv, Timed, Left
  <2> QED
    BY <2>1, <2>2
<1> QED
  BY <1>2, <1>3 DEF Answer, WakeUp, Cancelled, Terminal

\* A new process shows what it finds, but for what has expired.
LEMMA BootBoard ==
  ASSUME BoardInv, Boot
  PROVE  Board!Next /\ BoardInv'
<1> DEFINE o == [j \in Jobs |-> Reloaded(disk[j])]
           found == {j \in Jobs : disk[j] # NoJob}
<1>1. PICK gone \in Prunable(o, found, FALSE) :
        /\ Pump(Without(o, gone), found \ gone, {}, {})
        /\ disk' = Without(disk, gone)
  BY DEF Boot
<1>2. disk \in [Jobs -> Proper] /\ phase = "down" /\ phase' = "up"
  BY DEF BoardInv, BatchInv, Good, Shape, Boot
<1>3. \A j \in Jobs : /\ o[j] \in Proper /\ (o[j] = NoJob <=> disk[j] = NoJob)
                      /\ View(o[j]) = View(disk[j])
  BY <1>2, ReloadedProps, ViewReloaded
<1>4. gone \subseteq found /\ \A j \in gone : o[j].status \in Terminal
  BY DEF Prunable, Finished
<1> DEFINE w == Without(o, gone)
<1>5. /\ w \in [Jobs -> Proper]
      /\ \A j \in Jobs : /\ w[j] = IF j \in gone THEN NoJob ELSE o[j]
                         /\ disk'[j] = IF j \in gone THEN NoJob ELSE disk[j]
  BY <1>1, <1>2, <1>3, NoJobProper DEF Without
<1>6. found \subseteq Jobs /\ \A j \in Jobs : j \in found <=> disk[j] # NoJob
  OBVIOUS
<1> HIDE DEF o, found
<1>7. Pump(w, found \ gone, {}, {})
  BY <1>1
<1> HIDE DEF w
<1>8. /\ Timed(obj', known', dirty') /\ Left(obj', known') /\ known' = found \ gone
      /\ \A j \in Jobs : View(obj'[j]) = View(w[j]) /\ (obj'[j] = NoJob <=> w[j] = NoJob)
  <2>1. \A j \in found \ gone : w[j] # NoJob
    BY <1>3, <1>5, <1>6
  <2>2. Timed(w, found \ gone, {}) /\ Left(w, found \ gone)
    BY <1>3, <1>5, <1>6 DEF Timed, Left
  <2> QED
    BY <1>5, <1>6, <1>7, <2>1, <2>2, PumpUnseen
<1>9. ASSUME NEW j \in Jobs PROVE JobStep(j) /\ LingerStep(j)
  <2>1. Shown(j) = View(disk[j]) /\ Shown(j)' = IF j \in found \ gone THEN View(w[j]) ELSE Board!None
    BY <1>2, <1>8, ViewNone DEF Shown
  <2>2. j \notin known' => obj'[j] = NoJob
    BY <1>3, <1>5, <1>6, <1>8
  <2>3. CASE j \in gone
    <3>1. Board!Over(Shown(j)) /\ View(disk'[j]) = Board!None
      BY <1>3, <1>4, <1>5, <2>1, <2>3, ViewProps, ViewNone
    <3> QED
      BY <2>1, <2>2, <2>3, <3>1 DEF JobStep, LingerStep, Board!Change
  <2>4. CASE j \notin gone
    <3>1. Shown(j)' = Shown(j) /\ View(disk'[j]) = Shown(j)
      BY <1>3, <1>5, <1>6, <2>1, <2>4, ViewNone
    <3> QED
      BY <2>2, <3>1 DEF JobStep, LingerStep, Board!Change
  <2> QED
    BY <2>3, <2>4
<1> QED
  BY <1>8, <1>9, ServeStep, BootStep DEF BoardInv

\* The scheduler starts with an empty board.
LEMMA BoardInit == Init => Board!Init /\ BoardInv
<1> SUFFICES ASSUME Init PROVE Board!Init /\ BoardInv
  OBVIOUS
<1>1. Board!Init
  BY ViewNone DEF Init, Board!Init
<1>2. Timed(obj, known, dirty) /\ Left(obj, known)
  BY DEF Init, Timed, Left
<1> QED
  BY <1>1, <1>2, BatchInvInit DEF BoardInv

\* Every action is a step of the board or changes nothing it shows.
LEMMA BoardNext == BoardInv /\ [Next]_vars => [Board!Next]_(Board!board) /\ BoardInv'
<1> SUFFICES ASSUME BoardInv, [Next]_vars
             PROVE  (Board!Next \/ UNCHANGED Board!board) /\ BoardInv'
  OBVIOUS
<1>1. CASE \E n \in 1..maxRequests : Create(n)
  BY <1>1, CreateBoard
<1>2. CASE List
  BY <1>2, ListBoard
<1>3. CASE \E j \in Jobs : Cancel(j) \/ Save(j)
  BY <1>3, CancelBoard, SaveBoard
<1>4. CASE \E r \in runs : Answer(r) \/ WakeUp(r)
  BY <1>4, RunBoard
<1>5. CASE Close
  BY <1>5, CloseBoard
<1>6. CASE Exit
  BY <1>6, ExitBoard
<1>7. CASE Boot
  BY <1>7, BootBoard
<1>8. CASE UNCHANGED vars
  <2>1. UNCHANGED Board!board
    BY <1>8 DEF vars, Board!board
  <2>2. BatchInv'
    BY BatchInvNext DEF BoardInv
  <2>3. Timed(obj', known', dirty') /\ Left(obj', known')
    BY <1>8 DEF vars, Timed, Left, BoardInv
  <2> QED
    BY <2>1, <2>2, <2>3 DEF BoardInv
<1> QED
  BY <1>1, <1>2, <1>3, <1>4, <1>5, <1>6, <1>7, <1>8 DEF Next

\* BatchManager implements the board of JobBoard.tla: every step of it, crashes
\* and restarts included, is a step of the board or changes nothing that its
\* clients see.
THEOREM BoardImplemented == Spec => ImplementsBoard
BY BoardInit, BoardNext, PTL DEF Spec, ImplementsBoard, Board!Spec
=============================================================================

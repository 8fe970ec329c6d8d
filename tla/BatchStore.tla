----------------------------- MODULE BatchStore -----------------------------
(***************************************************************************)
(* BatchManager of src/scheduling/batch-store.ts: persistent batch jobs    *)
(* whose items run with bounded concurrency and bounded retries, cancelled *)
(* by clients, pruned for room, saved at once or after a delay, reloaded   *)
(* after a crash or a graceful restart.                                    *)
(*                                                                         *)
(* One action is one macrotask with the microtasks it queues: #pump, which *)
(* #schedulePump defers to a microtask, is part of the action that         *)
(* schedules it.  A write is a temporary file and a rename, hence atomic.  *)
(* A job record outlives its removal from #jobs while #runItem holds it.   *)
(***************************************************************************)
EXTENDS Integers, Sequences, FiniteSets

CONSTANTS
  concurrency,  \* config.batchConcurrency
  maxJobs,      \* config.batchMaxJobs
  maxRequests,  \* config.batchMaxRequests
  JobBound,     \* bound: jobs created in one behaviour
  MaxStops      \* bound: crashes and graceful shutdowns in one behaviour

ASSUME BatchConstants ==
  /\ concurrency \in Nat \ {0} /\ maxJobs \in Nat \ {0}
  /\ maxRequests \in Nat \ {0} /\ JobBound \in Nat /\ MaxStops \in Nat

VARIABLES
  obj,      \* [Jobs -> record]: the job objects in memory
  known,    \* the jobs in #jobs
  disk,     \* [Jobs -> record]: the job files
  dirty,    \* #dirtyJobs, each with its persist timer
  runs,     \* the #runItem calls in progress, #active of them
  created,  \* jobs created so far; their creation order is their number
  phase,    \* "up", "closing" (close() has run) or "down"
  stops     \* crashes and shutdowns so far (bounded by MaxStops)

vars == <<obj, known, disk, dirty, runs, created, phase, stops>>

MaxAttempts == 3

Jobs == 1..JobBound
ItemStatus == {"queued", "in_progress", "completed", "failed", "cancelled"}
Terminal == {"completed", "failed", "cancelled"}
Pending == {"queued", "in_progress"}

NoJob == [status |-> "none", item |-> <<>>]
ItemLists == UNION {[1..n -> ItemStatus] : n \in 1..maxRequests}
JobRecord == {NoJob} \cup [status : ItemStatus, item : ItemLists]
Run == [job : Jobs, item : 1..maxRequests, attempt : 1..MaxAttempts,
        state : {"executing", "sleeping"}, aborted : BOOLEAN]

TypeOK ==
  /\ obj \in [Jobs -> JobRecord] /\ disk \in [Jobs -> JobRecord]
  /\ known \subseteq Jobs /\ dirty \subseteq Jobs
  /\ runs \subseteq Run
  /\ created \in 0..JobBound
  /\ phase \in {"up", "closing", "down"}
  /\ stops \in 0..MaxStops

Init ==
  /\ obj = [j \in Jobs |-> NoJob] /\ disk = [j \in Jobs |-> NoJob]
  /\ known = {} /\ dirty = {} /\ runs = {}
  /\ created = 0 /\ phase = "up" /\ stops = 0

-----------------------------------------------------------------------------
Done(o, j) == \A i \in DOMAIN o[j].item : o[j].item[i] \notin Pending
Finished(o, kn) == {j \in kn : o[j].status \in Terminal}

\* The items #nextItem may find.
Queued(o, kn) ==
  {p \in kn \X (1..maxRequests) :
     /\ o[p[1]].status \notin Terminal
     /\ p[2] \in DOMAIN o[p[1]].item /\ o[p[1]].item[p[2]] = "queued"}

\* The items come one job after another and within a job in their order.  Which
\* of two jobs comes first is left open: they may be of the same second, and a new
\* process finds them in the order of its directory.
InTurn(ps, queued) ==
  LET rest == queued \ ps IN
  /\ \A p \in ps, q \in rest : p[1] = q[1] => p[2] < q[2]
  /\ \A p, q \in ps : (\E r, t \in rest : r[1] = p[1] /\ t[1] = q[1]) => p[1] = q[1]

Free(rn) == concurrency - Cardinality(rn)

\* Mutant: one item more than there are free slots.
PickedOneMore(o, kn, rn) ==
  LET queued == Queued(o, kn) IN
  {ps \in SUBSET queued : Cardinality(ps) <= Free(rn) + 1 /\ InTurn(ps, queued)}

\* The items #pump starts: as many as slots are free, or all.
Picked(o, kn, rn) ==
  LET queued == Queued(o, kn) IN
  {ps \in SUBSET queued :
     /\ Cardinality(ps) <= Free(rn) /\ (ps = queued \/ Cardinality(ps) = Free(rn))
     /\ InTurn(ps, queued)}

JobsOf(ps) == {p[1] : p \in ps}

Launched(o, ps) ==
  [j \in Jobs |->
     IF j \in JobsOf(ps)
     THEN [status |-> "in_progress",
           item |-> [i \in DOMAIN o[j].item |->
                       IF <<j, i>> \in ps THEN "in_progress" ELSE o[j].item[i]]]
     ELSE o[j]]

NewRuns(ps) ==
  {[job |-> p[1], item |-> p[2], attempt |-> 1, state |-> "executing",
    aborted |-> FALSE] : p \in ps}

\* #pump after the caller's own updates of memory, #jobs, runs and dirty jobs.
Pump(o, kn, rn, dt) ==
  \E ps \in (IF phase = "closing" THEN {{}} ELSE Picked(o, kn, rn)) :
    /\ obj' = Launched(o, ps)
    /\ known' = kn
    /\ runs' = rn \cup NewRuns(ps)
    /\ dirty' = dt \cup JobsOf(ps)

\* #prune: expired terminal jobs go (which ones the clock decides); with
\* makeRoom so do others until there is room (the least recently updated; a
\* resolution of one second makes it any of them).
Prunable(o, kn, makeRoom) ==
  {gone \in SUBSET Finished(o, kn) :
     makeRoom =>
       \/ Cardinality(kn \ gone) < maxJobs
       \/ gone = Finished(o, kn)}

Without(o, gone) == [j \in Jobs |-> IF j \in gone THEN NoJob ELSE o[j]]

\* A removed job's object goes with its last #runItem.
Forget(o, gone, rn) == Without(o, gone \ {r.job : r \in rn})

-----------------------------------------------------------------------------
\* create(): prune, then refuse or accept, save and pump; like the other calls of
\* clients also after close(), while the servers drain.
Create(n) ==
  /\ phase # "down"
  /\ \E gone \in Prunable(obj, known, TRUE) :
       LET kept == known \ gone
           j == created + 1
           o == Forget(obj, gone, runs)
           new == [status |-> "queued", item |-> [i \in 1..n |-> "queued"]]
       IN
       \/ /\ Cardinality(kept) >= maxJobs
          /\ obj' = o /\ known' = kept /\ disk' = Without(disk, gone)
          /\ dirty' = dirty \ gone
          /\ UNCHANGED <<runs, created>>
       \/ /\ Cardinality(kept) < maxJobs /\ created < JobBound
          /\ created' = j
          /\ disk' = [Without(disk, gone) EXCEPT ![j] = new]
          /\ Pump([o EXCEPT ![j] = new], kept \cup {j}, runs, dirty \ gone)
  /\ UNCHANGED <<phase, stops>>

\* list(): prunes what has expired.
List ==
  /\ phase # "down"
  /\ \E gone \in Prunable(obj, known, FALSE) :
       /\ obj' = Forget(obj, gone, runs)
       /\ known' = known \ gone
       /\ disk' = Without(disk, gone)
       /\ dirty' = dirty \ gone
  /\ UNCHANGED <<runs, created, phase, stops>>

Aborted(rn, js) == {[r EXCEPT !.aborted = @ \/ r.job \in js] : r \in rn}

\* cancel(): queued items are cancelled, running ones aborted, the job saved.
Cancel(j) ==
  LET new == [status |-> "cancelled",
              item |-> [i \in DOMAIN obj[j].item |->
                          IF obj[j].item[i] = "queued" THEN "cancelled"
                                                       ELSE obj[j].item[i]]]
  IN
  /\ phase # "down"
  /\ j \in known /\ obj[j].status \notin Terminal
  /\ obj' = [obj EXCEPT ![j] = new]
  /\ disk' = [disk EXCEPT ![j] = new]
  /\ dirty' = dirty \ {j}
  /\ runs' = Aborted(runs, {j})
  /\ UNCHANGED <<known, created, phase, stops>>

-----------------------------------------------------------------------------
\* #finishJobIfDone on a job without pending items.
Outcome(o, j) ==
  IF o[j].status = "cancelled" THEN "cancelled"
  ELSE IF \E i \in DOMAIN o[j].item : o[j].item[i] = "failed" THEN "failed"
  ELSE "completed"

\* #runItem ends with the item in status st: the job is saved at once if it is
\* over or cancelled (even if it was pruned meanwhile), later otherwise; then
\* the pump runs.
Settle(r, st) ==
  LET j == r.job
      o == [obj EXCEPT ![j].item[r.item] = st]
      now == Done(o, j) \/ o[j].status = "cancelled"
      rest == runs \ {r}
      saved == IF Done(o, j) THEN [o EXCEPT ![j].status = Outcome(o, j)] ELSE o
      left == IF j \in known THEN saved ELSE Forget(saved, {j}, rest)
  IN
  /\ Pump(left, known, rest, IF now THEN dirty \ {j} ELSE dirty \cup {j})
  /\ disk' = IF now THEN [disk EXCEPT ![j] = saved[j]] ELSE disk
  /\ UNCHANGED <<created, phase, stops>>

\* Mutant: the status is not read again after the executor's answer.
CancelledBefore(r) == r.state = "sleeping" /\ (obj[r.job].status = "cancelled" \/ r.aborted)

\* isBatchCancelled
Cancelled(r) == obj[r.job].status = "cancelled" \/ r.aborted

\* Mutant: one attempt too many.
TriesOnceMore(r) == r.attempt <= MaxAttempts

TriesAgain(r) == r.attempt < MaxAttempts

\* The executor answers or throws.  An aborted request never counts, whatever
\* came of it; a retryable answer or an error is tried again after a pause.
Answer(r) ==
  /\ phase # "down"
  /\ r.state = "executing"
  /\ \/ Cancelled(r) /\ Settle(r, "cancelled")
     \/ ~Cancelled(r) /\ \E st \in {"completed", "failed"} : Settle(r, st)
     \/ /\ ~Cancelled(r) /\ TriesAgain(r)
        /\ runs' = (runs \ {r}) \cup {[r EXCEPT !.state = "sleeping"]}
        /\ UNCHANGED <<obj, known, disk, dirty, created, phase, stops>>

\* The pause before a retry is over.
WakeUp(r) ==
  /\ phase # "down"
  /\ r.state = "sleeping"
  /\ \/ Cancelled(r) /\ Settle(r, "cancelled")
     \/ /\ ~Cancelled(r)
        /\ runs' = (runs \ {r})
                     \cup {[r EXCEPT !.state = "executing", !.attempt = @ + 1]}
        /\ UNCHANGED <<obj, known, disk, dirty, created, phase, stops>>

\* Mutant: the timer forgets the job before it writes it.
SaveNothing(j) ==
  /\ phase # "down"
  /\ j \in dirty
  /\ dirty' = dirty \ {j}
  /\ UNCHANGED <<obj, known, disk, runs, created, phase, stops>>

\* The persist timer of j fires.
Save(j) ==
  /\ phase # "down"
  /\ j \in dirty
  /\ dirty' = dirty \ {j}
  /\ disk' = IF j \in known THEN [disk EXCEPT ![j] = obj[j]] ELSE disk
  /\ UNCHANGED <<obj, known, runs, created, phase, stops>>

-----------------------------------------------------------------------------
\* close(): aborts the running items and saves the dirty jobs.  The process
\* lives on until its servers and pools have closed.
Close ==
  /\ phase = "up" /\ stops < MaxStops
  /\ phase' = "closing"
  /\ stops' = stops + 1
  /\ runs' = Aborted(runs, Jobs)
  /\ disk' = [j \in Jobs |-> IF j \in dirty \cap known THEN obj[j] ELSE disk[j]]
  /\ dirty' = {}
  /\ UNCHANGED <<obj, known, created>>

\* The process is gone, killed or at the end of its shutdown.
Exit ==
  /\ phase = "closing" \/ (phase = "up" /\ stops < MaxStops)
  /\ stops' = IF phase = "up" THEN stops + 1 ELSE stops
  /\ phase' = "down"
  /\ obj' = [j \in Jobs |-> NoJob]
  /\ known' = {} /\ dirty' = {} /\ runs' = {}
  /\ UNCHANGED <<disk, created>>

\* Mutant: items that were in progress stay so.
ReloadedAsIs(job) == job

\* #load on one job file.
Reloaded(job) ==
  IF job.status \in Terminal \cup {"none"} THEN job
  ELSE [status |-> "queued",
        item |-> [i \in DOMAIN job.item |->
                    IF job.item[i] = "in_progress" THEN "queued" ELSE job.item[i]]]

\* A new process: #load with its #prune, then start().
Boot ==
  /\ phase = "down"
  /\ phase' = "up"
  /\ LET o == [j \in Jobs |-> Reloaded(disk[j])]
         found == {j \in Jobs : disk[j] # NoJob}
     IN \E gone \in Prunable(o, found, FALSE) :
          /\ Pump(Without(o, gone), found \ gone, {}, {})
          /\ disk' = Without(disk, gone)
  /\ UNCHANGED <<created, stops>>

Next ==
  \/ \E n \in 1..maxRequests : Create(n)
  \/ List
  \/ \E j \in Jobs : Cancel(j) \/ Save(j)
  \/ \E r \in runs : Answer(r) \/ WakeUp(r)
  \/ Close \/ Exit \/ Boot

Spec == Init /\ [][Next]_vars

\* Every executor call ends (its request has a timeout) and every timer fires;
\* a process that stopped is started again (its supervisor's part).
Fairness ==
  /\ \A j \in Jobs, i \in 1..maxRequests :
       WF_vars(\E r \in runs : r.job = j /\ r.item = i /\ (Answer(r) \/ WakeUp(r)))
  /\ \A j \in Jobs : WF_vars(Save(j))
  /\ WF_vars(phase = "closing" /\ Exit) /\ WF_vars(Boot)

FairSpec == Spec /\ Fairness

-----------------------------------------------------------------------------
(***************************************************************************)
(* Properties.                                                             *)
(***************************************************************************)

\* "Maximum concurrently executing batch items": across jobs, retries and
\* restarts no more than concurrency items are in an executor call or waiting
\* for their next attempt.
BoundedConcurrency == Cardinality(runs) <= concurrency

\* Each #runItem has an item in progress, no item has two, and an item in
\* progress without one belongs to a job that was cancelled before a crash.
ExecutionAccounted ==
  /\ \A r, q \in runs : r.job = q.job /\ r.item = q.item => r = q
  /\ \A r \in runs : obj[r.job].item[r.item] = "in_progress"
  /\ \A j \in known : \A i \in DOMAIN obj[j].item :
       obj[j].item[i] = "in_progress" =>
         obj[j].status = "cancelled" \/ \E r \in runs : r.job = j /\ r.item = i

\* Nothing is lost beyond the delay of a persist timer: a retained job without
\* one would be reloaded as what it is in memory, accepted jobs included.
SavedOrDirty ==
  \A j \in known \ dirty : Reloaded(disk[j]) = Reloaded(obj[j])

\* A job as GET /v1/batches shows it, and as it would be found again.
View(job) ==
  [status |-> IF job.status \in Pending THEN "open" ELSE job.status,
   item |-> [i \in DOMAIN job.item |->
               IF job.item[i] \in Pending THEN "pending" ELSE job.item[i]]]

Board == INSTANCE JobBoard WITH
  shown <- [j \in Jobs |-> View(IF phase = "down" THEN disk[j]
                                ELSE IF j \in known THEN obj[j] ELSE NoJob)],
  saved <- [j \in Jobs |-> View(disk[j])],
  lingering <- {j \in Jobs \ known : obj[j] # NoJob}

\* The scheduler keeps its promise: results and verdicts never change, nothing
\* comes of a cancelled job any more, and what clients have seen accepted, over
\* or cancelled survives crashes and restarts (JobBoard.tla).
ImplementsBoard == Board!Spec

\* Every accepted job is settled on disk some day, or was removed, whatever
\* crashes and restarts come in between.
JobsSettle ==
  \A j \in Jobs :
    created >= j ~> disk[j] = NoJob \/ disk[j].status \in Terminal
=============================================================================

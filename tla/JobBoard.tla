------------------------------ MODULE JobBoard ------------------------------
(***************************************************************************)
(* What the batch scheduler promises its clients, whatever it does inside: *)
(* a board of jobs and the copy of it that survives a crash.  BatchStore   *)
(* implements it (ImplementsBoard there).                                  *)
(*                                                                         *)
(* A job is accepted with all its items pending, gets one result per item, *)
(* is over with a verdict or cancelled, and may then be taken off the      *)
(* board.  What a client has seen accepted, over or cancelled is saved; a  *)
(* crash takes back at most results of jobs that are still open.           *)
(***************************************************************************)
EXTENDS Naturals, Sequences

CONSTANT Jobs

VARIABLES
  shown,      \* [Jobs -> a job as clients see it]
  saved,      \* [Jobs -> a job as a new process would find it]
  lingering   \* cancelled jobs taken off the board with an item still running

board == <<shown, saved, lingering>>

None == [status |-> "none", item |-> <<>>]
Over(v) == v.status \in {"completed", "failed", "cancelled"}
PendingItems(v) == {i \in DOMAIN v.item : v.item[i] = "pending"}

Init ==
  /\ shown = [j \in Jobs |-> None] /\ saved = [j \in Jobs |-> None]
  /\ lingering = {}

\* A job just accepted.
New(v) == v.status = "open" /\ v.item # <<>> /\ PendingItems(v) = DOMAIN v.item

\* b has the items of a, and their results.
Continues(a, b) ==
  /\ DOMAIN b.item = DOMAIN a.item
  /\ \A i \in DOMAIN a.item \ PendingItems(a) : b.item[i] = a.item[i]

Verdict(v) ==
  IF \E i \in DOMAIN v.item : v.item[i] = "failed" THEN "failed" ELSE "completed"

\* An open job gets results, is cancelled, or is over with its last result.
Progress(a, b) ==
  /\ a.status = "open" /\ Continues(a, b)
  /\ \/ b.status = "open" /\ PendingItems(b) # {}
     \/ b.status = "cancelled"
     \/ b.status = Verdict(b) /\ PendingItems(b) = {}

\* The running items of a cancelled job end as cancelled, whatever their answer.
WindsUp(a, b) ==
  /\ a.status = "cancelled" /\ b.status = "cancelled" /\ Continues(a, b)
  /\ \A i \in DOMAIN a.item : b.item[i] \in {a.item[i], "cancelled"}

\* What a step may make of a job.
Change(a, b) ==
  \/ b = a
  \/ a = None /\ New(b)
  \/ Progress(a, b) \/ WindsUp(a, b)
  \/ Over(a) /\ b = None

\* What is saved of a job: all that is shown, except that results of an open job
\* may follow later, and that the last item of a cancelled job writes it once
\* more although the job has been taken off the board.
Saves(j) ==
  \/ saved'[j] = shown'[j]
  \/ saved'[j] = saved[j] /\ shown[j].status = "open" /\ shown'[j].status = "open"
  \/ shown'[j] = None /\ saved'[j] = saved[j] /\ shown[j] = None
  \/ shown'[j] = None /\ saved'[j].status = "cancelled" /\ j \in lingering

Serve ==
  /\ \A j \in Jobs : Change(shown[j], shown'[j]) /\ Saves(j)
  /\ lingering' \subseteq
       lingering \cup {j \in Jobs : shown[j].status = "cancelled" /\ shown'[j] = None}

\* The process ends; the next one shows what was saved.
Restart == shown' = saved /\ UNCHANGED saved /\ lingering' = {}

Next == Serve \/ Restart

Spec == Init /\ [][Next]_board
=============================================================================

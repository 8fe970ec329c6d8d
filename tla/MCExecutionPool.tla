--------------------------- MODULE MCExecutionPool ---------------------------
(***************************************************************************)
(* Small instances of ExecutionPool for TLC.  "i" is the interactive lane, *)
(* "b" the batch lane.                                                     *)
(***************************************************************************)
EXTENDS ExecutionPool, TLC

CONSTANT r1   \* the slot that sends batch calls in the two-lane instance

\* One lane, a ceiling of two workers and a warm floor of one.
OneLane == {"i"}
OneHome == [r \in Requests |-> "i"]
OneLender == [l \in OneLane |-> l]
OnePool == [l \in OneLane |-> 2]
OneWarm == [l \in OneLane |-> 1]
OneQueue == [l \in OneLane |-> 2]
NoLane == {}

\* Two lanes of one worker each; the interactive lane borrows from the batch
\* lane, and one of the slots sends batch calls.
TwoLanes == {"i", "b"}
TwoHome == [r \in Requests |-> IF r = r1 THEN "b" ELSE "i"]
TwoLender == [l \in TwoLanes |-> "b"]
TwoPool == [l \in TwoLanes |-> 1]
TwoQueue == [l \in TwoLanes |-> 2]

Symmetry == Permutations(Requests)
=============================================================================

----------------------------- MODULE MCToolTurns -----------------------------
(***************************************************************************)
(* Small instances of ToolTurns for TLC: start requests of one or of two   *)
(* owners, and the clients that return outputs.                            *)
(***************************************************************************)
EXTENDS ToolTurns

CONSTANT s1

\* The first start request and all resumes are of one owner.
TwoOwners == {"o", "p"}
Owned == [q \in Starts |-> IF q = s1 THEN "o" ELSE "p"]
Asking == [r \in Resumes |-> "o"]

=============================================================================

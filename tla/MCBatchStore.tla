---------------------------- MODULE MCBatchStore ----------------------------
(***************************************************************************)
(* Small instances of BatchStore for TLC.                                  *)
(***************************************************************************)
EXTENDS BatchStore, TLC
=============================================================================

----------------------------- MODULE MCAddItems -----------------------------
(***************************************************************************)
(* A small instance of AddItems: two callers, two workers, calls of one    *)
(* row (done by one thread) and of two (shared by both workers), ids that  *)
(* are apart or have one in common, and an index that two large calls      *)
(* overfill.                                                               *)
(***************************************************************************)
EXTENDS AddItems

=============================================================================

---------------------------- MODULE MCBruteForce ----------------------------
(***************************************************************************)
(* A small instance of BruteForce: two threads, four labels, three slots,  *)
(* so that the array fills up while labels are left.                       *)
(***************************************************************************)
EXTENDS BruteForce

MCLabels == 1 .. 4
Symmetry == Permutations(Threads)

\* Nothing is stated of an index once a call has been misled, so the states this
\* leads to are checked but not continued.
NotMisled == ~misled

=============================================================================

---------------------------- MODULE MCLabelTable ----------------------------
(***************************************************************************)
(* Two threads, three labels of which two share an operation lock, and at  *)
(* most two slots: calls wait for each other's lock although their labels  *)
(* differ, the index fills up, and there is always a label left to take    *)
(* over a vacant slot.                                                     *)
(***************************************************************************)
EXTENDS LabelTable

MCLabels == {0, 1, 2}
=============================================================================

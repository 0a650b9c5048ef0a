------------------------- MODULE MCVisitedListPool -------------------------
(* Two searching threads, two slots and tags 0..3: lists wrap their tags    *)
(* over and over.  One list identity per thread is enough: a thread holds   *)
(* at most one list and a leaked identity is recycled.                      *)
EXTENDS VisitedListPool
=============================================================================

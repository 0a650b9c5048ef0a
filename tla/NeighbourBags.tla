--------------------------- MODULE NeighbourBags ---------------------------
(***************************************************************************)
(* Neighbour lists as bags: a list may hold an element twice, and its order*)
(* is not looked at.  These are the operators of the standard module Bags, *)
(* with the size of a bag defined by counting its copies, which is what    *)
(* the facts about cardinality speak of; MCGraphInsert compares the two.   *)
(***************************************************************************)
EXTENDS Integers, FiniteSets

IsABag(b) == b \in [DOMAIN b -> {n \in Nat : n > 0}]
BagToSet(b) == DOMAIN b
SetToBag(S) == [e \in S |-> 1]
BagIn(e, b) == e \in DOMAIN b
EmptyBag == SetToBag({})

a (+) b ==
    [e \in DOMAIN a \cup DOMAIN b |->
        (IF e \in DOMAIN a THEN a[e] ELSE 0) + (IF e \in DOMAIN b THEN b[e] ELSE 0)]

a (-) b ==
    LET left == [e \in DOMAIN a |-> IF e \in DOMAIN b THEN a[e] - b[e] ELSE a[e]]
    IN  [e \in {d \in DOMAIN a : left[d] > 0} |-> left[e]]

\* The copies of the members of S, told apart by number.
Copies(b, S) == UNION {{e} \X (1 .. b[e]) : e \in S}
BagCardinality(b) == Cardinality(Copies(b, DOMAIN b))

\* The bags with no more copies of anything than b has.
SubBag(b) ==
    {s \in UNION {[D -> UNION {1 .. b[e] : e \in D}] : D \in SUBSET DOMAIN b} :
        \A e \in DOMAIN s : s[e] <= b[e]}
=============================================================================

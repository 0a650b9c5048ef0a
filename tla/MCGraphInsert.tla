--------------------------- MODULE MCGraphInsert ---------------------------
(***************************************************************************)
(* M is 2, the least value for which getRandomLevel is defined, so lists   *)
(* overflow above the ground level as soon as four nodes share a level.    *)
(* MCGraphInsert.cfg builds the graph from nothing with three threads;     *)
(* MCGraphUpdate.cfg runs two insertions and updates of a third element    *)
(* against each other, with fairness.  MCGraphUpdateRace.cfg starts from a *)
(* graph of three nodes.                                                   *)
(***************************************************************************)
EXTENDS GraphInsert, TLC

\* Threads are alike, and so are the nodes that are not in the graph yet:
\* Updatable and Markable hold all or none of them wherever this is used.
Symmetry == Permutations(Threads) \cup Permutations(Nodes \ Seeds)

\* NeighbourBags has the operators of the standard module: compared on all bags
\* of up to three members with up to two copies.
B == INSTANCE Bags

SmallBags == UNION {[D -> 1 .. 2] : D \in SUBSET (1 .. 3)}

ASSUME BagsAgree ==
    /\ \A S \in SUBSET (1 .. 3) : SetToBag(S) = B!SetToBag(S)
    /\ \A a \in SmallBags :
         /\ BagCardinality(a) = B!BagCardinality(a)
         /\ SubBag(a) = B!SubBag(a)
         /\ \A b \in SmallBags : a (+) b = B!(+)(a, b) /\ a (-) b = B!(-)(a, b)
=============================================================================

----------------------------- MODULE SearchInv -----------------------------
(***************************************************************************)
(* The invariant behind the results of searchKnn.  Its heart is what an    *)
(* element that has been visited can be: waiting as a candidate, expanded  *)
(* (its list visited but for what is still to be looked at), or passed over*)
(* because ef elements no further away were known.                         *)
(***************************************************************************)
EXTENDS Search

Knn == q.mode \in {"bare", "knn"}

TypeOK ==
    /\ q \in QueryType /\ (q.mode = "bare" => q.rejected = {}) /\ q.num.limit >= 1
    /\ pc \in {"enter", "descend", "start", "search", "trim", "results", "done"}
    /\ pc \notin {"enter", "done"} => q.entry # None
    /\ q.entry # None /\ pc # "enter" => currObj \in Nodes
    /\ level \in Nat /\ changed \in BOOLEAN
    /\ todo \subseteq Nodes /\ visited \subseteq Nodes
    /\ candidate_set \subseteq Nodes /\ top_candidates \subseteq Nodes
    /\ lowerBound \in 0 .. MaxDist

\* On the list it is looking at currObj has been compared with what is no longer
\* to do, unless it has moved.
DescentInv ==
    /\ pc = "enter" => changed = FALSE
    /\ pc \in {"enter", "descend", "start"} => top_candidates = {}
    /\ pc \in {"enter", "start"} => todo = {}
    /\ pc = "descend" =>
         /\ level \in 1 .. Len(q.upper)
         /\ changed = FALSE =>
              \A n \in q.upper[level][currObj] \ todo : q.dist[currObj] <= q.dist[n]
    /\ pc \in {"start", "search", "trim", "results", "done"} /\ q.entry # None
         /\ q.upper # << >> =>
              \A n \in q.upper[1][currObj] : q.dist[currObj] <= q.dist[n]

Full == Cardinality(top_candidates) >= limit

\* Of two elements m and n, m is the better result.
NoFurther(m, n) == q.dist[m] <= q.dist[n]

GroundInv ==
    Knn /\ pc \in {"search", "trim"} =>
        /\ currObj \in visited
        /\ candidate_set \subseteq visited /\ top_candidates \subseteq visited
        /\ \A n \in top_candidates : Allowed(n)
        /\ \A m \in visited :
             \/ m \in candidate_set
             \/ q.base[m] \subseteq visited \cup todo
             \/ m \notin top_candidates /\ Full
        /\ \A n \in visited \ top_candidates : Allowed(n) =>
             Full /\ \A f \in top_candidates : NoFurther(f, n)
        /\ pc = "search" =>
             /\ Cardinality(top_candidates) <= limit
             /\ \A f \in top_candidates : q.dist[f] <= lowerBound
             /\ top_candidates # {} => \E f \in top_candidates : q.dist[f] = lowerBound
        /\ pc = "trim" => Cardinality(top_candidates) <= limit + 1

\* The sets of elements that nothing leaves.
Closed(S) == S \subseteq Nodes /\ currObj \in S /\ \A m \in S : q.base[m] \subseteq S

\* Only what can be reached is visited.
ReachInv ==
    pc \in {"search", "trim"} =>
        \A S \in SUBSET Nodes : Closed(S) =>
            visited \subseteq S /\ todo \subseteq S /\ candidate_set \subseteq S

all == {n \in Reachable(Nodes) : Allowed(n)}

ResultInv ==
    Knn /\ pc \in {"results", "done"} /\ q.entry # None =>
        /\ found \subseteq all /\ top_candidates \subseteq found
        /\ Cardinality(found) >= limit \/ found = all
        /\ \A m \in top_candidates, n \in found \ top_candidates : NoFurther(m, n)
        /\ Cardinality(top_candidates) >= wanted \/ top_candidates = found
        /\ pc = "done" => Cardinality(top_candidates) <= wanted

IInv == TypeOK /\ DescentInv /\ GroundInv /\ ReachInv /\ ResultInv /\ LocalOptimum
=============================================================================

----------------------------- MODULE VisitedSet -----------------------------
(***************************************************************************)
(* What a graph search needs from its visited list: a private set of slots *)
(* that is empty when the search begins, that only the search itself adds  *)
(* to, and that forgets everything when the search ends.                   *)
(* VisitedListPool is shown to implement this specification.               *)
(***************************************************************************)
CONSTANTS Threads,  \* threads that search the graph
          Slots     \* internal ids (tableint) a search may visit

VARIABLES searching,  \* the threads that are inside a search
          visited     \* the slots each thread has visited in its search

vars == <<searching, visited>>

TypeOK ==
    /\ searching \subseteq Threads
    /\ visited \in [Threads -> SUBSET Slots]

Init ==
    /\ searching = {}
    /\ visited = [t \in Threads |-> {}]

Begin(t) ==
    /\ t \notin searching
    /\ searching' = searching \cup {t}
    /\ visited' = [visited EXCEPT ![t] = {}]

Visit(t, i) ==
    /\ t \in searching
    /\ i \notin visited[t]
    /\ visited' = [visited EXCEPT ![t] = @ \cup {i}]
    /\ UNCHANGED searching

End(t) ==
    /\ t \in searching
    /\ searching' = searching \ {t}
    /\ visited' = [visited EXCEPT ![t] = {}]

Next ==
    \E t \in Threads :
        \/ Begin(t)
        \/ \E i \in Slots : Visit(t, i)
        \/ End(t)

Spec == Init /\ [][Next]_vars
=============================================================================

------------------------------ MODULE LabelMap ------------------------------
(***************************************************************************)
(* What the index promises about labels: a bounded map from labels to      *)
(* vectors in which an entry may be marked deleted.  A deleted entry still *)
(* takes up room; the room of a deleted entry can be handed to a new label *)
(* (Rename), which starts out with the old vector, still deleted.          *)
(***************************************************************************)
EXTENDS Naturals, FiniteSets

CONSTANTS Labels, Values, Absent

VARIABLES value,    \* the vector of each label, or Absent
          deleted,  \* the labels marked deleted
          room      \* how many labels fit

vars == <<value, deleted, room>>

Present == {l \in Labels : value[l] # Absent}

TypeOK ==
    /\ value \in [Labels -> Values \cup {Absent}]
    /\ deleted \subseteq Present
    /\ room \in Nat
    /\ Cardinality(Present) <= room

Init ==
    /\ value = [l \in Labels |-> Absent]
    /\ deleted = {}
    /\ room \in Nat

Insert(l, v) ==
    /\ l \notin Present
    /\ Cardinality(Present) < room
    /\ value' = [value EXCEPT ![l] = v]
    /\ UNCHANGED <<deleted, room>>

Update(l, v) ==
    /\ l \in Present \ deleted
    /\ value' = [value EXCEPT ![l] = v]
    /\ UNCHANGED <<deleted, room>>

Delete(l) ==
    /\ l \in Present \ deleted
    /\ deleted' = deleted \cup {l}
    /\ UNCHANGED <<value, room>>

Undelete(l) ==
    /\ l \in deleted
    /\ deleted' = deleted \ {l}
    /\ UNCHANGED <<value, room>>

Rename(old, new) ==
    /\ old \in deleted
    /\ new \notin Present
    /\ value' = [value EXCEPT ![new] = value[old], ![old] = Absent]
    /\ deleted' = (deleted \ {old}) \cup {new}
    /\ UNCHANGED room

Resize ==
    /\ room' \in Nat
    /\ Cardinality(Present) <= room'
    /\ UNCHANGED <<value, deleted>>

Next ==
    \/ \E l \in Labels :
        \/ \E v \in Values : Insert(l, v) \/ Update(l, v)
        \/ Delete(l)
        \/ Undelete(l)
        \/ \E old \in Labels : Rename(old, l)
    \/ Resize

Spec == Init /\ [][Next]_vars
=============================================================================

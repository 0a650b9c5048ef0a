--------------------------- MODULE LabelTableInv ---------------------------
(***************************************************************************)
(* The inductive invariant of LabelTable: what its properties say, and what*)
(* each call has learnt and relies on after it let go of a lock.           *)
(***************************************************************************)
EXTENDS LabelTable

\* The steps at which a call has no slot.
NoSlot == {"idle", "take", "lookup"}

\* Calls in progress are for labels with different operation locks.
LocksExclude ==
    \A t, u \in Threads :
        t # u /\ th[t].pc # "idle" /\ th[u].pc # "idle" =>
            LockId(th[t].label) # LockId(th[u].label)

\* At each step a call has a label and a kind, and after the lookup a slot.
CallShape(t) ==
    LET c == th[t]
    IN  /\ c.pc # "idle" => c.label \in Labels /\ c.kind \in Kinds
        /\ c.slot = None <=> c.pc \in NoSlot
        /\ c.slot # None => c.slot < cur_element_count
        /\ c.pc \in {"take", "relabel", "swap", "recheck", "init", "write"} => c.kind = "add"
        /\ c.pc = "read" => c.kind = "get"
        /\ c.pc \in {"check", "flip", "count", "set"} => c.kind # "get"

\* What a call has learnt of its slot's mark is still true.
CallMarks(t) ==
    LET c == th[t]
    IN  /\ c.pc # "idle" /\ c.kind = "unmark" => ~allow_replace_deleted
        /\ c.pc \in {"relabel", "swap"} => c.slot \in marked
        /\ c.pc \in {"init", "write", "read"} => c.slot \notin marked
        /\ c.pc = "recheck" /\ allow_replace_deleted => c.slot \notin marked
        /\ c.pc = "check" /\ c.kind = "mark" /\ allow_replace_deleted => c.slot \notin marked
        /\ c.pc = "check" /\ c.kind = "add" => c.slot \in marked
        /\ c.pc = "flip" => ((c.kind = "mark") <=> (c.slot \notin marked))
        /\ c.pc = "count" => ((c.kind = "mark") <=> (c.slot \in marked))
        /\ c.pc = "set" => allow_replace_deleted /\ ((c.kind = "mark") <=> (c.slot \in marked))

\* What a call assumes of label_lookup_ is still true.
CallLookup(t) ==
    LET c == th[t]
    IN  /\ c.pc \in {"take", "relabel", "swap"} => allow_replace_deleted /\ ~Found(c.label)
        /\ c.pc = "swap" => /\ c.old \in Labels
                            /\ label_lookup[c.old] = c.slot
                            /\ label[c.slot] = c.label
        /\ c.pc = "lookup" /\ c.kind = "mark" /\ allow_replace_deleted =>
             ~Found(c.label) \/ label_lookup[c.label] \notin marked

CallOK(t) == CallShape(t) /\ CallMarks(t) /\ CallLookup(t)

CallsOK == \A t \in Threads : CallOK(t)

\* No slot is found under two labels.
LookupInjective ==
    \A l, m \in Labels : Found(l) /\ label_lookup[l] = label_lookup[m] => l = m

\* Only allotted slots are marked.
MarksAllotted == \A s \in marked : s < cur_element_count

\* VacantSlots, slot by slot.
VacantEach ==
    \A s \in Slots :
        s \in deleted_elements <=>
            allow_replace_deleted /\ s \in marked /\ \A t \in Threads : th[t].slot # s

IInv ==
    /\ TypeOK /\ LabelsAgree /\ SlotIsOwned /\ VacantEach /\ DeletedCount
    /\ LocksExclude /\ CallsOK /\ LookupInjective /\ MarksAllotted

\* A step that changes the table at most in its vectors.
TableKept ==
    /\ UNCHANGED <<allow_replace_deleted, max_elements, cur_element_count, label_lookup,
                   label, marked, num_deleted, deleted_elements>>
    /\ data' \in [Slots -> Values \cup {None}]

\* Every call of addPoint brings a vector, and every allotted slot has one,
\* unless the call that allotted it has yet to write it.
DataInv ==
    /\ \A t \in Threads : th[t].pc # "idle" /\ th[t].kind = "add" => th[t].value \in Values
    /\ \A s \in Slots : s < cur_element_count =>
         data[s] \in Values \/ \E t \in Threads : th[t].pc = "init" /\ th[t].slot = s

\* What the map has under a label, and whether it is deleted there.
ValueOf(l) == IF Held(l) THEN data[label_lookup[l]] ELSE None
IsDeleted(l) == Held(l) /\ label_lookup[l] \in marked

\* Thread t returns, or goes on to one of the steps in pcs with the same call.
Moves(t, pcs) ==
    /\ \A u \in Threads \ {t} : th'[u] = th[u]
    /\ \/ th'[t].pc = "idle"
       \/ /\ th'[t].pc \in pcs /\ th'[t].kind = th[t].kind
          /\ th'[t].label = th[t].label /\ th'[t].value = th[t].value

\* The labels the map has.
Entries == {l \in Labels : [m \in Labels |-> ValueOf(m)][l] # None}

=============================================================================

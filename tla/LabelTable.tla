----------------------------- MODULE LabelTable -----------------------------
(***************************************************************************)
(* How HierarchicalNSW (hnswalg.h) keeps labels, slots and deletion marks  *)
(* together while threads add, update, delete, undelete, replace and read  *)
(* points.  A slot is an internal id.  A call first takes the label's      *)
(* operation lock (one of a fixed array, chosen by hashing the label) and  *)
(* keeps it until it returns or throws; inside, label_lookup_ and          *)
(* deleted_elements are each touched in short critical sections of their   *)
(* own lock, and everything else is touched with no further lock.  Every   *)
(* critical section, and every unlocked access between two of them, is a   *)
(* step.  The graph that updatePoint and addPoint maintain is left to      *)
(* module GraphInsert.                                                     *)
(***************************************************************************)
EXTENDS Naturals, FiniteSets

CONSTANTS Threads,
          Labels,           \* labeltype: natural numbers
          Values,           \* feature vectors
          None,             \* no slot, label or vector
          MaxSlots,         \* bound on max_elements_
          NumLocks,         \* MAX_LABEL_OPERATION_LOCKS
          ReplaceExisting   \* may callers pass replace_deleted for a label in the index?

ASSUME TableAssumption ==
    /\ Labels \subseteq Nat
    /\ MaxSlots \in Nat
    /\ NumLocks \in Nat \ {0}
    /\ None \notin Labels \cup Values \cup Nat
    /\ ReplaceExisting \in BOOLEAN

VARIABLES allow_replace_deleted,
          max_elements,
          cur_element_count,
          label_lookup,      \* label -> slot; None when there is no entry
          label,             \* slot -> label: the label field of the element's memory
          data,              \* slot -> vector
          marked,            \* slots with DELETE_MARK
          num_deleted,
          deleted_elements,  \* the set of vacant slots
          th                 \* the call each thread is in

vars == <<allow_replace_deleted, max_elements, cur_element_count, label_lookup, label,
          data, marked, num_deleted, deleted_elements, th>>

Slots == 0 .. MaxSlots - 1
Kinds == {"add", "mark", "unmark", "get"}
Steps == {"take", "relabel", "swap", "lookup", "recheck", "init",
          "check", "flip", "count", "set", "write", "read"}

Calls == [pc : Steps \cup {"idle"}, kind : Kinds \cup {"none"},
          label : Labels \cup {None}, value : Values \cup {None},
          slot : Slots \cup {None}, old : Labels \cup {None}]

Idle == [pc |-> "idle", kind |-> "none", label |-> None, value |-> None,
         slot |-> None, old |-> None]

TypeOK ==
    /\ allow_replace_deleted \in BOOLEAN
    /\ max_elements \in 0 .. MaxSlots
    /\ cur_element_count \in 0 .. max_elements
    /\ label_lookup \in [Labels -> Slots \cup {None}]
    /\ label \in [Slots -> Labels \cup {None}]
    /\ data \in [Slots -> Values \cup {None}]
    /\ marked \subseteq Slots
    /\ num_deleted \in Nat
    /\ deleted_elements \subseteq Slots
    /\ th \in [Threads -> Calls]

Init ==
    /\ allow_replace_deleted \in BOOLEAN
    /\ max_elements \in 0 .. MaxSlots
    /\ cur_element_count = 0
    /\ label_lookup = [l \in Labels |-> None]
    /\ label = [s \in Slots |-> None]
    /\ data = [s \in Slots |-> None]
    /\ marked = {}
    /\ num_deleted = 0
    /\ deleted_elements = {}
    /\ th = [t \in Threads |-> Idle]
-----------------------------------------------------------------------------
\* getLabelOpMutex: label & (MAX_LABEL_OPERATION_LOCKS - 1).
LockId(l) == l % NumLocks

LockFreeNoLock(l) == TRUE

\* A thread inside a call holds its label's operation lock.
LockFree(l) == \A t \in Threads : th[t].pc # "idle" => LockId(th[t].label) # LockId(l)

Found(l) == label_lookup[l] # None

FullOffByOne == cur_element_count > max_elements

Full == cur_element_count >= max_elements

\* What the comments ask of callers when replacement is enabled: unmarkDelete
\* is not used, nobody operates on a deleted element, and (unless
\* ReplaceExisting) replace_deleted is only passed for a new label.
Disciplined(kind, l, replace) ==
    allow_replace_deleted =>
        /\ kind # "unmark"
        /\ kind = "mark" => ~(Found(l) /\ label_lookup[l] \in marked)
        /\ replace /\ ~ReplaceExisting => ~Found(l)

\* addPoint rejects replace_deleted at once when replacement is disabled.
Call(t, kind, l, v, replace) ==
    /\ th[t].pc = "idle"
    /\ replace => kind = "add" /\ allow_replace_deleted
    /\ (v = None) <=> (kind # "add")
    /\ Disciplined(kind, l, replace)
    /\ LockFree(l)
    /\ th' = [th EXCEPT ![t] = [Idle EXCEPT !.pc = IF replace THEN "take" ELSE "lookup",
                                            !.kind = kind, !.label = l, !.value = v]]
    /\ UNCHANGED <<allow_replace_deleted, max_elements, cur_element_count, label_lookup,
                   label, data, marked, num_deleted, deleted_elements>>

\* The call returns or throws: either way the operation lock is released.
Return(t) == th' = [th EXCEPT ![t] = Idle]

Goto(t, pc) == th' = [th EXCEPT ![t].pc = pc]
GotoWith(t, pc, slot) == th' = [th EXCEPT ![t].pc = pc, ![t].slot = slot]
-----------------------------------------------------------------------------
(* addPoint with replace_deleted *)

TakeVacantNoErase(t) ==
    /\ th[t].pc = "take"
    /\ \/ deleted_elements = {} /\ Goto(t, "lookup")
       \/ \E s \in deleted_elements : GotoWith(t, "relabel", s)
    /\ UNCHANGED <<allow_replace_deleted, max_elements, cur_element_count, label_lookup,
                   label, data, marked, num_deleted, deleted_elements>>

\* Under deleted_elements_lock: take some vacant slot, or none.
TakeVacant(t) ==
    /\ th[t].pc = "take"
    /\ \/ /\ deleted_elements = {}
          /\ Goto(t, "lookup")
          /\ UNCHANGED deleted_elements
       \/ \E s \in deleted_elements :
            /\ deleted_elements' = deleted_elements \ {s}
            /\ GotoWith(t, "relabel", s)
    /\ UNCHANGED <<allow_replace_deleted, max_elements, cur_element_count, label_lookup,
                   label, data, marked, num_deleted>>

\* label_replaced = getExternalLabel(slot); setExternalLabel(slot, label).
Relabel(t) ==
    /\ th[t].pc = "relabel"
    /\ th' = [th EXCEPT ![t].pc = "swap", ![t].old = label[th[t].slot]]
    /\ label' = [label EXCEPT ![th[t].slot] = th[t].label]
    /\ UNCHANGED <<allow_replace_deleted, max_elements, cur_element_count, label_lookup,
                   data, marked, num_deleted, deleted_elements>>

SwapLookupNoErase(t) ==
    /\ th[t].pc = "swap"
    /\ label_lookup' = [label_lookup EXCEPT ![th[t].label] = th[t].slot]
    /\ Goto(t, "check")
    /\ UNCHANGED <<allow_replace_deleted, max_elements, cur_element_count, label, data,
                   marked, num_deleted, deleted_elements>>

\* Under label_lookup_lock: erase the replaced label, enter the new one.
SwapLookup(t) ==
    /\ th[t].pc = "swap"
    /\ label_lookup' = [label_lookup EXCEPT ![th[t].old] = None,
                                            ![th[t].label] = th[t].slot]
    /\ Goto(t, "check")
    /\ UNCHANGED <<allow_replace_deleted, max_elements, cur_element_count, label, data,
                   marked, num_deleted, deleted_elements>>
-----------------------------------------------------------------------------
(* The lookup that every other call begins with, under label_lookup_lock *)

\* addPoint(data_point, label, -1): update the element that has the label, or
\* allot the next slot to it.
AddLookup(t) ==
    LET l == th[t].label
        s == label_lookup[l]
    IN  /\ th[t].pc = "lookup" /\ th[t].kind = "add"
        /\ \/ /\ Found(l) /\ allow_replace_deleted /\ s \in marked
              /\ Return(t)
              /\ UNCHANGED <<cur_element_count, label_lookup>>
           \/ /\ Found(l) /\ ~(allow_replace_deleted /\ s \in marked)
              /\ GotoWith(t, "recheck", s)
              /\ UNCHANGED <<cur_element_count, label_lookup>>
           \/ /\ ~Found(l) /\ Full
              /\ Return(t)
              /\ UNCHANGED <<cur_element_count, label_lookup>>
           \/ /\ ~Found(l) /\ ~Full
              /\ cur_element_count' = cur_element_count + 1
              /\ label_lookup' = [label_lookup EXCEPT ![l] = cur_element_count]
              /\ GotoWith(t, "init", cur_element_count)
        /\ UNCHANGED <<allow_replace_deleted, max_elements, label, data, marked,
                       num_deleted, deleted_elements>>

\* The slot of the label; the call throws when there is none.
FindSlot(t) ==
    LET l == th[t].label
    IN  /\ \/ ~Found(l) /\ Return(t)
           \/ Found(l) /\ GotoWith(t, "check", label_lookup[l])
        /\ UNCHANGED <<allow_replace_deleted, max_elements, cur_element_count, label_lookup,
                       label, data, marked, num_deleted, deleted_elements>>

\* markDelete.
MarkLookup(t) == th[t].pc = "lookup" /\ th[t].kind = "mark" /\ FindSlot(t)

\* unmarkDelete.
UnmarkLookup(t) == th[t].pc = "lookup" /\ th[t].kind = "unmark" /\ FindSlot(t)

\* getDataByLabel: a deleted label is not found.
GetLookup(t) ==
    LET s == label_lookup[th[t].label]
    IN  /\ th[t].pc = "lookup" /\ th[t].kind = "get"
        /\ \/ (s = None \/ s \in marked) /\ Return(t)
           \/ s # None /\ s \notin marked /\ GotoWith(t, "read", s)
        /\ UNCHANGED <<allow_replace_deleted, max_elements, cur_element_count, label_lookup,
                       label, data, marked, num_deleted, deleted_elements>>
-----------------------------------------------------------------------------
(* With the operation lock only *)

\* addPoint clears the new element's memory (no links, no mark) and writes its
\* label and vector.
InitElement(t) ==
    LET s == th[t].slot
    IN  /\ th[t].pc = "init"
        /\ label' = [label EXCEPT ![s] = th[t].label]
        /\ data' = [data EXCEPT ![s] = th[t].value]
        /\ marked' = marked \ {s}
        /\ Return(t)
        /\ UNCHANGED <<allow_replace_deleted, max_elements, cur_element_count, label_lookup,
                       num_deleted, deleted_elements>>

RecheckNoUndelete(t) ==
    /\ th[t].pc = "recheck"
    /\ Goto(t, "write")
    /\ UNCHANGED <<allow_replace_deleted, max_elements, cur_element_count, label_lookup,
                   label, data, marked, num_deleted, deleted_elements>>

\* addPoint looks at the mark once more, now without label_lookup_lock.
Recheck(t) ==
    /\ th[t].pc = "recheck"
    /\ Goto(t, IF th[t].slot \in marked THEN "check" ELSE "write")
    /\ UNCHANGED <<allow_replace_deleted, max_elements, cur_element_count, label_lookup,
                   label, data, marked, num_deleted, deleted_elements>>

CheckMarkNone(t) ==
    /\ th[t].pc = "check"
    /\ Goto(t, "flip")
    /\ UNCHANGED <<allow_replace_deleted, max_elements, cur_element_count, label_lookup,
                   label, data, marked, num_deleted, deleted_elements>>

\* markDeletedInternal throws on a marked slot, unmarkDeletedInternal on an
\* unmarked one.
CheckMark(t) ==
    /\ th[t].pc = "check"
    /\ IF (th[t].kind = "mark") <=> (th[t].slot \in marked) THEN Return(t) ELSE Goto(t, "flip")
    /\ UNCHANGED <<allow_replace_deleted, max_elements, cur_element_count, label_lookup,
                   label, data, marked, num_deleted, deleted_elements>>

\* After unmarkDeletedInternal an add still has to write its vector.
AfterUnmark(t) == IF th[t].kind = "add" THEN Goto(t, "write") ELSE Return(t)

\* markDeletedInternal sets DELETE_MARK, then counts it in the atomic num_deleted_ ...
SetMark(t) ==
    /\ th[t].pc = "flip" /\ th[t].kind = "mark"
    /\ marked' = marked \cup {th[t].slot}
    /\ Goto(t, "count")
    /\ UNCHANGED <<allow_replace_deleted, max_elements, cur_element_count, label_lookup,
                   label, data, num_deleted, deleted_elements>>

CountMark(t) ==
    /\ th[t].pc = "count" /\ th[t].kind = "mark"
    /\ num_deleted' = num_deleted + 1
    /\ IF allow_replace_deleted THEN Goto(t, "set") ELSE Return(t)
    /\ UNCHANGED <<allow_replace_deleted, max_elements, cur_element_count, label_lookup,
                   label, data, marked, deleted_elements>>

\* ... and, under deleted_elements_lock, enters the slot as vacant.
InsertVacant(t) ==
    /\ th[t].pc = "set" /\ th[t].kind = "mark"
    /\ deleted_elements' = deleted_elements \cup {th[t].slot}
    /\ Return(t)
    /\ UNCHANGED <<allow_replace_deleted, max_elements, cur_element_count, label_lookup,
                   label, data, marked, num_deleted>>

\* unmarkDeletedInternal clears DELETE_MARK, then uncounts it ...
ClearMark(t) ==
    /\ th[t].pc = "flip" /\ th[t].kind # "mark"
    /\ marked' = marked \ {th[t].slot}
    /\ Goto(t, "count")
    /\ UNCHANGED <<allow_replace_deleted, max_elements, cur_element_count, label_lookup,
                   label, data, num_deleted, deleted_elements>>

CountClear(t) ==
    /\ th[t].pc = "count" /\ th[t].kind # "mark"
    /\ num_deleted' = num_deleted - 1
    /\ IF allow_replace_deleted THEN Goto(t, "set") ELSE AfterUnmark(t)
    /\ UNCHANGED <<allow_replace_deleted, max_elements, cur_element_count, label_lookup,
                   label, data, marked, deleted_elements>>

\* ... and, under deleted_elements_lock, removes the slot from the vacant ones.
EraseVacant(t) ==
    /\ th[t].pc = "set" /\ th[t].kind # "mark"
    /\ deleted_elements' = deleted_elements \ {th[t].slot}
    /\ AfterUnmark(t)
    /\ UNCHANGED <<allow_replace_deleted, max_elements, cur_element_count, label_lookup,
                   label, data, marked, num_deleted>>

\* updatePoint copies the vector.
UpdatePoint(t) ==
    /\ th[t].pc = "write"
    /\ data' = [data EXCEPT ![th[t].slot] = th[t].value]
    /\ Return(t)
    /\ UNCHANGED <<allow_replace_deleted, max_elements, cur_element_count, label_lookup,
                   label, marked, num_deleted, deleted_elements>>

\* getDataByLabel copies the vector out.
ReadData(t) ==
    /\ th[t].pc = "read"
    /\ Return(t)
    /\ UNCHANGED <<allow_replace_deleted, max_elements, cur_element_count, label_lookup,
                   label, data, marked, num_deleted, deleted_elements>>

\* resizeIndex, which must not run beside any other call.
ResizeIndex(n) ==
    /\ \A t \in Threads : th[t].pc = "idle"
    /\ n >= cur_element_count
    /\ max_elements' = n
    /\ UNCHANGED <<allow_replace_deleted, cur_element_count, label_lookup, label, data,
                   marked, num_deleted, deleted_elements, th>>

\* saveIndex writes the memory of the allotted slots.
Saved == 0 .. cur_element_count - 1

\* loadIndex enters the saved slots one after the other: the last one with the
\* label stays.
LookupSaved(l) ==
    LET at == {s \in Saved : label[s] = l}
    IN  IF at = {} THEN None ELSE CHOOSE s \in at : \A r \in at : r <= s

\* The index is saved and loaded into a new object with room for n elements (or,
\* when that is too few, as many as before).  What is not in the file is made
\* anew from the saved labels and marks.
Reload(n, allow) ==
    LET deleted == marked \cap Saved
    IN  /\ \A t \in Threads : th[t].pc = "idle"
        /\ allow_replace_deleted' = allow
        /\ max_elements' = IF n < cur_element_count THEN max_elements ELSE n
        /\ label_lookup' = [l \in Labels |-> LookupSaved(l)]
        /\ num_deleted' = Cardinality(deleted)
        /\ deleted_elements' = IF allow THEN deleted ELSE {}
        /\ UNCHANGED <<cur_element_count, label, data, marked, th>>

ThreadStep(t) ==
    \/ \E kind \in Kinds, l \in Labels, v \in Values \cup {None}, replace \in BOOLEAN :
         Call(t, kind, l, v, replace)
    \/ TakeVacant(t) \/ Relabel(t) \/ SwapLookup(t)
    \/ AddLookup(t) \/ MarkLookup(t) \/ UnmarkLookup(t) \/ GetLookup(t)
    \/ InitElement(t) \/ Recheck(t) \/ CheckMark(t)
    \/ SetMark(t) \/ CountMark(t) \/ InsertVacant(t)
    \/ ClearMark(t) \/ CountClear(t) \/ EraseVacant(t)
    \/ UpdatePoint(t) \/ ReadData(t)

Next ==
    \/ \E t \in Threads : ThreadStep(t)
    \/ \E n \in 0 .. MaxSlots : ResizeIndex(n) \/ \E allow \in BOOLEAN : Reload(n, allow)

Spec == Init /\ [][Next]_vars
-----------------------------------------------------------------------------
(* What must hold *)

\* Some thread is between two steps of giving slot s its label.
Settling(s) == \E t \in Threads : th[t].slot = s /\ th[t].pc \in {"init", "swap"}

\* label_lookup_ and the label fields are inverse to each other: whatever calls
\* run side by side, an allotted slot is found under the label stored in it and
\* under no other, so no element is orphaned, shared or stored twice.
LabelsAgree ==
    /\ \A l \in Labels : Found(l) =>
         /\ label_lookup[l] < cur_element_count
         /\ label[label_lookup[l]] = l \/ Settling(label_lookup[l])
    /\ \A s \in 0 .. cur_element_count - 1 :
         Settling(s) \/ (label[s] # None /\ label_lookup[label[s]] = s)

\* The slot a call looked up or took stays that call's own until it returns,
\* although label_lookup_lock and deleted_elements_lock were released: no other
\* call works on the slot, and once the lookup is done the label leads to it.
SlotIsOwned ==
    \A t \in Threads : th[t].slot # None =>
        /\ th[t].pc \notin {"relabel", "swap"} => label_lookup[th[t].label] = th[t].slot
        /\ \A u \in Threads \ {t} : th[u].slot # th[t].slot

\* Some thread has changed the mark of slot s and not yet the count.
Counting(s) == \E t \in Threads : th[t].slot = s /\ th[t].pc = "count"

\* The slots that are marked, as far as has been counted.
Counted == {s \in Slots : s \in marked <=> ~Counting(s)}

\* num_deleted_ (which decides whether searches look at the marks at all) is the
\* number of marked slots, but for the marks that calls in progress have changed
\* and are about to count: no mark is ever counted twice or lost, although
\* mark and counter are written apart.
DeletedCount == num_deleted = Cardinality(Counted)

\* With replacement enabled deleted_elements holds exactly the marked slots
\* that no call is working on, so no vacant slot is forgotten and none is handed
\* out while it is live or is being filled.
VacantSlots ==
    deleted_elements =
        IF allow_replace_deleted
        THEN {s \in marked : \A t \in Threads : th[t].slot # s}
        ELSE {}

\* No two live elements carry the same label.
NoDuplicateLabel ==
    \A r, s \in 0 .. cur_element_count - 1 :
        r # s /\ r \notin marked /\ s \notin marked /\ ~Settling(r) /\ ~Settling(s)
            => label[r] # label[s]

\* Together the calls behave like the bounded map of module LabelMap: an element
\* becomes part of it when its vector is written, and leaves it only by having
\* its slot, marked deleted, renamed.
Held(l) == Found(l) /\ \A t \in Threads : ~(th[t].pc = "init" /\ th[t].label = l)

Map == INSTANCE LabelMap WITH
    Absent  <- None,
    value   <- [l \in Labels |-> IF Held(l) THEN data[label_lookup[l]] ELSE None],
    deleted <- {l \in Labels : Held(l) /\ label_lookup[l] \in marked},
    room    <- max_elements

ImplementsLabelMap == Map!Spec
=============================================================================

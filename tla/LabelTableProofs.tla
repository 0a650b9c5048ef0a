------------------------- MODULE LabelTableProofs -------------------------
(***************************************************************************)
(* The marks, resizing and reloading keep the invariant of LabelTable, and *)
(* what follows from it for any number of threads, labels, locks and slots,*)
(* the refinement of LabelMap included.                                    *)
(* Callers are assumed to pass replace_deleted only for labels that are not*)
(* in the index (~ReplaceExisting).                                        *)
(***************************************************************************)
EXTENDS LabelTableSteps, FiniteSetTheorems

\* Steps are left to Zenon, except where SMT is named.
USE Zenon

\* In the initial state the table is empty and every thread is idle.
LEMMA InitIInv == Init => IInv
<1> SUFFICES ASSUME Init PROVE IInv
  OBVIOUS
<1>1. Idle \in Calls /\ Idle.pc = "idle" /\ Idle.slot = None /\ Idle.kind = "none"
  BY DEF Idle, Calls
<1>2. \A t \in Threads : th[t] = Idle
  BY DEF Init
<1>3. TypeOK
  BY <1>1, TableAssumption, SMT DEF Init, TypeOK
<1>4. LabelsAgree /\ SlotIsOwned /\ LookupInjective
  BY <1>1, <1>2, SMT DEF Init, LabelsAgree, SlotIsOwned, LookupInjective, Found
<1>5. VacantEach /\ MarksAllotted /\ LocksExclude
  BY <1>1, <1>2 DEF Init, VacantEach, MarksAllotted, LocksExclude
<1>6. DeletedCount
  <2>1. Counted = {}
    BY <1>1, <1>2 DEF Init, Counted, Counting
  <2> QED BY <2>1, FS_EmptySet DEF Init, DeletedCount
<1>7. CallsOK
  BY <1>1, <1>2 DEF CallsOK, CallOK, CallShape, CallMarks, CallLookup, NoSlot
<1> QED BY <1>3, <1>4, <1>5, <1>6, <1>7 DEF IInv

\* The counted slots can be counted.
LEMMA CountedFinite == IsFiniteSet(Counted) /\ Cardinality(Counted) \in Nat
<1>1. IsFiniteSet(Slots)
  <2>1. 0 \in Int /\ MaxSlots - 1 \in Int
    BY TableAssumption, SMT
  <2> QED BY <2>1, FS_Interval DEF Slots
<1>2. IsFiniteSet(Counted)
  BY <1>1, FS_Subset DEF Counted
<1> QED BY <1>2, FS_CardinalityType

\* What is counted changes only for the slot of the call that takes the step.
LEMMA OtherSlotsCounted ==
  ASSUME NEW t \in Threads, \A u \in Threads \ {t} : th'[u] = th[u],
         th'[t].slot \in {th[t].slot, None}, marked' \ {th[t].slot} = marked \ {th[t].slot}
  PROVE  Counted' \ {th[t].slot} = Counted \ {th[t].slot}
<1>1. ASSUME NEW r \in Slots, r # th[t].slot
      PROVE  (Counting(r)' <=> Counting(r)) /\ (r \in marked' <=> r \in marked)
  BY <1>1, NoneIsNot DEF Counting
<1> QED BY <1>1 DEF Counted

\* markDeletedInternal and unmarkDeletedInternal change the mark, which is then
\* still to be counted.
LEMMA ChangeMarkStep ==
  ASSUME IInv, NEW t \in Threads, SetMark(t) \/ ClearMark(t)
  PROVE  IInv'
<1> DEFINE s == th[t].slot
<1>1. /\ th[t].pc = "flip" /\ Goto(t, "count")
      /\ marked' = IF th[t].kind = "mark" THEN marked \cup {s} ELSE marked \ {s}
      /\ UNCHANGED <<allow_replace_deleted, max_elements, cur_element_count, label_lookup,
                     label, data, num_deleted, deleted_elements>>
  BY DEF SetMark, ClearMark
<1>2. th[t] \in Calls
  BY DEF IInv, TypeOK
<1>3. /\ s \in Slots /\ s < cur_element_count /\ s # None
      /\ th[t].label \in Labels /\ th[t].kind \in Kinds /\ th[t].kind # "get"
  BY <1>1, <1>2 DEF Calls, IInv, CallsOK, CallOK, CallShape, NoSlot
<1>4. /\ (th[t].kind = "mark") <=> s \notin marked
      /\ th[t].kind = "unmark" => ~allow_replace_deleted
  BY <1>1 DEF IInv, CallsOK, CallOK, CallMarks
<1>5. /\ marked' \subseteq Slots /\ marked' \ {s} = marked \ {s}
      /\ s \in marked' <=> s \notin marked
  BY <1>1, <1>3, <1>4 DEF IInv, TypeOK
<1>6. PICK c \in Calls :
        /\ th' = [th EXCEPT ![t] = c] /\ th'[t] = c
        /\ \A u \in Threads \ {t} : th'[u] = th[u]
        /\ c.pc = "count" /\ c.kind = th[t].kind /\ c.label = th[t].label /\ c.slot = s
  BY <1>1, GotoFields, SMT DEF Steps
<1>7. th' \in [Threads -> Calls]
  BY <1>6 DEF IInv, TypeOK
<1>8. \A u \in Threads \ {t} : th[u].slot # s
  BY <1>3 DEF IInv, SlotIsOwned
<1>9. DeletedCount'
  <2>0. PICK r : r = s
    OBVIOUS
  <2>1. ~Counting(r) /\ Counting(r)'
    BY <1>1, <1>6, <1>8, <2>0 DEF Counting
  <2>2. r \in Counted' <=> r \in Counted
    BY <1>3, <1>5, <2>0, <2>1 DEF Counted
  <2>3. Counted' \ {s} = Counted \ {s}
    BY <1>5, <1>6, OtherSlotsCounted
  <2>4. Counted' = Counted
    BY <2>0, <2>2, <2>3, SMT
  <2> QED BY <1>1, <2>4 DEF IInv, DeletedCount
<1>10. CallOK(t)'
  BY SMTT(30), <1>1, <1>3, <1>4, <1>5, <1>6
     DEF CallOK, CallShape, CallMarks, CallLookup, NoSlot
<1>11. num_deleted' \in Nat
  BY <1>1 DEF IInv, TypeOK
<1> QED BY <1>1, <1>5, <1>6, <1>7, <1>9, <1>10, <1>11, FlipStep

\* ... and then they count the change.
LEMMA CountChangeStep ==
  ASSUME IInv, NEW t \in Threads, CountMark(t) \/ CountClear(t)
  PROVE  IInv'
<1> DEFINE s == th[t].slot
<1>1. /\ th[t].pc = "count"
      /\ num_deleted' = IF th[t].kind = "mark" THEN num_deleted + 1 ELSE num_deleted - 1
      /\ UNCHANGED <<allow_replace_deleted, max_elements, cur_element_count, label_lookup,
                     label, data, marked, deleted_elements>>
  BY DEF CountMark, CountClear
<1>2. th[t] \in Calls
  BY DEF IInv, TypeOK
<1>3. /\ s \in Slots /\ s < cur_element_count /\ s # None
      /\ th[t].label \in Labels /\ th[t].kind \in Kinds /\ th[t].kind # "get"
  BY <1>1, <1>2 DEF Calls, IInv, CallsOK, CallOK, CallShape, NoSlot
<1>4. /\ (th[t].kind = "mark") <=> s \in marked
      /\ th[t].kind = "unmark" => ~allow_replace_deleted
  BY <1>1 DEF IInv, CallsOK, CallOK, CallMarks
<1>5. \A u \in Threads \ {t} : th[u].slot # s
  BY <1>3 DEF IInv, SlotIsOwned
<1>6. ASSUME th' \in [Threads -> Calls], \A u \in Threads \ {t} : th'[u] = th[u],
             th'[t].pc # "count", th'[t].slot \in {s, None}
      PROVE  num_deleted' \in Nat /\ DeletedCount'
  <2>0. PICK r : r = s
    OBVIOUS
  <2>1. Counting(r) /\ ~Counting(r)'
    BY <1>1, <1>5, <1>6, <2>0 DEF Counting
  <2>2. (s \in Counted <=> s \notin marked) /\ (s \in Counted' <=> s \in marked)
    BY <1>1, <1>3, <2>0, <2>1 DEF Counted
  <2>3. Counted' \ {s} = Counted \ {s}
    BY <1>1, <1>6, OtherSlotsCounted
  <2>4. num_deleted = Cardinality(Counted) /\ Cardinality(Counted) \in Nat
    BY CountedFinite DEF IInv, DeletedCount
  <2>5. CASE th[t].kind = "mark"
    <3>1. Counted' = Counted \cup {s} /\ s \notin Counted
      BY <1>4, <2>2, <2>3, <2>5
    <3>2. Cardinality(Counted') = Cardinality(Counted) + 1
      BY <3>1, CountedFinite, FS_AddElement
    <3> QED BY <1>1, <2>4, <2>5, <3>2, SMT DEF DeletedCount
  <2>6. CASE th[t].kind # "mark"
    <3>1. Counted' = Counted \ {s} /\ s \in Counted
      BY <1>4, <2>2, <2>3, <2>6
    <3>2. IsFiniteSet(Counted') /\ Cardinality(Counted') = Cardinality(Counted) - 1
      BY <3>1, CountedFinite, FS_RemoveElement
    <3>3. Cardinality(Counted') \in Nat
      BY <3>2, FS_CardinalityType
    <3> QED BY <1>1, <2>4, <2>6, <3>2, <3>3 DEF DeletedCount
  <2> QED BY <2>5, <2>6
<1>7. ASSUME NEW pc \in {"set", "write"}, Goto(t, pc),
             pc = "set" => allow_replace_deleted, pc = "write" => th[t].kind = "add"
      PROVE  IInv'
  <2>1. PICK c \in Calls :
          /\ th' = [th EXCEPT ![t] = c] /\ th'[t] = c
          /\ \A u \in Threads \ {t} : th'[u] = th[u]
          /\ c.pc = pc /\ c.kind = th[t].kind /\ c.label = th[t].label /\ c.slot = s
    BY <1>7, GotoFields, SMT DEF Steps
  <2>2. th' \in [Threads -> Calls]
    BY <2>1 DEF IInv, TypeOK
  <2>3. num_deleted' \in Nat /\ DeletedCount'
    BY <1>6, <2>1, <2>2
  <2>4. CallOK(t)'
    BY SMTT(30), <1>1, <1>3, <1>4, <1>7, <2>1
       DEF CallOK, CallShape, CallMarks, CallLookup, NoSlot
  <2>5. marked' \subseteq Slots /\ marked' \ {s} = marked \ {s}
    BY <1>1 DEF IInv, TypeOK
  <2> QED BY <1>1, <2>1, <2>2, <2>3, <2>4, <2>5, FlipStep
<1>8. ASSUME Return(t), ~(allow_replace_deleted /\ s \in marked) PROVE IInv'
  <2>1. /\ th' \in [Threads -> Calls]
        /\ th'[t].pc = "idle" /\ th'[t].slot = None /\ th'[t].kind = "none"
        /\ \A u \in Threads \ {t} : th'[u] = th[u]
    BY <1>8, ReturnFields
  <2>2. num_deleted' \in Nat /\ DeletedCount'
    BY <1>6, <2>1
  <2>3. CallOK(t)'
    BY <2>1, IdleCall
  <2>4. marked' \subseteq Slots /\ marked' \ {s} = marked \ {s}
    BY <1>1 DEF IInv, TypeOK
  <2> QED BY <1>1, <1>8, <2>1, <2>2, <2>3, <2>4, FlipStep
<1>9. \/ allow_replace_deleted /\ Goto(t, "set")
      \/ th[t].kind = "add" /\ Goto(t, "write")
      \/ Return(t) /\ ~(allow_replace_deleted /\ s \in marked)
  BY <1>4 DEF CountMark, CountClear, AfterUnmark
<1> QED BY <1>7, <1>8, <1>9

\* Every step of every call keeps the invariant.
LEMMA NextIInv == ~ReplaceExisting /\ IInv /\ [Next]_vars => IInv'
<1> SUFFICES ASSUME ~ReplaceExisting, IInv, [Next]_vars PROVE IInv'
  OBVIOUS
<1>1. ASSUME NEW t \in Threads, ThreadStep(t) PROVE IInv'
  <2>1. ASSUME MarkLookup(t) \/ UnmarkLookup(t) PROVE IInv'
    BY <2>1, FindSlotStep DEF MarkLookup, UnmarkLookup
  <2> QED
    BY <1>1, <2>1, CallStep, TakeVacantStep, RelabelStep, SwapLookupStep, AddLookupStep,
       GetLookupStep, InitElementStep, RecheckStep, CheckMarkStep,
       ChangeMarkStep, CountChangeStep, InsertVacantStep, EraseVacantStep, UpdatePointStep, ReadDataStep
       DEF ThreadStep
<1>2. ASSUME NEW n \in 0 .. MaxSlots, ResizeIndex(n) PROVE IInv'
  BY <1>2, ResizeIndexStep
<1>4. ASSUME NEW n \in 0 .. MaxSlots, NEW allow \in BOOLEAN, Reload(n, allow) PROVE IInv'
  BY <1>4, ReloadStep
<1>3. CASE UNCHANGED vars
  <2>1. TypeOK'
    BY <1>3 DEF IInv, TypeOK, vars
  <2>2. LabelsAgree' /\ SlotIsOwned' /\ VacantEach'
    BY <1>3 DEF IInv, vars, LabelsAgree, Settling, Found, SlotIsOwned, VacantEach
  <2>5. DeletedCount'
    BY <1>3 DEF IInv, vars, DeletedCount, Counted, Counting
  <2>3. LocksExclude' /\ LookupInjective' /\ MarksAllotted'
    BY <1>3 DEF IInv, vars, LocksExclude, LockId, LookupInjective, Found, MarksAllotted
  <2>4. CallsOK'
    BY <1>3, CallUndisturbed DEF vars, CallsOK
  <2> QED BY <2>1, <2>2, <2>3, <2>4, <2>5 DEF IInv
<1> QED BY <1>1, <1>2, <1>3, <1>4 DEF Next

\* The inductive invariant holds in every state the calls can reach.
THEOREM Invariance == ASSUME ~ReplaceExisting PROVE Spec => []IInv
<1>1. IInv /\ [Next]_vars => IInv'
  BY NextIInv
<1> QED BY <1>1, InitIInv, PTL DEF Spec

\* The table keeps its types: in particular cur_element_count never passes
\* max_elements, whatever number of threads add at once.
THEOREM TypeCorrect == ASSUME ~ReplaceExisting PROVE Spec => []TypeOK
<1>1. IInv => TypeOK
  BY DEF IInv
<1> QED BY <1>1, Invariance, PTL

\* label_lookup_ and the label fields stay inverse to each other through any
\* interleaving of addPoint, markDelete, unmarkDelete, getDataByLabel and
\* resizeIndex.
THEOREM LabelsStayInverse == ASSUME ~ReplaceExisting PROVE Spec => []LabelsAgree
<1>1. IInv => LabelsAgree
  BY DEF IInv
<1> QED BY <1>1, Invariance, PTL

\* A slot that a call looked up and uses after letting go of label_lookup_lock
\* is still the slot of its label, and no other call uses it.
THEOREM SlotStaysOwned == ASSUME ~ReplaceExisting PROVE Spec => []SlotIsOwned
<1>1. IInv => SlotIsOwned
  BY DEF IInv
<1> QED BY <1>1, Invariance, PTL

\* num_deleted_ is always the number of marked slots, but for the marks that calls
\* in progress have changed and not yet counted.
THEOREM DeletionsCounted == ASSUME ~ReplaceExisting PROVE Spec => []DeletedCount
<1>1. IInv => DeletedCount
  BY DEF IInv
<1> QED BY <1>1, Invariance, PTL

\* deleted_elements is always the set of marked slots that no call works on.
THEOREM VacantSlotsExact == ASSUME ~ReplaceExisting PROVE Spec => []VacantSlots
<1>1. IInv => VacantSlots
  <2> SUFFICES ASSUME IInv PROVE VacantSlots
    OBVIOUS
  <2>1. deleted_elements \subseteq Slots /\ marked \subseteq Slots
          /\ allow_replace_deleted \in BOOLEAN
    BY DEF IInv, TypeOK
  <2>2. CASE allow_replace_deleted
    <3>1. deleted_elements = {s \in marked : \A t \in Threads : th[t].slot # s}
      BY <2>1, <2>2 DEF IInv, VacantEach
    <3> QED BY <2>2, <3>1 DEF VacantSlots
  <2>3. CASE ~allow_replace_deleted
    <3>1. deleted_elements = {}
      BY <2>1, <2>3 DEF IInv, VacantEach
    <3> QED BY <2>3, <3>1 DEF VacantSlots
  <2> QED BY <2>2, <2>3
<1> QED BY <1>1, Invariance, PTL

\* No two live elements carry the same label, provided that callers pass
\* replace_deleted only for labels that are not in the index.
THEOREM NoDuplicates == ASSUME ~ReplaceExisting PROVE Spec => []NoDuplicateLabel
<1>1. IInv => NoDuplicateLabel
  BY DEF IInv, LabelsAgree, NoDuplicateLabel
<1> QED BY <1>1, Invariance, PTL
-----------------------------------------------------------------------------
(* The refinement of LabelMap *)

\* A call that returns.
LEMMA ReturnMoves ==
  ASSUME IInv, NEW t \in Threads, NEW pcs, Return(t)
  PROVE  Moves(t, pcs)
BY ReturnFields DEF Moves

\* A call that goes on ...
LEMMA GotoMoves ==
  ASSUME IInv, NEW t \in Threads, NEW pcs, NEW pc \in pcs, pc \in Steps, Goto(t, pc)
  PROVE  Moves(t, pcs)
BY GotoFields, SMT DEF Moves

\* ... and with a slot.
LEMMA GotoWithMoves ==
  ASSUME IInv, NEW t \in Threads, NEW pcs, NEW pc \in pcs, pc \in Steps, NEW s \in Slots,
         GotoWith(t, pc, s)
  PROVE  Moves(t, pcs)
BY SlotFields, SMT DEF Moves

\* The label of a call that has a slot and is past the lookup is in the map,
\* with a vector, unless the call has yet to write it.
LEMMA OwnerHolds ==
  ASSUME IInv, DataInv, NEW t \in Threads,
         th[t].slot # None, th[t].pc \notin {"relabel", "swap"}
  PROVE  /\ th[t].label \in Labels /\ label_lookup[th[t].label] = th[t].slot
         /\ th[t].slot \in Slots /\ th[t].slot < cur_element_count
         /\ \A k \in Labels \ {th[t].label} : label_lookup[k] # th[t].slot
         /\ \A u \in Threads \ {t} : ~(th[u].pc = "init" /\ th[u].label = th[t].label)
         /\ th[t].pc # "init" => Held(th[t].label) /\ data[th[t].slot] \in Values
<1>1. th[t] \in Calls
  BY DEF IInv, TypeOK
<1>2. th[t].pc # "idle" /\ th[t].label \in Labels
  BY DEF IInv, CallsOK, CallOK, CallShape, NoSlot
<1>3. th[t].slot \in Slots /\ th[t].slot < cur_element_count
  BY <1>1 DEF Calls, IInv, CallsOK, CallOK, CallShape
<1>4. /\ label_lookup[th[t].label] = th[t].slot
      /\ \A u \in Threads \ {t} : th[u].slot # th[t].slot
  BY DEF IInv, SlotIsOwned
<1>5. \A k \in Labels \ {th[t].label} : label_lookup[k] # th[t].slot
  BY <1>2, <1>4 DEF IInv, LookupInjective, Found
<1>6. \A u \in Threads \ {t} : ~(th[u].pc = "init" /\ th[u].label = th[t].label)
  BY <1>2 DEF IInv, LocksExclude
<1>7. ASSUME th[t].pc # "init" PROVE Held(th[t].label) /\ data[th[t].slot] \in Values
  BY <1>3, <1>4, <1>6, <1>7, SMT DEF Held, Found, DataInv
<1> QED BY <1>2, <1>3, <1>4, <1>5, <1>6, <1>7

\* A step after which the map looks as before.
LEMMA MapKept ==
  ASSUME max_elements' = max_elements,
         \A l \in Labels : ValueOf(l)' = ValueOf(l) /\ (IsDeleted(l)' <=> IsDeleted(l))
  PROVE  UNCHANGED Map!vars
<1>1. [l \in Labels |-> ValueOf(l)]' = [l \in Labels |-> ValueOf(l)]
  OBVIOUS
<1>2. {l \in Labels : IsDeleted(l)}' = {l \in Labels : IsDeleted(l)}
  OBVIOUS
<1> QED BY <1>1, <1>2 DEF Map!vars, ValueOf, IsDeleted

\* A step inside a call that touches neither label_lookup_ nor vectors nor marks.
LEMMA QuietStep ==
  ASSUME IInv, DataInv, NEW t \in Threads, th[t].pc \notin {"idle", "init"},
         Moves(t, Steps \ {"init"}),
         UNCHANGED <<max_elements, cur_element_count, label_lookup, data, marked>>
  PROVE  DataInv' /\ UNCHANGED Map!vars
<1>1. \A u \in Threads : th'[u].pc = "init" <=> th[u].pc = "init"
  BY DEF Moves
<1>2. \A u \in Threads : th[u].pc = "init" => th'[u] = th[u]
  BY DEF Moves
<1>3. \A l \in Labels : Held(l)' <=> Held(l)
  BY <1>1, <1>2 DEF Held, Found
<1>4. UNCHANGED Map!vars
  BY <1>3, MapKept DEF ValueOf, IsDeleted
<1>5. DataInv'
  BY <1>1, <1>2, SMT DEF DataInv, Moves
<1> QED BY <1>4, <1>5

\* The map of one label changes: its vector ...
LEMMA MapValue ==
  ASSUME NEW l \in Labels, NEW v, ValueOf(l)' = v,
         \A k \in Labels \ {l} : ValueOf(k)' = ValueOf(k),
         \A k \in Labels : IsDeleted(k)' <=> IsDeleted(k)
  PROVE  /\ [k \in Labels |-> ValueOf(k)]' = [[k \in Labels |-> ValueOf(k)] EXCEPT ![l] = v]
         /\ {k \in Labels : IsDeleted(k)}' = {k \in Labels : IsDeleted(k)}
OBVIOUS

\* ... or its mark.
LEMMA MapMark ==
  ASSUME NEW l \in Labels, \A k \in Labels : ValueOf(k)' = ValueOf(k),
         \A k \in Labels \ {l} : IsDeleted(k)' <=> IsDeleted(k)
  PROVE  /\ [k \in Labels |-> ValueOf(k)]' = [k \in Labels |-> ValueOf(k)]
         /\ IsDeleted(l)' => {k \in Labels : IsDeleted(k)}'
                               = {k \in Labels : IsDeleted(k)} \cup {l}
         /\ ~IsDeleted(l)' => {k \in Labels : IsDeleted(k)}'
                               = {k \in Labels : IsDeleted(k)} \ {l}
OBVIOUS

\* A call moves on, and no slot loses its vector.
LEMMA DataKept ==
  ASSUME IInv, DataInv, NEW t \in Threads, th[t].pc \notin {"idle", "init"},
         Moves(t, Steps \ {"init"}), cur_element_count' = cur_element_count,
         \A s \in Slots : data[s] \in Values => data'[s] \in Values
  PROVE  /\ DataInv'
         /\ \A u \in Threads : th'[u].pc = "init" <=> th[u].pc = "init"
         /\ \A u \in Threads : th[u].pc = "init" => th'[u] = th[u]
<1>1. \A u \in Threads : th'[u].pc = "init" <=> th[u].pc = "init"
  BY DEF Moves
<1>2. \A u \in Threads : th[u].pc = "init" => th'[u] = th[u]
  BY DEF Moves
<1>3. DataInv'
  BY <1>1, <1>2, SMT DEF DataInv, Moves
<1> QED BY <1>1, <1>2, <1>3

\* markDeletedInternal deletes the label from the map.
LEMMA SetMarkMaps ==
  ASSUME IInv, DataInv, NEW t \in Threads, SetMark(t)
  PROVE  DataInv' /\ Map!Next
<1>0. PICK l, s : l = th[t].label /\ s = th[t].slot
  OBVIOUS
<1>1. /\ th[t].pc = "flip" /\ th[t].kind = "mark" /\ marked' = marked \cup {s}
      /\ UNCHANGED <<max_elements, cur_element_count, label_lookup, data>>
  BY <1>0 DEF SetMark
<1>2. Moves(t, Steps \ {"init"})
  BY GotoMoves DEF SetMark, Steps
<1>3. s # None /\ s \notin marked
  BY <1>0, <1>1 DEF IInv, CallsOK, CallOK, CallShape, CallMarks, NoSlot
<1>4. /\ l \in Labels /\ label_lookup[l] = s /\ Held(l) /\ data[s] \in Values
      /\ \A k \in Labels \ {l} : label_lookup[k] # s
  BY <1>0, <1>1, <1>3, OwnerHolds
<1>5. /\ DataInv'
      /\ \A u \in Threads : th'[u].pc = "init" <=> th[u].pc = "init"
      /\ \A u \in Threads : th[u].pc = "init" => th'[u] = th[u]
  BY <1>1, <1>2, DataKept
<1>6. \A k \in Labels : Held(k)' <=> Held(k)
  BY <1>1, <1>5 DEF Held, Found
<1>7. /\ \A k \in Labels : ValueOf(k)' = ValueOf(k)
      /\ \A k \in Labels \ {l} : IsDeleted(k)' <=> IsDeleted(k)
      /\ IsDeleted(l)' /\ ~IsDeleted(l) /\ ValueOf(l) \in Values
  BY <1>1, <1>3, <1>4, <1>6 DEF ValueOf, IsDeleted
<1>8. /\ [k \in Labels |-> ValueOf(k)]' = [k \in Labels |-> ValueOf(k)]
      /\ {k \in Labels : IsDeleted(k)}' = {k \in Labels : IsDeleted(k)} \cup {l}
  BY <1>4, <1>7, MapMark
<1>9. l \in {k \in Labels : [m \in Labels |-> ValueOf(m)][k] # None}
              \ {k \in Labels : IsDeleted(k)}
  BY <1>4, <1>7, TableAssumption
<1>10. Map!Delete(l)
  BY <1>1, <1>8, <1>9 DEF Map!Delete, Map!Present, ValueOf, IsDeleted
<1> QED BY <1>4, <1>5, <1>10 DEF Map!Next

\* unmarkDeletedInternal puts the label back.
LEMMA ClearMarkMaps ==
  ASSUME IInv, DataInv, NEW t \in Threads, ClearMark(t)
  PROVE  DataInv' /\ Map!Next
<1>0. PICK l, s : l = th[t].label /\ s = th[t].slot
  OBVIOUS
<1>1. /\ th[t].pc = "flip" /\ th[t].kind # "mark" /\ marked' = marked \ {s}
      /\ UNCHANGED <<max_elements, cur_element_count, label_lookup, data>>
  BY <1>0 DEF ClearMark
<1>2. Moves(t, Steps \ {"init"})
  BY GotoMoves DEF ClearMark, Steps
<1>3. s # None /\ s \in marked
  BY <1>0, <1>1 DEF IInv, CallsOK, CallOK, CallShape, CallMarks, NoSlot
<1>4. /\ l \in Labels /\ label_lookup[l] = s /\ Held(l)
      /\ \A k \in Labels \ {l} : label_lookup[k] # s
  BY <1>0, <1>1, <1>3, OwnerHolds
<1>5. /\ DataInv'
      /\ \A u \in Threads : th'[u].pc = "init" <=> th[u].pc = "init"
      /\ \A u \in Threads : th[u].pc = "init" => th'[u] = th[u]
  BY <1>1, <1>2, DataKept
<1>6. \A k \in Labels : Held(k)' <=> Held(k)
  BY <1>1, <1>5 DEF Held, Found
<1>7. /\ \A k \in Labels : ValueOf(k)' = ValueOf(k)
      /\ \A k \in Labels \ {l} : IsDeleted(k)' <=> IsDeleted(k)
      /\ ~IsDeleted(l)' /\ IsDeleted(l)
  BY <1>1, <1>3, <1>4, <1>6 DEF ValueOf, IsDeleted
<1>8. /\ [k \in Labels |-> ValueOf(k)]' = [k \in Labels |-> ValueOf(k)]
      /\ {k \in Labels : IsDeleted(k)}' = {k \in Labels : IsDeleted(k)} \ {l}
  BY <1>4, <1>7, MapMark
<1>9. l \in {k \in Labels : IsDeleted(k)}
  BY <1>4, <1>7
<1>10. Map!Undelete(l)
  BY <1>1, <1>8, <1>9 DEF Map!Undelete, ValueOf, IsDeleted
<1> QED BY <1>4, <1>5, <1>10 DEF Map!Next

\* updatePoint gives the label its new vector.
LEMMA UpdatePointMaps ==
  ASSUME IInv, DataInv, NEW t \in Threads, UpdatePoint(t)
  PROVE  DataInv' /\ Map!Next
<1>0. PICK l, s, v : l = th[t].label /\ s = th[t].slot /\ v = th[t].value
  OBVIOUS
<1>1. /\ th[t].pc = "write" /\ data' = [data EXCEPT ![s] = v]
      /\ UNCHANGED <<max_elements, cur_element_count, label_lookup, marked>>
  BY <1>0 DEF UpdatePoint
<1>2. Moves(t, Steps \ {"init"})
  BY ReturnMoves DEF UpdatePoint
<1>3. s # None /\ s \notin marked /\ th[t].kind = "add"
  BY <1>0, <1>1 DEF IInv, CallsOK, CallOK, CallShape, CallMarks, NoSlot
<1>4. /\ l \in Labels /\ label_lookup[l] = s /\ s \in Slots /\ Held(l) /\ data[s] \in Values
      /\ \A k \in Labels \ {l} : label_lookup[k] # s
  BY <1>0, <1>1, <1>3, OwnerHolds
<1>5. v \in Values
  BY <1>0, <1>1, <1>3 DEF DataInv
<1>6. /\ data'[s] = v
      /\ \A r \in Slots \ {s} : data'[r] = data[r]
  BY <1>1, <1>4 DEF IInv, TypeOK
<1>7. /\ DataInv'
      /\ \A u \in Threads : th'[u].pc = "init" <=> th[u].pc = "init"
      /\ \A u \in Threads : th[u].pc = "init" => th'[u] = th[u]
  BY <1>1, <1>2, <1>5, <1>6, DataKept
<1>8. \A k \in Labels : Held(k)' <=> Held(k)
  BY <1>1, <1>7 DEF Held, Found
<1>9. \A k \in Labels \ {l} : Held(k) => label_lookup[k] \in Slots \ {s}
  BY <1>4, FoundSlot DEF Held
<1>10. /\ \A k \in Labels \ {l} : ValueOf(k)' = ValueOf(k)
       /\ \A k \in Labels : IsDeleted(k)' <=> IsDeleted(k)
       /\ ValueOf(l)' = v /\ ~IsDeleted(l) /\ ValueOf(l) \in Values
  BY <1>1, <1>3, <1>4, <1>6, <1>8, <1>9 DEF ValueOf, IsDeleted
<1>11. /\ [k \in Labels |-> ValueOf(k)]' = [[k \in Labels |-> ValueOf(k)] EXCEPT ![l] = v]
       /\ {k \in Labels : IsDeleted(k)}' = {k \in Labels : IsDeleted(k)}
  BY <1>4, <1>10, MapValue
<1>12. l \in {k \in Labels : [m \in Labels |-> ValueOf(m)][k] # None}
              \ {k \in Labels : IsDeleted(k)}
  BY <1>4, <1>10, TableAssumption
<1>13. Map!Update(l, v)
  BY <1>1, <1>11, <1>12 DEF Map!Update, Map!Present, ValueOf, IsDeleted
<1> QED BY <1>4, <1>5, <1>7, <1>13 DEF Map!Next

\* LabelMap counts as LabelTable does.
LEMMA SameCardinality == ASSUME NEW S PROVE Map!Cardinality(S) = Cardinality(S)
BY DEF Map!Cardinality, Cardinality

\* Each label of the map has an allotted slot of its own, so there are at most as
\* many labels as allotted slots, and fewer while some slot is not shown.
LEMMA EntriesFit ==
  ASSUME IInv
  PROVE  /\ Cardinality(Entries) \in Nat /\ Cardinality(Entries) <= cur_element_count
         /\ \A s \in Slots :
              s < cur_element_count /\ (\A k \in Labels : Held(k) => label_lookup[k] # s)
                => Cardinality(Entries) < cur_element_count
<1> DEFINE T == 0 .. cur_element_count - 1
           f == [k \in Entries |-> label_lookup[k]]
<1>1. cur_element_count \in Nat /\ Slots \subseteq Nat
  BY TableAssumption, SMT DEF IInv, TypeOK, Slots
<1>2. IsFiniteSet(T) /\ Cardinality(T) = cur_element_count
  <2>1. 0 \in Int /\ cur_element_count - 1 \in Int
    BY <1>1, SMT
  <2> QED BY <1>1, <2>1, FS_Interval, SMT
<1>3. \A k \in Entries : k \in Labels /\ Held(k)
  BY DEF Entries, ValueOf
<1>4. ASSUME NEW k \in Entries PROVE label_lookup[k] \in T
  <2>1. label_lookup[k] \in Slots /\ label_lookup[k] < cur_element_count
    BY <1>3, FoundSlot DEF Held
  <2>2. label_lookup[k] \in Nat
    BY <1>1, <2>1
  <2> QED BY <1>1, <2>1, <2>2, SMT
<1>5. \A k, m \in Entries : label_lookup[k] = label_lookup[m] => k = m
  BY <1>3 DEF IInv, LookupInjective, Held
<1>6. f \in Injection(Entries, T)
  BY <1>4, <1>5 DEF Injection, IsInjective
<1>7. /\ IsFiniteSet(Entries) /\ Cardinality(Entries) <= Cardinality(T)
      /\ Cardinality(Entries) = Cardinality(T) <=> f \in Surjection(Entries, T)
  BY <1>2, <1>6, FS_Injection
<1>8. Cardinality(Entries) \in Nat
  BY <1>7, FS_CardinalityType
<1>9. ASSUME NEW s \in Slots, s < cur_element_count,
             \A k \in Labels : Held(k) => label_lookup[k] # s
      PROVE  Cardinality(Entries) # Cardinality(T)
  <2>1. s \in T /\ \A k \in Entries : f[k] # s
    BY <1>1, <1>3, <1>9, SMT
  <2>2. f \notin Surjection(Entries, T)
    BY <2>1 DEF Surjection
  <2> QED BY <1>7, <2>2
<1> HIDE DEF T
<1> QED BY <1>1, <1>2, <1>7, <1>8, <1>9, SMT

\* addPoint writes the vector of a new element: its label enters the map.
LEMMA InitElementMaps ==
  ASSUME IInv, DataInv, NEW t \in Threads, InitElement(t)
  PROVE  DataInv' /\ Map!Next
<1>0. PICK l, s, v : l = th[t].label /\ s = th[t].slot /\ v = th[t].value
  OBVIOUS
<1>1. /\ th[t].pc = "init" /\ data' = [data EXCEPT ![s] = v] /\ marked' = marked \ {s}
      /\ UNCHANGED <<max_elements, cur_element_count, label_lookup>>
  BY <1>0 DEF InitElement
<1>2. th'[t].pc = "idle" /\ \A u \in Threads \ {t} : th'[u] = th[u]
  BY ReturnFields DEF InitElement
<1>3. s # None /\ s \notin marked /\ th[t].kind = "add"
  BY <1>0, <1>1 DEF IInv, CallsOK, CallOK, CallShape, CallMarks, NoSlot
<1>4. /\ l \in Labels /\ label_lookup[l] = s /\ s \in Slots /\ s < cur_element_count
      /\ \A k \in Labels \ {l} : label_lookup[k] # s
      /\ \A u \in Threads \ {t} : ~(th[u].pc = "init" /\ th[u].label = l)
  BY <1>0, <1>1, <1>3, OwnerHolds
<1>5. v \in Values
  BY <1>0, <1>1, <1>3 DEF DataInv
<1>6. data'[s] = v /\ \A r \in Slots \ {s} : data'[r] = data[r]
  BY <1>1, <1>4 DEF IInv, TypeOK
<1>7. DataInv'
  <2>1. \A u \in Threads : th'[u].pc # "idle" /\ th'[u].kind = "add" => th'[u].value \in Values
    BY <1>2 DEF DataInv
  <2>2. ASSUME NEW r \in Slots, r < cur_element_count, r # s
        PROVE  data'[r] \in Values \/ \E u \in Threads : th'[u].pc = "init" /\ th'[u].slot = r
    <3>1. data[r] \in Values \/ \E u \in Threads : th[u].pc = "init" /\ th[u].slot = r
      BY <2>2 DEF DataInv
    <3>2. \A u \in Threads : th[u].slot = r => u # t
      BY <1>0, <2>2
    <3>3. data'[r] = data[r]
      BY <1>6, <2>2
    <3> QED BY <1>2, <3>1, <3>2, <3>3
  <2> QED BY <1>1, <1>5, <1>6, <2>1, <2>2 DEF DataInv
<1>8. ~Held(l) /\ Held(l)'
  <2>1. label_lookup[l] # None /\ label_lookup'[l] # None
    BY <1>1, <1>3, <1>4
  <2>2. \A u \in Threads : ~(th'[u].pc = "init" /\ th'[u].label = l)
    BY <1>2, <1>4
  <2> QED BY <1>0, <1>1, <2>1, <2>2 DEF Held, Found
<1>9. \A k \in Labels \ {l} : Held(k)' <=> Held(k)
  BY <1>0, <1>1, <1>2 DEF Held, Found
<1>10. \A k \in Labels \ {l} : Held(k) => label_lookup[k] \in Slots \ {s}
  BY <1>4, FoundSlot DEF Held
<1>11. marked' = marked
  BY <1>1, <1>3
<1>12. /\ \A k \in Labels \ {l} : ValueOf(k)' = ValueOf(k)
       /\ \A k \in Labels : IsDeleted(k)' <=> IsDeleted(k)
       /\ ValueOf(l)' = v /\ ValueOf(l) = None
  BY <1>1, <1>3, <1>4, <1>6, <1>8, <1>9, <1>10, <1>11 DEF ValueOf, IsDeleted
<1>13. /\ [k \in Labels |-> ValueOf(k)]' = [[k \in Labels |-> ValueOf(k)] EXCEPT ![l] = v]
       /\ {k \in Labels : IsDeleted(k)}' = {k \in Labels : IsDeleted(k)}
  BY <1>4, <1>12, MapValue
<1>14. l \notin Entries
  BY <1>12 DEF Entries
<1>15. Cardinality(Entries) < max_elements
  <2>1. Cardinality(Entries) \in Nat /\ Cardinality(Entries) < cur_element_count
    BY <1>4, <1>8, EntriesFit
  <2> QED BY <2>1, TableAssumption, SMT DEF IInv, TypeOK
<1>16. Map!Insert(l, v)
  <2>1. Map!Present = Entries
    BY DEF Map!Present, Entries, ValueOf
  <2>2. l \notin Map!Present /\ Map!Cardinality(Map!Present) < max_elements
    BY <1>14, <1>15, <2>1, SameCardinality
  <2> QED BY <1>1, <1>13, <2>2 DEF Map!Insert, ValueOf, IsDeleted
<1> QED BY <1>4, <1>5, <1>7, <1>16 DEF Map!Next

\* addPoint allots a slot to a new label: the map does not show it yet.
LEMMA AddLookupMaps ==
  ASSUME IInv, DataInv, NEW t \in Threads, AddLookup(t)
  PROVE  DataInv' /\ UNCHANGED Map!vars
<1>0. PICK l, s : l = th[t].label /\ s = cur_element_count
  OBVIOUS
<1>1. /\ th[t].pc = "lookup" /\ th[t].kind = "add"
      /\ UNCHANGED <<max_elements, data, marked>>
  BY DEF AddLookup
<1>2. l \in Labels
  BY <1>0, <1>1 DEF IInv, CallsOK, CallOK, CallShape
<1>3. CASE ~Found(l) /\ ~Full /\ cur_element_count' = cur_element_count + 1
           /\ label_lookup' = [label_lookup EXCEPT ![l] = s] /\ GotoWith(t, "init", s)
  <2>1. s \in Slots
    BY <1>0, <1>3, TableAssumption, SMT DEF Full, Slots, IInv, TypeOK
  <2>2. /\ th'[t].pc = "init" /\ th'[t].label = l /\ th'[t].slot = s /\ th'[t].kind = "add"
        /\ th'[t].value = th[t].value /\ \A u \in Threads \ {t} : th'[u] = th[u]
    <3>1. "init" \in Steps
      BY DEF Steps
    <3> QED BY SMTT(30), <1>0, <1>1, <1>3, <2>1, <3>1, SlotFields
  <2>3. DataInv'
    <3>1. \A u \in Threads : th'[u].pc # "idle" /\ th'[u].kind = "add" => th'[u].value \in Values
      BY <1>1, <2>2 DEF DataInv
    <3>2. ASSUME NEW r \in Slots, r < cur_element_count'
          PROVE  data'[r] \in Values \/ \E u \in Threads : th'[u].pc = "init" /\ th'[u].slot = r
      <4>1. CASE r = s
        BY <2>2, <4>1
      <4>2. CASE r # s
        <5>1. r < cur_element_count
          BY <1>0, <1>3, <3>2, <4>2, TableAssumption, SMT DEF Slots, IInv, TypeOK
        <5> QED BY <1>1, <2>2, <5>1 DEF DataInv
      <4> QED BY <4>1, <4>2
    <3> QED BY <3>1, <3>2 DEF DataInv
  <2>4. ~Held(l) /\ ~Held(l)'
    BY <1>3, <2>2 DEF Held
  <2>5. \A k \in Labels \ {l} : label_lookup'[k] = label_lookup[k] /\ (Held(k)' <=> Held(k))
    <3>1. \A k \in Labels \ {l} : label_lookup'[k] = label_lookup[k]
      BY <1>3 DEF IInv, TypeOK
    <3> QED BY <1>0, <1>1, <2>2, <3>1 DEF Held, Found
  <2>6. \A k \in Labels : ValueOf(k)' = ValueOf(k) /\ (IsDeleted(k)' <=> IsDeleted(k))
    BY <1>1, <2>4, <2>5 DEF ValueOf, IsDeleted
  <2> QED BY <1>1, <2>3, <2>6, MapKept
<1>4. CASE /\ UNCHANGED <<cur_element_count, label_lookup>>
           /\ Return(t) \/ (Found(l) /\ GotoWith(t, "recheck", label_lookup[l]))
  <2>1. Moves(t, Steps \ {"init"})
    BY <1>2, <1>4, ReturnMoves, GotoWithMoves, FoundSlot DEF Steps
  <2> QED BY <1>1, <1>4, <2>1, QuietStep
<1> QED BY <1>0, <1>3, <1>4 DEF AddLookup

\* addPoint gives the slot of a deleted label to its own: the map renames it.
LEMMA SwapLookupMaps ==
  ASSUME IInv, DataInv, NEW t \in Threads, SwapLookup(t)
  PROVE  DataInv' /\ Map!Next
<1>0. PICK l, s, o : l = th[t].label /\ s = th[t].slot /\ o = th[t].old
  OBVIOUS
<1>1. /\ th[t].pc = "swap" /\ Goto(t, "check")
      /\ label_lookup' = [label_lookup EXCEPT ![o] = None, ![l] = s]
      /\ UNCHANGED <<max_elements, cur_element_count, data, marked>>
  BY <1>0 DEF SwapLookup
<1>2. th[t] \in Calls
  BY DEF IInv, TypeOK
<1>3. /\ s \in Slots /\ l \in Labels /\ o \in Labels /\ s \in marked /\ s < cur_element_count
      /\ label_lookup[l] = None /\ label_lookup[o] = s
  BY <1>0, <1>1, <1>2 DEF Calls, IInv, CallsOK, CallOK, CallShape, CallMarks, CallLookup, NoSlot,
                          Found
<1>4. \A u \in Threads \ {t} : th[u].slot # s
  BY <1>0, <1>3, NoneIsNot DEF IInv, SlotIsOwned
<1>5. /\ label_lookup'[l] = s /\ label_lookup'[o] = None /\ o # l
      /\ \A k \in Labels \ {l, o} : label_lookup'[k] = label_lookup[k]
  BY <1>1, <1>3, NoneIsNot DEF IInv, TypeOK
<1>6. Moves(t, Steps \ {"init"})
  BY <1>1, GotoMoves DEF Steps
<1>7. /\ DataInv'
      /\ \A u \in Threads : th'[u].pc = "init" <=> th[u].pc = "init"
      /\ \A u \in Threads : th[u].pc = "init" => th'[u] = th[u]
  BY <1>1, <1>6, DataKept
<1>8. \A u \in Threads : th[u].pc = "init" => th[u].label # l /\ th[u].label # o
  <2> SUFFICES ASSUME NEW u \in Threads, th[u].pc = "init"
               PROVE  th[u].label # l /\ th[u].label # o
    OBVIOUS
  <2>1. u # t /\ th[u].slot # None
    BY <1>1 DEF IInv, CallsOK, CallOK, CallShape, NoSlot
  <2>2. label_lookup[th[u].label] = th[u].slot
    BY <2>1, OwnerHolds
  <2> QED BY <1>3, <1>4, <2>1, <2>2
<1>9. Held(o) /\ ~Held(l) /\ Held(l)' /\ ~Held(o)'
  BY <1>3, <1>5, <1>7, <1>8, NoneIsNot DEF Held, Found
<1>10. \A k \in Labels \ {l, o} : Held(k)' <=> Held(k)
  BY <1>5, <1>7 DEF Held, Found
<1>11. data[s] \in Values
  BY <1>1, <1>3, <1>4 DEF DataInv
<1>12. /\ \A k \in Labels \ {l, o} : ValueOf(k)' = ValueOf(k) /\ (IsDeleted(k)' <=> IsDeleted(k))
       /\ ValueOf(o) = data[s] /\ ValueOf(l) = None /\ ValueOf(l)' = data[s] /\ ValueOf(o)' = None
       /\ IsDeleted(o) /\ ~IsDeleted(l) /\ IsDeleted(l)' /\ ~IsDeleted(o)'
  <2>0. data' = data /\ marked' = marked
    BY <1>1
  <2>1. ASSUME NEW k \in Labels \ {l, o} PROVE ValueOf(k)' = ValueOf(k)
    BY <1>5, <1>10, <2>0 DEF ValueOf
  <2>2. ASSUME NEW k \in Labels \ {l, o} PROVE IsDeleted(k)' <=> IsDeleted(k)
    BY <1>5, <1>10, <2>0 DEF IsDeleted
  <2>3. ValueOf(o) = data[s] /\ ValueOf(l) = None
    BY <1>3, <1>9 DEF ValueOf
  <2>4. ValueOf(l)' = data[s] /\ ValueOf(o)' = None
    BY <1>1, <1>5, <1>9 DEF ValueOf
  <2>5. IsDeleted(o) /\ ~IsDeleted(l)
    BY <1>3, <1>9 DEF IsDeleted
  <2>6. IsDeleted(l)' /\ ~IsDeleted(o)'
    BY <1>1, <1>3, <1>5, <1>9, SMT DEF IsDeleted
  <2> QED BY <2>1, <2>2, <2>3, <2>4, <2>5, <2>6
<1>13. [k \in Labels |-> ValueOf(k)]'
         = [[k \in Labels |-> ValueOf(k)] EXCEPT ![l] = [k \in Labels |-> ValueOf(k)][o],
                                                 ![o] = None]
  BY <1>3, <1>5, <1>12
<1>14. {k \in Labels : IsDeleted(k)}' = ({k \in Labels : IsDeleted(k)} \ {o}) \cup {l}
  BY <1>3, <1>5, <1>12
<1>15. o \in {k \in Labels : IsDeleted(k)} /\ l \notin Entries
  BY <1>3, <1>12 DEF Entries
<1>16. Map!Rename(o, l)
  BY <1>1, <1>13, <1>14, <1>15 DEF Map!Rename, Map!Present, Entries, ValueOf, IsDeleted
<1> QED BY <1>3, <1>7, <1>16 DEF Map!Next

\* The capacity changes when nothing else is going on.
LEMMA RoomMaps ==
  ASSUME IInv, DataInv, max_elements' \in Nat, cur_element_count <= max_elements',
         UNCHANGED <<cur_element_count, label_lookup, data, marked, th>>
  PROVE  DataInv' /\ Map!Next
<1>1. DataInv'
  BY DEF DataInv
<1>2. \A k \in Labels : Held(k)' <=> Held(k)
  BY DEF Held, Found
<1>3. \A k \in Labels : ValueOf(k)' = ValueOf(k) /\ (IsDeleted(k)' <=> IsDeleted(k))
  BY <1>2 DEF ValueOf, IsDeleted
<1>4. /\ [k \in Labels |-> ValueOf(k)]' = [k \in Labels |-> ValueOf(k)]
      /\ {k \in Labels : IsDeleted(k)}' = {k \in Labels : IsDeleted(k)}
  BY <1>3
<1>5. Map!Cardinality(Map!Present) <= max_elements'
  <2>1. Map!Present = Entries
    BY DEF Map!Present, Entries, ValueOf
  <2>2. Cardinality(Entries) \in Nat /\ Cardinality(Entries) <= cur_element_count
    BY EntriesFit
  <2>3. Cardinality(Entries) <= max_elements'
    BY <2>2, TableAssumption, SMT DEF IInv, TypeOK
  <2> QED BY <2>1, <2>3, SameCardinality
<1>6. Map!Resize
  BY <1>4, <1>5 DEF Map!Resize, ValueOf, IsDeleted
<1> QED BY <1>1, <1>6 DEF Map!Next

\* Starting a call changes nothing in the map.
LEMMA CallMaps ==
  ASSUME IInv, DataInv, NEW t \in Threads, NEW kind \in Kinds, NEW l \in Labels,
         NEW v \in Values \cup {None}, NEW replace \in BOOLEAN, Call(t, kind, l, v, replace)
  PROVE  DataInv' /\ UNCHANGED Map!vars
<1> DEFINE c == [Idle EXCEPT !.pc = IF replace THEN "take" ELSE "lookup",
                             !.kind = kind, !.label = l, !.value = v]
<1>1. /\ th[t].pc = "idle" /\ th' = [th EXCEPT ![t] = c] /\ (v = None <=> kind # "add")
      /\ UNCHANGED <<max_elements, cur_element_count, label_lookup, data, marked>>
  BY DEF Call
<1>2. c.pc # "init" /\ c.kind = kind /\ c.value = v
  BY DEF Idle
<1> HIDE DEF c
<1>3. th'[t] = c /\ \A u \in Threads \ {t} : th'[u] = th[u]
  BY <1>1 DEF IInv, TypeOK
<1>4. \A u \in Threads : th'[u].pc = "init" <=> th[u].pc = "init"
  BY <1>1, <1>2, <1>3
<1>5. \A u \in Threads : th[u].pc = "init" => th'[u] = th[u]
  BY <1>1, <1>3
<1>6. \A k \in Labels : Held(k)' <=> Held(k)
  BY <1>1, <1>4, <1>5 DEF Held, Found
<1>7. UNCHANGED Map!vars
  BY <1>1, <1>6, MapKept DEF ValueOf, IsDeleted
<1>8. DataInv'
  <2>1. ASSUME NEW u \in Threads, th'[u].pc # "idle", th'[u].kind = "add"
        PROVE  th'[u].value \in Values
    <3>1. CASE u = t
      BY <1>1, <1>2, <1>3, <2>1, <3>1
    <3>2. CASE u # t
      BY <1>3, <2>1, <3>2 DEF DataInv
    <3> QED BY <3>1, <3>2
  <2>2. ASSUME NEW r \in Slots, r < cur_element_count'
        PROVE  data'[r] \in Values \/ \E u \in Threads : th'[u].pc = "init" /\ th'[u].slot = r
    BY <1>1, <1>4, <1>5, <2>2, SMT DEF DataInv
  <2> QED BY <2>1, <2>2 DEF DataInv
<1> QED BY <1>7, <1>8

\* The steps that look and lock but change nothing in the map.
LEMMA QuietMaps ==
  ASSUME IInv, DataInv, NEW t \in Threads,
         \/ TakeVacant(t) \/ Relabel(t) \/ MarkLookup(t) \/ UnmarkLookup(t) \/ GetLookup(t)
         \/ Recheck(t) \/ CheckMark(t) \/ CountMark(t) \/ CountClear(t)
         \/ InsertVacant(t) \/ EraseVacant(t) \/ ReadData(t)
  PROVE  DataInv' /\ UNCHANGED Map!vars
<1> DEFINE P == Steps \ {"init"}
<1>1. th[t].pc \notin {"idle", "init"}
  BY DEF TakeVacant, Relabel, MarkLookup, UnmarkLookup, GetLookup, Recheck, CheckMark,
         CountMark, CountClear, InsertVacant, EraseVacant, ReadData
<1>2. UNCHANGED <<max_elements, cur_element_count, label_lookup, data, marked>>
  BY DEF TakeVacant, Relabel, MarkLookup, UnmarkLookup, GetLookup, FindSlot, Recheck, CheckMark,
         CountMark, CountClear, InsertVacant, EraseVacant, ReadData
<1>3. /\ "lookup" \in P /\ "relabel" \in P /\ "swap" \in P /\ "check" \in P
      /\ "read" \in P /\ "write" \in P /\ "flip" \in P /\ "set" \in P /\ P \subseteq Steps
  BY DEF Steps
<1>4. th[t].label \in Labels
  BY <1>1 DEF IInv, CallsOK, CallOK, CallShape
<1> HIDE DEF P
<1>5. ASSUME TakeVacant(t) PROVE Moves(t, P)
  <2>1. deleted_elements \subseteq Slots
    BY DEF IInv, TypeOK
  <2> QED BY <1>3, <1>5, <2>1, GotoMoves, GotoWithMoves DEF TakeVacant
<1>6. ASSUME Relabel(t) PROVE Moves(t, P)
  <2>1. PICK k : k = label[th[t].slot]
    OBVIOUS
  <2>2. th' = [th EXCEPT ![t].pc = "swap", ![t].old = k]
    BY <1>6, <2>1 DEF Relabel
  <2>3. th[t] \in Calls /\ th \in [Threads -> Calls]
    BY DEF IInv, TypeOK
  <2>4. th'[t] = [th[t] EXCEPT !.pc = "swap", !.old = k] /\ \A u \in Threads \ {t} : th'[u] = th[u]
    BY <2>2, <2>3
  <2>5. /\ th'[t].pc = "swap" /\ th'[t].kind = th[t].kind
        /\ th'[t].label = th[t].label /\ th'[t].value = th[t].value
    BY ZenonT(60), <2>3, <2>4 DEF Calls
  <2> QED BY <1>3, <2>4, <2>5 DEF Moves
<1>7. ASSUME MarkLookup(t) \/ UnmarkLookup(t) PROVE Moves(t, P)
  BY <1>3, <1>4, <1>7, ReturnMoves, GotoWithMoves, FoundSlot DEF MarkLookup, UnmarkLookup, FindSlot
<1>8. ASSUME GetLookup(t) PROVE Moves(t, P)
  BY <1>3, <1>4, <1>8, ReturnMoves, GotoWithMoves, FoundSlot DEF GetLookup, Found
<1>9. ASSUME Recheck(t) \/ CheckMark(t) PROVE Moves(t, P)
  BY <1>3, <1>9, ReturnMoves, GotoMoves DEF Recheck, CheckMark
<1>10. ASSUME InsertVacant(t) \/ EraseVacant(t) \/ ReadData(t) PROVE Moves(t, P)
  BY <1>3, <1>10, ReturnMoves, GotoMoves DEF InsertVacant, EraseVacant, AfterUnmark, ReadData
<1>11. ASSUME CountMark(t) \/ CountClear(t) PROVE Moves(t, P)
  BY <1>3, <1>11, ReturnMoves, GotoMoves DEF CountMark, CountClear, AfterUnmark
<1>12. Moves(t, P)
  BY <1>5, <1>6, <1>7, <1>8, <1>9, <1>10, <1>11
<1> QED BY <1>1, <1>2, <1>12, QuietStep DEF P

\* Every step of every call is a step of the map, or none.
LEMMA NextMaps ==
  ASSUME IInv, DataInv, [Next]_vars
  PROVE  DataInv' /\ [Map!Next]_(Map!vars)
<1>1. ASSUME NEW t \in Threads, ThreadStep(t) PROVE DataInv' /\ [Map!Next]_(Map!vars)
  <2>1. ASSUME NEW kind \in Kinds, NEW l \in Labels, NEW v \in Values \cup {None},
               NEW replace \in BOOLEAN, Call(t, kind, l, v, replace)
        PROVE  DataInv' /\ UNCHANGED Map!vars
    BY <2>1, CallMaps
  <2> QED
    BY <1>1, <2>1, QuietMaps, AddLookupMaps, SwapLookupMaps, InitElementMaps, SetMarkMaps,
       ClearMarkMaps, UpdatePointMaps DEF ThreadStep
<1>2. ASSUME NEW n \in 0 .. MaxSlots, ResizeIndex(n) PROVE DataInv' /\ Map!Next
  <2>1. /\ max_elements' \in Nat /\ cur_element_count <= max_elements'
        /\ UNCHANGED <<cur_element_count, label_lookup, data, marked, th>>
    BY <1>2, TableAssumption, SMT DEF ResizeIndex, IInv, TypeOK
  <2> QED BY <2>1, RoomMaps
<1>3. ASSUME NEW n \in 0 .. MaxSlots, NEW allow \in BOOLEAN, Reload(n, allow)
      PROVE  DataInv' /\ Map!Next
  <2>1. label_lookup' = label_lookup
    BY <1>3, ReloadLookup
  <2>2. max_elements' \in Nat /\ cur_element_count <= max_elements'
    BY <1>3, TableAssumption, SMT DEF Reload, IInv, TypeOK
  <2>3. UNCHANGED <<cur_element_count, data, marked, th>>
    BY <1>3 DEF Reload
  <2> QED BY <2>1, <2>2, <2>3, RoomMaps
<1>4. ASSUME UNCHANGED vars PROVE DataInv' /\ UNCHANGED Map!vars
  <2>1. UNCHANGED <<max_elements, cur_element_count, label_lookup, data, marked, th>>
    BY <1>4 DEF vars
  <2>2. \A k \in Labels : Held(k)' <=> Held(k)
    BY <2>1 DEF Held, Found
  <2>3. UNCHANGED Map!vars
    BY <2>1, <2>2, MapKept DEF ValueOf, IsDeleted
  <2> QED BY <2>1, <2>3 DEF DataInv
<1> QED BY <1>1, <1>2, <1>3, <1>4 DEF Next

\* For any number of threads, labels, locks and slots the calls together are the
\* bounded map of LabelMap: every critical section and every unlocked access of
\* addPoint, markDelete, unmarkDelete, resizeIndex and a reload is one insert,
\* update, delete, undelete, rename or resize of the map, or cannot be seen there,
\* provided that callers pass replace_deleted only for labels that are not in the
\* index.
THEOREM CallsRefineMap == ASSUME ~ReplaceExisting PROVE Spec => ImplementsLabelMap
<1>1. Init => DataInv /\ Map!Init
  <2> SUFFICES ASSUME Init PROVE DataInv /\ Map!Init
    OBVIOUS
  <2>1. \A t \in Threads : th[t].pc = "idle"
    BY DEF Init, Idle
  <2>2. DataInv
    BY <2>1, TableAssumption, SMT DEF DataInv, Init, Slots
  <2>3. \A l \in Labels : ~Held(l)
    BY DEF Init, Held, Found
  <2>4. max_elements \in Nat
    BY TableAssumption, SMT DEF Init
  <2> QED BY <2>2, <2>3, <2>4 DEF Map!Init
<1>2. IInv /\ DataInv /\ [Next]_vars => DataInv' /\ [Map!Next]_(Map!vars)
  BY NextMaps
<1> QED BY <1>1, <1>2, Invariance, PTL DEF Spec, ImplementsLabelMap, Map!Spec
=============================================================================

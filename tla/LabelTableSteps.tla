-------------------------- MODULE LabelTableSteps --------------------------
(***************************************************************************)
(* Steps that keep the invariant of LabelTable: those of a call that do not*)
(* change the table (starting, finding the slot of a label, checking a     *)
(* mark, reading and overwriting data), and those of addPoint that do      *)
(* (allotting the next slot, filling it, giving a deleted slot a new       *)
(* label).  Callers are assumed to pass replace_deleted only for labels    *)
(* that are not in the index (~ReplaceExisting).                           *)
(***************************************************************************)
EXTENDS LabelTableInv, TLAPS

\* Steps are left to Zenon, except where SMT is named.
USE Zenon

\* No slot and no label is None.
LEMMA NoneIsNot == None \notin Slots /\ None \notin Labels
  BY TableAssumption, SMT DEF Slots

\* A call that a step leaves alone goes on as before, when the step keeps the
\* mark of its slot and what it assumes of label_lookup_.
LEMMA OtherCall ==
  ASSUME IInv, NEW u \in Threads, th'[u] = th[u],
         allow_replace_deleted' = allow_replace_deleted,
         th[u].slot # None => th[u].slot < cur_element_count',
         th[u].slot \in marked' <=> th[u].slot \in marked,
         CallLookup(u)'
  PROVE  CallOK(u)'
<1>1. CallShape(u) /\ CallMarks(u)
  BY DEF IInv, CallsOK, CallOK
<1>2. CallShape(u)'
  BY <1>1 DEF CallShape
<1>3. CallMarks(u)'
  BY <1>1, SMT DEF CallMarks
<1> QED BY <1>2, <1>3 DEF CallOK

\* What Found says of a label: it leads to an allotted slot.
LEMMA FoundSlot ==
  ASSUME IInv, NEW l \in Labels, Found(l)
  PROVE  label_lookup[l] \in Slots /\ label_lookup[l] < cur_element_count
BY DEF IInv, TypeOK, Found, LabelsAgree

\* A step keeps the count of the marks when it changes neither, and starts or
\* ends no counting.
LEMMA CountKept ==
  ASSUME DeletedCount, NEW t \in Threads, \A u \in Threads \ {t} : th'[u] = th[u],
         th[t].pc # "count", th'[t].pc # "count", UNCHANGED <<marked, num_deleted>>
  PROVE  DeletedCount'
<1>1. \A s \in Slots : Counting(s)' <=> Counting(s)
  BY DEF Counting
<1>2. Counted' = Counted
  BY <1>1 DEF Counted
<1> QED BY <1>2 DEF DeletedCount

\* The record of a call that moves on.
LEMMA GotoFields ==
  ASSUME IInv, NEW t \in Threads, NEW pc \in Steps, Goto(t, pc)
  PROVE  \E c \in Calls :
           /\ th' = [th EXCEPT ![t] = c] /\ th'[t] = c
           /\ \A u \in Threads \ {t} : th'[u] = th[u]
           /\ c.pc = pc /\ c.kind = th[t].kind /\ c.label = th[t].label
           /\ c.value = th[t].value /\ c.slot = th[t].slot /\ c.old = th[t].old
<1> DEFINE c == [th[t] EXCEPT !.pc = pc]
<1>1. th[t] \in Calls
  BY DEF IInv, TypeOK
<1>2. /\ c \in Calls /\ c.pc = pc /\ c.kind = th[t].kind /\ c.label = th[t].label
      /\ c.value = th[t].value /\ c.slot = th[t].slot /\ c.old = th[t].old
  BY <1>1 DEF Calls
<1>3. th' = [th EXCEPT ![t] = c]
  BY DEF Goto
<1> HIDE DEF c
<1>4. th'[t] = c /\ \A u \in Threads \ {t} : th'[u] = th[u]
  BY <1>3 DEF IInv, TypeOK
<1> QED BY <1>2, <1>3, <1>4

\* addPoint erases the replaced label and enters its own.
LEMMA SwapLookupStep ==
  ASSUME IInv, NEW t \in Threads, SwapLookup(t)
  PROVE  IInv'
<1> DEFINE s == th[t].slot
           l == th[t].label
           o == th[t].old
<1>1. /\ th[t].pc = "swap" /\ Goto(t, "check")
      /\ label_lookup' = [label_lookup EXCEPT ![o] = None, ![l] = s]
      /\ UNCHANGED <<allow_replace_deleted, max_elements, cur_element_count, label, data,
                     marked, num_deleted, deleted_elements>>
  BY DEF SwapLookup
<1>2. th[t] \in Calls
  BY DEF IInv, TypeOK
<1>3. /\ s \in Slots /\ l \in Labels /\ o \in Labels /\ s \in marked /\ s < cur_element_count
      /\ label_lookup[l] = None /\ label_lookup[o] = s /\ label[s] = l
      /\ th[t].kind = "add" /\ allow_replace_deleted
  BY <1>1, <1>2 DEF Calls, IInv, CallsOK, CallOK, CallShape, CallMarks, CallLookup, NoSlot, Found
<1>4. \A u \in Threads \ {t} : th[u].slot # s
  BY <1>3, NoneIsNot DEF IInv, SlotIsOwned
<1>5. PICK c \in Calls :
        /\ th' = [th EXCEPT ![t] = c] /\ th'[t] = c
        /\ \A u \in Threads \ {t} : th'[u] = th[u]
        /\ c.pc = "check" /\ c.kind = "add" /\ c.label = l /\ c.slot = s
  BY SMTT(30), <1>1, <1>3, GotoFields DEF Steps
<1>6. /\ label_lookup'[l] = s /\ label_lookup'[o] = None /\ o # l
      /\ \A k \in Labels \ {l, o} : label_lookup'[k] = label_lookup[k]
  BY <1>1, <1>3, NoneIsNot DEF IInv, TypeOK
<1>7. TypeOK'
  BY <1>1, <1>3, <1>5 DEF IInv, TypeOK
<1>8. \A r \in Slots \ {s} : Settling(r)' <=> Settling(r)
  BY <1>1, <1>5 DEF Settling
<1>9. \A k \in Labels \ {l, o} : label_lookup[k] # s
  BY <1>3, NoneIsNot DEF IInv, LookupInjective, Found
<1>10. LabelsAgree'
  <2>1. ASSUME NEW k \in Labels, label_lookup'[k] # None
        PROVE  label_lookup'[k] < cur_element_count
                 /\ (label[label_lookup'[k]] = k \/ Settling(label_lookup[k])')
    <3>1. CASE k = l
      BY <1>3, <1>6, <3>1
    <3>2. CASE k # l
      <4>1. k # o /\ label_lookup'[k] = label_lookup[k] /\ Found(k)
        BY <1>6, <2>1, <3>2 DEF Found
      <4>2. label_lookup[k] \in Slots \ {s} /\ label_lookup[k] < cur_element_count
        BY <1>9, <3>2, <4>1, FoundSlot
      <4>3. Settling(label_lookup[k]) => Settling(label_lookup[k])'
        BY <1>8, <4>1, <4>2
      <4> QED BY <4>1, <4>2, <4>3 DEF IInv, LabelsAgree
    <3> QED BY <3>1, <3>2
  <2>2. ASSUME NEW r \in 0 .. cur_element_count - 1
        PROVE  Settling(r)' \/ (label[r] # None /\ label_lookup'[label[r]] = r)
    <3>1. r \in Slots
      BY TableAssumption, SMT DEF IInv, TypeOK, Slots
    <3>2. CASE r = s
      BY <1>3, <1>6, <3>2, NoneIsNot
    <3>3. CASE r # s
      <4>1. CASE Settling(r)
        BY <1>8, <3>1, <3>3, <4>1
      <4>2. CASE label[r] # None /\ label_lookup[label[r]] = r
        <5>1. label[r] \in Labels \ {l, o}
          BY <1>3, <3>1, <3>3, <4>2, NoneIsNot DEF IInv, TypeOK
        <5> QED BY <1>6, <4>2, <5>1
      <4> QED BY <4>1, <4>2 DEF IInv, LabelsAgree
    <3> QED BY <3>2, <3>3
  <2> QED BY <1>1, <2>1, <2>2 DEF LabelsAgree, Found
<1>11. ASSUME NEW u \in Threads \ {t}
       PROVE  th[u].pc # "idle" => th[u].label \in Labels /\ th[u].label # l
  BY <1>1 DEF IInv, CallsOK, CallOK, CallShape, LocksExclude
<1>12. SlotIsOwned'
  <2>1. ASSUME NEW u \in Threads \ {t}, th[u].slot # None, th[u].pc \notin {"relabel", "swap"}
        PROVE  label_lookup'[th[u].label] = th[u].slot
    <3>1. label_lookup[th[u].label] = th[u].slot /\ th[u].pc # "idle"
      BY <2>1 DEF IInv, SlotIsOwned, CallsOK, CallOK, CallShape, NoSlot
    <3> QED BY <1>3, <1>4, <1>6, <1>11, <3>1
  <2> QED BY SMTT(30), <1>4, <1>5, <1>6, <2>1 DEF IInv, SlotIsOwned
<1>13. LocksExclude' /\ VacantEach'
  BY <1>1, <1>5, SMT DEF IInv, LocksExclude, LockId, VacantEach
<1>14. CallOK(t)'
  BY SMTT(30), <1>1, <1>3, <1>5, NoneIsNot DEF CallOK, CallShape, CallMarks, CallLookup, NoSlot, Kinds
<1>15. ASSUME NEW u \in Threads \ {t} PROVE CallOK(u)'
  <2>1. CallOK(u) /\ th'[u] = th[u]
    BY <1>5 DEF IInv, CallsOK
  <2>2. th[u].pc = "swap" => th[u].old \in Labels \ {l, o}
    <3>1. th[u] \in Calls
      BY DEF IInv, TypeOK
    <3> QED BY SMTT(30), <1>3, <1>4, <2>1, <3>1, NoneIsNot DEF Calls, CallOK, CallShape, CallLookup, NoSlot
  <2>3. th[u].pc # "idle" => label_lookup'[th[u].label] \in {None, label_lookup[th[u].label]}
    BY <1>6, <1>11
  <2>4. th[u].pc = "swap" => label_lookup'[th[u].old] = th[u].slot
    BY <1>6, <2>1, <2>2 DEF CallOK, CallLookup
  <2>5. th[u].pc \in {"take", "relabel", "swap"} => label_lookup'[th[u].label] = None
    BY <2>1, <2>3 DEF CallOK, CallLookup, Found
  <2>6. th[u].pc = "lookup" /\ th[u].kind = "mark" /\ allow_replace_deleted =>
          label_lookup'[th[u].label] = None \/ label_lookup'[th[u].label] \notin marked
    BY <2>1, <2>3 DEF CallOK, CallLookup, Found
  <2>7. CallLookup(u)'
    <3>1. CallLookup(u)
      BY <2>1 DEF CallOK
    <3> QED BY SMTT(30), <1>1, <2>1, <2>4, <2>5, <2>6, <3>1 DEF CallLookup, Found
  <2>8. th[u].slot # None => th[u].slot < cur_element_count'
    BY <1>1, <2>1 DEF CallOK, CallShape
  <2> QED BY <1>1, <2>1, <2>7, <2>8, OtherCall
<1>16. LookupInjective'
  BY <1>3, <1>6, <1>9, NoneIsNot, SMT DEF IInv, LookupInjective, Found
<1>17. MarksAllotted' /\ DeletedCount'
  BY <1>1, <1>5, CountKept DEF IInv, MarksAllotted
<1> QED BY <1>7, <1>10, <1>12, <1>13, <1>14, <1>15, <1>16, <1>17 DEF IInv, CallsOK

\* A thread in no call.
LEMMA IdleCall ==
  ASSUME NEW t \in Threads, th'[t].pc = "idle", th'[t].slot = None
  PROVE  CallOK(t)'
BY DEF CallOK, CallShape, CallMarks, CallLookup, NoSlot

\* The record of a call that returns.
LEMMA ReturnFields ==
  ASSUME IInv, NEW t \in Threads, Return(t)
  PROVE  /\ th' \in [Threads -> Calls]
         /\ th'[t].pc = "idle" /\ th'[t].slot = None /\ th'[t].kind = "none"
         /\ \A u \in Threads \ {t} : th'[u] = th[u]
<1>1. Idle \in Calls /\ Idle.pc = "idle" /\ Idle.slot = None /\ Idle.kind = "none"
  BY DEF Idle, Calls
<1> QED BY <1>1 DEF IInv, TypeOK, Return

\* addPoint fills the slot it allotted.
LEMMA InitElementStep ==
  ASSUME IInv, NEW t \in Threads, InitElement(t)
  PROVE  IInv'
<1> DEFINE s == th[t].slot
           l == th[t].label
<1>1. /\ th[t].pc = "init" /\ Return(t) /\ marked' = marked \ {s}
      /\ label' = [label EXCEPT ![s] = l]
      /\ UNCHANGED <<allow_replace_deleted, max_elements, cur_element_count, label_lookup,
                     num_deleted, deleted_elements>>
  BY DEF InitElement
<1>2. th[t] \in Calls
  BY DEF IInv, TypeOK
<1>3. s \in Slots /\ l \in Labels /\ s \notin marked /\ th[t].value \in Values \cup {None}
  BY <1>1, <1>2 DEF Calls, IInv, CallsOK, CallOK, CallShape, CallMarks, NoSlot
<1>4. label_lookup[l] = s /\ \A u \in Threads \ {t} : th[u].slot # s
  BY <1>1, <1>3, NoneIsNot DEF IInv, SlotIsOwned
<1>5. marked' = marked
  BY <1>1, <1>3
<1>6. /\ th' \in [Threads -> Calls]
      /\ th'[t].pc = "idle" /\ th'[t].slot = None /\ th'[t].kind = "none"
      /\ \A u \in Threads \ {t} : th'[u] = th[u]
  BY <1>1, ReturnFields
<1>7. TypeOK'
  BY <1>1, <1>3, <1>5, <1>6 DEF IInv, TypeOK, InitElement
<1>8. /\ label'[s] = l
      /\ \A r \in Slots \ {s} : label'[r] = label[r]
  BY <1>1, <1>3 DEF IInv, TypeOK
<1>9. \A r \in Slots \ {s} : Settling(r)' <=> Settling(r)
  BY <1>3, <1>6, NoneIsNot DEF Settling
<1>10. LabelsAgree'
  <2>1. ASSUME NEW k \in Labels, Found(k)
        PROVE  label_lookup[k] < cur_element_count
                 /\ (label'[label_lookup[k]] = k \/ Settling(label_lookup[k])')
    <3>1. label_lookup[k] \in Slots /\ label_lookup[k] < cur_element_count
      BY <2>1, FoundSlot
    <3>2. CASE label_lookup[k] = s
      BY <1>3, <1>4, <1>8, <2>1, <3>1, <3>2 DEF IInv, LookupInjective
    <3>3. CASE label_lookup[k] # s
      <4>1. Settling(label_lookup[k]) => Settling(label_lookup[k])'
        BY <1>1, <1>9, <3>1, <3>3
      <4> QED BY <1>8, <2>1, <3>1, <3>3, <4>1 DEF IInv, LabelsAgree
    <3> QED BY <3>2, <3>3
  <2>2. ASSUME NEW r \in 0 .. cur_element_count - 1
        PROVE  Settling(r)' \/ (label'[r] # None /\ label_lookup[label'[r]] = r)
    <3>1. r \in Slots
      BY TableAssumption, SMT DEF IInv, TypeOK, Slots
    <3>2. CASE r = s
      BY <1>3, <1>4, <1>8, <3>2, NoneIsNot
    <3>3. CASE r # s
      BY <1>8, <1>9, <3>1, <3>3 DEF IInv, LabelsAgree
    <3> QED BY <3>2, <3>3
  <2> QED BY <1>1, <2>1, <2>2 DEF LabelsAgree, Found
<1>11. SlotIsOwned' /\ LocksExclude'
  BY <1>1, <1>6, SMT DEF IInv, SlotIsOwned, LocksExclude, LockId
<1>12. VacantEach'
  BY <1>1, <1>3, <1>5, <1>6, NoneIsNot, SMT DEF IInv, VacantEach
<1>13. CallOK(t)'
  BY <1>6, IdleCall
<1>14. ASSUME NEW u \in Threads \ {t} PROVE CallOK(u)'
  <2>1. CallOK(u) /\ th'[u] = th[u]
    BY <1>6 DEF IInv, CallsOK
  <2>2. th[u].pc = "swap" => th[u].slot \in Slots \ {s}
    <3>1. th[u] \in Calls
      BY DEF IInv, TypeOK
    <3> QED BY <1>4, <2>1, <3>1 DEF Calls, CallOK, CallShape, NoSlot
  <2>3. th[u].pc = "swap" => label'[th[u].slot] = th[u].label
    BY <1>8, <2>1, <2>2 DEF CallOK, CallLookup
  <2>4. th[u].slot # None => th[u].slot < cur_element_count'
    BY <1>1, <2>1 DEF CallOK, CallShape
  <2>5. CallLookup(u)'
    <3>1. CallLookup(u)
      BY <2>1 DEF CallOK
    <3> QED BY <1>1, <1>5, <2>1, <2>3, <3>1 DEF CallLookup, Found
  <2> QED BY <1>1, <1>5, <2>1, <2>4, <2>5, OtherCall
<1>15. LookupInjective' /\ MarksAllotted' /\ DeletedCount'
  <2>1. DeletedCount'
    BY <1>1, <1>5, <1>6, CountKept DEF IInv
  <2> QED BY <1>1, <1>5, <2>1 DEF IInv, LookupInjective, MarksAllotted, Found
<1> QED BY <1>7, <1>10, <1>11, <1>12, <1>13, <1>14, <1>15 DEF IInv, CallsOK

\* The record of a call that has replaced its slot's label.
LEMMA RelabelFields ==
  ASSUME IInv, NEW t \in Threads, NEW k \in Labels \cup {None},
         th' = [th EXCEPT ![t].pc = "swap", ![t].old = k]
  PROVE  /\ th' \in [Threads -> Calls]
         /\ th'[t].pc = "swap" /\ th'[t].kind = th[t].kind /\ th'[t].label = th[t].label
         /\ th'[t].slot = th[t].slot /\ th'[t].old = k
         /\ \A u \in Threads \ {t} : th'[u] = th[u]
<1> DEFINE c == [th[t] EXCEPT !.pc = "swap", !.old = k]
<1>1. th[t] \in Calls
  BY DEF IInv, TypeOK
<1>2. /\ c \in Calls /\ c.pc = "swap" /\ c.kind = th[t].kind /\ c.label = th[t].label
      /\ c.slot = th[t].slot /\ c.old = k
  BY <1>1 DEF Calls, Steps
<1>3. th' = [th EXCEPT ![t] = c]
  OBVIOUS
<1> HIDE DEF c
<1> QED BY <1>2, <1>3 DEF IInv, TypeOK

\* addPoint writes its label into the vacant slot it took.
LEMMA RelabelStep ==
  ASSUME IInv, NEW t \in Threads, Relabel(t)
  PROVE  IInv'
<1> DEFINE s == th[t].slot
           l == th[t].label
<1>1. /\ th[t].pc = "relabel"
      /\ th' = [th EXCEPT ![t].pc = "swap", ![t].old = label[s]]
      /\ label' = [label EXCEPT ![s] = l]
      /\ UNCHANGED <<allow_replace_deleted, max_elements, cur_element_count, label_lookup,
                     data, marked, num_deleted, deleted_elements>>
  BY DEF Relabel
<1>2. th[t] \in Calls
  BY DEF IInv, TypeOK
<1>3. /\ s \in Slots /\ l \in Labels /\ s \in marked /\ s < cur_element_count
      /\ ~Found(l) /\ th[t].kind = "add" /\ allow_replace_deleted
  BY <1>1, <1>2 DEF Calls, IInv, CallsOK, CallOK, CallShape, CallMarks, CallLookup, NoSlot
<1>4. \A u \in Threads \ {t} : th[u].slot # s
  BY <1>3, NoneIsNot DEF IInv, SlotIsOwned
<1>5. label[s] \in Labels /\ label_lookup[label[s]] = s
  <2>1. ~Settling(s)
    BY <1>1, <1>4 DEF Settling
  <2>2. s \in 0 .. cur_element_count - 1
    BY <1>3, TableAssumption, SMT DEF IInv, TypeOK, Slots
  <2>3. label[s] # None /\ label_lookup[label[s]] = s
    BY <2>1, <2>2 DEF IInv, LabelsAgree
  <2> QED BY <1>3, <2>3 DEF IInv, TypeOK
<1>6. /\ th' \in [Threads -> Calls]
      /\ th'[t].pc = "swap" /\ th'[t].kind = "add" /\ th'[t].label = l
      /\ th'[t].slot = s /\ th'[t].old = label[s]
      /\ \A u \in Threads \ {t} : th'[u] = th[u]
  BY <1>1, <1>3, <1>5, RelabelFields
<1>7. TypeOK'
  BY <1>1, <1>3, <1>6 DEF IInv, TypeOK
<1>8. /\ label'[s] = l
      /\ \A r \in Slots \ {s} : label'[r] = label[r]
  BY <1>1, <1>3 DEF IInv, TypeOK
<1>9. Settling(s)' /\ \A r \in Slots \ {s} : Settling(r)' <=> Settling(r)
  <2>1. th'[t].slot = th[t].slot
    BY <1>6
  <2> QED BY <1>1, <1>6, <2>1 DEF Settling
<1>10. LabelsAgree'
  <2>1. ASSUME NEW k \in Labels, Found(k)
        PROVE  label_lookup[k] < cur_element_count
                 /\ (label'[label_lookup[k]] = k \/ Settling(label_lookup[k])')
    <3>1. label_lookup[k] \in Slots /\ label_lookup[k] < cur_element_count
      BY <2>1, FoundSlot
    <3>2. CASE label_lookup[k] = s
      BY <1>1, <1>6, <3>1, <3>2 DEF Settling
    <3>3. CASE label_lookup[k] # s
      <4>1. Settling(label_lookup[k]) => Settling(label_lookup[k])'
        BY <1>1, <1>9, <3>1, <3>3
      <4> QED BY <1>8, <2>1, <3>1, <3>3, <4>1 DEF IInv, LabelsAgree
    <3> QED BY <3>2, <3>3
  <2>2. ASSUME NEW r \in 0 .. cur_element_count - 1
        PROVE  Settling(r)' \/ (label'[r] # None /\ label_lookup[label'[r]] = r)
    <3>1. r \in Slots
      BY TableAssumption, SMT DEF IInv, TypeOK, Slots
    <3>2. CASE r = s
      BY <1>6, <3>2 DEF Settling
    <3>3. CASE r # s
      BY <1>8, <1>9, <3>1, <3>3 DEF IInv, LabelsAgree
    <3> QED BY <3>2, <3>3
  <2> QED BY <1>1, <2>1, <2>2 DEF LabelsAgree, Found
<1>11. SlotIsOwned' /\ LocksExclude'
  BY <1>1, <1>6, SMT DEF IInv, SlotIsOwned, LocksExclude, LockId
<1>12. VacantEach'
  BY <1>1, <1>6, SMT DEF IInv, VacantEach
<1>13. CallOK(t)'
  BY <1>1, <1>3, <1>5, <1>6, <1>8, NoneIsNot, SMT DEF CallOK, CallShape, CallMarks, CallLookup, NoSlot, Found, Kinds
<1>14. ASSUME NEW u \in Threads \ {t} PROVE CallOK(u)'
  <2>1. CallOK(u) /\ th'[u] = th[u]
    BY <1>6 DEF IInv, CallsOK
  <2>2. th[u].pc = "swap" => th[u].slot \in Slots \ {s}
    <3>1. th[u] \in Calls
      BY DEF IInv, TypeOK
    <3> QED BY <1>4, <2>1, <3>1 DEF Calls, CallOK, CallShape, NoSlot
  <2>3. th[u].pc = "swap" => label'[th[u].slot] = th[u].label
    BY <1>8, <2>1, <2>2 DEF CallOK, CallLookup
  <2>4. th[u].slot # None => th[u].slot < cur_element_count'
    BY <1>1, <2>1 DEF CallOK, CallShape
  <2>5. CallLookup(u)'
    <3>1. CallLookup(u)
      BY <2>1 DEF CallOK
    <3> QED BY <1>1, <2>1, <2>3, <3>1, SMT DEF CallLookup, Found
  <2> QED BY <1>1, <2>1, <2>4, <2>5, OtherCall
<1>15. LookupInjective' /\ MarksAllotted' /\ DeletedCount'
  <2>1. DeletedCount'
    BY <1>1, <1>6, CountKept DEF IInv
  <2> QED BY <1>1, <2>1 DEF IInv, LookupInjective, MarksAllotted, Found
<1> QED BY <1>7, <1>10, <1>11, <1>12, <1>13, <1>14, <1>15 DEF IInv, CallsOK

\* In particular when the step keeps the table.
LEMMA CallUndisturbed ==
  ASSUME IInv, NEW u \in Threads, th'[u] = th[u],
         UNCHANGED <<allow_replace_deleted, cur_element_count, label_lookup, label, marked>>
  PROVE  CallOK(u)'
<1>1. CallShape(u) /\ CallLookup(u)
  BY DEF IInv, CallsOK, CallOK
<1>2. th[u].slot # None => th[u].slot < cur_element_count'
  BY <1>1 DEF CallShape
<1>3. CallLookup(u)'
  BY <1>1 DEF CallLookup, Found
<1> QED BY <1>2, <1>3, OtherCall

\* The slot a label leads to, unless it is vacant, is worked on by no call but
\* the one that has the label: another one would hold the same operation lock.
LEMMA OneOwner ==
  ASSUME IInv, NEW t \in Threads, NEW u \in Threads \ {t}, th[t].pc # "idle",
         Found(th[t].label), ~(allow_replace_deleted /\ label_lookup[th[t].label] \in marked)
  PROVE  th[u].slot # label_lookup[th[t].label]
<1> SUFFICES ASSUME th[u].slot = label_lookup[th[t].label] PROVE FALSE
  OBVIOUS
<1>1. th[t].label \in Labels /\ th[u].slot # None
  BY DEF IInv, CallsOK, CallOK, CallShape, Found
<1>2. th[u].pc \notin {"relabel", "swap"}
  BY <1>1 DEF IInv, CallsOK, CallOK, CallMarks, CallLookup
<1>3. th[u].pc # "idle" /\ th[u].label \in Labels /\ label_lookup[th[u].label] = th[u].slot
  BY <1>1, <1>2 DEF IInv, CallsOK, CallOK, CallShape, NoSlot, SlotIsOwned
<1>4. th[u].label = th[t].label
  BY <1>1, <1>3 DEF IInv, LookupInjective, Found
<1> QED BY <1>3, <1>4 DEF IInv, LocksExclude

\* A call that returns, or throws, and leaves no vacant slot behind.
LEMMA ReturnStep ==
  ASSUME IInv, NEW t \in Threads, Return(t), TableKept,
         th[t].pc \notin {"init", "swap", "idle", "count"},
         allow_replace_deleted => th[t].slot \notin marked
  PROVE  IInv'
<1>1. /\ th'[t] = Idle
      /\ \A u \in Threads \ {t} : th'[u] = th[u]
  BY DEF IInv, TypeOK, Return
<1>2. Idle \in Calls /\ Idle.pc = "idle" /\ Idle.slot = None /\ Idle.kind = "none"
  BY DEF Idle, Calls
<1>3. TypeOK'
  BY <1>1, <1>2 DEF IInv, TypeOK, Return, TableKept
<1>4. LabelsAgree'
  BY <1>1, <1>2, SMT DEF IInv, LabelsAgree, Settling, Found, TableKept
<1>5. SlotIsOwned'
  BY <1>1, <1>2, SMT DEF IInv, SlotIsOwned, TableKept
<1>6. VacantEach'
  BY <1>1, <1>2, NoneIsNot, SMT DEF IInv, VacantEach, TableKept
<1>7. LocksExclude'
  BY <1>1, <1>2 DEF IInv, LocksExclude, LockId
<1>8. CallsOK'
  <2>1. CallOK(t)'
    BY <1>1, <1>2, IdleCall
  <2>2. ASSUME NEW u \in Threads \ {t} PROVE CallOK(u)'
    BY <1>1, CallUndisturbed DEF TableKept
  <2> QED BY <2>1, <2>2 DEF CallsOK
<1>9. LookupInjective' /\ MarksAllotted' /\ DeletedCount'
  <2>1. DeletedCount'
    BY <1>1, <1>2, CountKept DEF IInv, TableKept
  <2> QED BY <2>1 DEF IInv, LookupInjective, MarksAllotted, Found, TableKept
<1> QED BY <1>3, <1>4, <1>5, <1>6, <1>7, <1>8, <1>9 DEF IInv

\* A call that goes on with the label and kind it has and touches only its own
\* record: it keeps the table's part of the invariant when it takes no slot that
\* another call has, and takes its label's slot.
LEMMA AdvanceStep ==
  ASSUME IInv, NEW t \in Threads, TableKept, NEW c \in Calls,
         th' = [th EXCEPT ![t] = c], CallOK(t)',
         th[t].pc \notin {"init", "swap", "idle", "count"},
         c.pc \notin {"init", "swap", "idle", "count"},
         c.label = th[t].label,
         \/ c.slot = th[t].slot /\ (c.slot # None => th[t].pc # "relabel")
         \/ th[t].slot = None /\ c.slot = label_lookup[c.label]
              /\ ~(allow_replace_deleted /\ c.slot \in marked)
  PROVE  IInv'
<1>1. /\ th'[t] = c
      /\ \A u \in Threads \ {t} : th'[u] = th[u]
  BY DEF IInv, TypeOK
<1>2. \A u \in Threads \ {t} : c.slot # None => th[u].slot # c.slot
  BY OneOwner, SMT DEF IInv, SlotIsOwned, Found
<1>3. TypeOK'
  BY DEF IInv, TypeOK, TableKept
<1>4. LabelsAgree'
  BY <1>1, <1>2, SMT DEF IInv, LabelsAgree, Settling, Found, TableKept
<1>5. SlotIsOwned'
  BY <1>1, <1>2, SMT DEF IInv, SlotIsOwned, TableKept
<1>6. VacantEach'
  BY <1>1, <1>2, NoneIsNot, SMT DEF IInv, VacantEach, TableKept
<1>7. LocksExclude'
  BY <1>1, <1>2, SMT DEF IInv, LocksExclude, LockId
<1>8. CallsOK'
  <2>1. ASSUME NEW u \in Threads \ {t} PROVE CallOK(u)'
    BY <1>1, CallUndisturbed DEF TableKept
  <2> QED BY <2>1 DEF CallsOK
<1>9. LookupInjective' /\ MarksAllotted' /\ DeletedCount'
  <2>1. DeletedCount'
    BY <1>1, <1>2, CountKept DEF IInv, TableKept
  <2> QED BY <2>1 DEF IInv, LookupInjective, MarksAllotted, Found, TableKept
<1> QED BY <1>3, <1>4, <1>5, <1>6, <1>7, <1>8, <1>9 DEF IInv

\* The record of a call that moves on with a slot.
LEMMA SlotFields ==
  ASSUME IInv, NEW t \in Threads, NEW pc \in Steps, NEW s \in Slots,
         GotoWith(t, pc, s)
  PROVE  \E c \in Calls :
           /\ th' = [th EXCEPT ![t] = c] /\ th'[t] = c
           /\ \A u \in Threads \ {t} : th'[u] = th[u]
           /\ c.pc = pc /\ c.kind = th[t].kind /\ c.label = th[t].label
           /\ c.value = th[t].value /\ c.slot = s /\ c.old = th[t].old
<1> DEFINE c == [th[t] EXCEPT !.pc = pc, !.slot = s]
<1>1. th[t] \in Calls
  BY DEF IInv, TypeOK
<1>2. /\ c \in Calls /\ c.pc = pc /\ c.kind = th[t].kind /\ c.label = th[t].label
      /\ c.value = th[t].value /\ c.slot = s /\ c.old = th[t].old
  BY <1>1 DEF Calls
<1>3. th' = [th EXCEPT ![t] = c]
  BY DEF GotoWith
<1> HIDE DEF c
<1>4. th'[t] = c /\ \A u \in Threads \ {t} : th'[u] = th[u]
  BY <1>3 DEF IInv, TypeOK
<1> QED BY <1>2, <1>3, <1>4

\* addPoint finds the label's slot, allots the next one, or throws.
LEMMA AddLookupStep ==
  ASSUME IInv, NEW t \in Threads, AddLookup(t)
  PROVE  IInv'
<1> DEFINE l == th[t].label
           s == label_lookup[l]
           n == cur_element_count
<1>1. /\ th[t].pc = "lookup" /\ th[t].kind = "add" /\ l \in Labels /\ th[t].slot = None
      /\ UNCHANGED <<allow_replace_deleted, max_elements, label, data, marked,
                     num_deleted, deleted_elements>>
  BY DEF AddLookup, IInv, CallsOK, CallOK, CallShape, NoSlot
<1>2. CASE Return(t) /\ UNCHANGED <<cur_element_count, label_lookup>>
  <2>1. TableKept
    BY <1>1, <1>2 DEF TableKept, IInv, TypeOK
  <2> QED BY <1>1, <1>2, <2>1, ReturnStep, NoneIsNot DEF IInv, TypeOK
<1>3. CASE /\ Found(l) /\ ~(allow_replace_deleted /\ s \in marked)
           /\ GotoWith(t, "recheck", s)
           /\ UNCHANGED <<cur_element_count, label_lookup>>
  <2>1. s \in Slots /\ s < cur_element_count /\ s # None
    BY <1>1, <1>3, FoundSlot DEF Found
  <2>2. PICK c \in Calls :
           /\ th' = [th EXCEPT ![t] = c] /\ th'[t] = c
           /\ c.pc = "recheck" /\ c.kind = th[t].kind /\ c.label = th[t].label /\ c.slot = s
    BY <1>3, <2>1, SlotFields, SMT DEF Steps
  <2>3. TableKept
    BY <1>1, <1>3 DEF TableKept, IInv, TypeOK
  <2>4. CallOK(t)'
    BY <1>1, <1>3, <2>1, <2>2, <2>3, SMT DEF CallOK, CallShape, CallMarks, CallLookup, NoSlot, TableKept, Kinds
  <2> QED BY <1>1, <1>3, <2>2, <2>3, <2>4, AdvanceStep
<1>4. CASE /\ ~Found(l) /\ ~Full
           /\ cur_element_count' = n + 1
           /\ label_lookup' = [label_lookup EXCEPT ![l] = n]
           /\ GotoWith(t, "init", n)
  <2>1. n \in Slots /\ n < max_elements /\ n # None
    BY <1>4, TableAssumption, SMT DEF IInv, TypeOK, Full, Slots
  <2>2. PICK c \in Calls :
           /\ th' = [th EXCEPT ![t] = c] /\ th'[t] = c
           /\ \A u \in Threads \ {t} : th'[u] = th[u]
           /\ c.pc = "init" /\ c.kind = th[t].kind /\ c.label = th[t].label /\ c.slot = n
    BY <1>4, <2>1, SlotFields, SMT DEF Steps
  <2>3. n \notin marked /\ \A u \in Threads : th[u].slot # n
    BY <1>1, <2>1, SMT DEF IInv, MarksAllotted, CallsOK, CallOK, CallShape, TypeOK
  <2>4. /\ label_lookup'[l] = n
        /\ \A k \in Labels \ {l} : label_lookup'[k] = label_lookup[k]
    BY <1>1, <1>4 DEF IInv, TypeOK
  <2>5. TypeOK'
    BY <1>1, <1>4, <2>1, <2>2, SMT DEF IInv, TypeOK
  <2>6. \A k \in Labels : Found(k) => label_lookup[k] \in Slots /\ label_lookup[k] < n
    BY FoundSlot
  <2>7. LabelsAgree'
    <3>1. ASSUME NEW k \in Labels, Found(k)'
          PROVE  /\ label_lookup'[k] < cur_element_count'
                 /\ label'[label_lookup'[k]] = k \/ Settling(label_lookup[k])'
      <4>1. CASE k = l
        BY <1>4, <2>1, <2>2, <2>4, <4>1, SMT DEF Settling, IInv, TypeOK
      <4>2. CASE k # l
        <5>1. Found(k) /\ label_lookup'[k] = label_lookup[k]
          BY <2>4, <3>1, <4>2 DEF Found
        <5>2. Settling(label_lookup[k]) => Settling(label_lookup[k])'
          BY <1>1, <2>2, <5>1 DEF Settling
        <5>3. label_lookup[k] < n + 1
          BY <2>1, <2>6, <5>1, SMT DEF Slots
        <5> QED BY <1>1, <1>4, <5>1, <5>2, <5>3 DEF IInv, LabelsAgree
      <4> QED BY <4>1, <4>2
    <3>2. ASSUME NEW r \in 0 .. cur_element_count' - 1
          PROVE  (Settling(r) \/ (label[r] # None /\ label_lookup[label[r]] = r))'
      <4>1. CASE r = n
        BY <2>2, <4>1 DEF Settling
      <4>2. CASE r # n
        <5>1. r \in 0 .. n - 1 /\ r \in Slots
          <6>1. n \in Nat /\ n < MaxSlots /\ r \in 0 .. (n + 1) - 1
            BY <1>4, <2>1, TableAssumption, SMT DEF IInv, TypeOK, Slots
          <6> QED BY <4>2, <6>1, TableAssumption, SMT DEF Slots
        <5>2. CASE Settling(r)
          BY <1>1, <2>2, <5>2 DEF Settling
        <5>3. CASE label[r] # None /\ label_lookup[label[r]] = r
          <6>1. label[r] \in Labels
            BY <5>1, <5>3 DEF IInv, TypeOK
          <6>2. label[r] # l
            BY <1>4, <5>1, <5>3, NoneIsNot DEF Found
          <6> QED BY <1>1, <2>4, <5>3, <6>1, <6>2
        <5> QED BY <5>1, <5>2, <5>3 DEF IInv, LabelsAgree
      <4> QED BY <4>1, <4>2
    <3> QED BY <3>1, <3>2 DEF LabelsAgree
  <2>8. SlotIsOwned'
    BY <1>1, <1>4, <2>1, <2>2, <2>3, <2>4, SMT
       DEF IInv, SlotIsOwned, CallsOK, CallOK, CallShape, NoSlot, LocksExclude, Found
  <2>9. VacantEach'
    BY <1>1, <2>1, <2>2, <2>3, NoneIsNot, SMT DEF IInv, VacantEach
  <2>10. LocksExclude'
    BY <1>1, <2>2, SMT DEF IInv, LocksExclude, LockId
  <2>11. CallOK(t)'
    BY <1>1, <1>4, <2>1, <2>2, <2>3, SMT DEF CallOK, CallShape, CallMarks, CallLookup, NoSlot, Kinds, IInv, TypeOK
  <2>12. ASSUME NEW u \in Threads \ {t} PROVE CallOK(u)'
    <3>1. th[u] \in Calls /\ th'[u] = th[u] /\ CallOK(u)
      BY <2>2 DEF IInv, TypeOK, CallsOK
    <3>0. CallLookup(u)
      BY <3>1 DEF CallOK
    <3>2. th[u].slot # None => th[u].slot < n + 1
      BY <2>1, <3>1, SMT DEF Calls, CallOK, CallShape, Slots
    <3>3. th[u].pc # "idle" => th[u].label # l
      BY <1>1 DEF IInv, LocksExclude
    <3>4. th[u].pc = "swap" => th[u].old # l
      BY <1>4, <3>1, NoneIsNot DEF CallOK, CallShape, CallLookup, NoSlot, Found
    <3>5. th[u].pc # "idle" => label_lookup'[th[u].label] = label_lookup[th[u].label]
      BY <2>4, <3>1, <3>3 DEF CallOK, CallShape
    <3>6. th[u].pc = "swap" => label_lookup'[th[u].old] = label_lookup[th[u].old]
      BY <2>4, <3>0, <3>4 DEF CallLookup
    <3>7. CallLookup(u)'
      BY <1>1, <3>0, <3>1, <3>5, <3>6 DEF CallLookup, Found
    <3> QED BY <1>1, <1>4, <3>1, <3>2, <3>7, OtherCall
  <2>13. LookupInjective'
    BY <1>4, <2>1, <2>4, <2>6, SMT DEF IInv, TypeOK, LookupInjective, Found
  <2>14. MarksAllotted'
    BY <1>1, <1>4, TableAssumption, SMT DEF IInv, TypeOK, MarksAllotted, Slots
  <2>15. DeletedCount'
    BY <1>1, <2>2, CountKept DEF IInv
  <2> QED BY <2>5, <2>7, <2>8, <2>9, <2>10, <2>11, <2>12, <2>13, <2>14, <2>15 DEF IInv, CallsOK
<1> QED BY <1>2, <1>3, <1>4 DEF AddLookup

\* markDelete and unmarkDelete find the slot or throw.
LEMMA FindSlotStep ==
  ASSUME IInv, NEW t \in Threads, th[t].pc = "lookup", th[t].kind \in {"mark", "unmark"},
         FindSlot(t)
  PROVE  IInv'
<1>1. TableKept /\ th[t].label \in Labels /\ th[t].slot = None
  BY DEF FindSlot, TableKept, IInv, TypeOK, CallsOK, CallOK, CallShape, NoSlot
<1>2. CASE ~Found(th[t].label) /\ Return(t)
  BY <1>1, <1>2, ReturnStep, NoneIsNot DEF IInv, TypeOK
<1>3. CASE Found(th[t].label)
             /\ GotoWith(t, "check", label_lookup[th[t].label])
  <2>1. label_lookup[th[t].label] \in Slots /\ label_lookup[th[t].label] < cur_element_count
    BY <1>1, <1>3, FoundSlot
  <2>2. PICK c \in Calls :
           /\ th' = [th EXCEPT ![t] = c] /\ th'[t] = c
           /\ c.pc = "check" /\ c.kind = th[t].kind /\ c.label = th[t].label
           /\ c.slot = label_lookup[th[t].label]
    BY SMTT(30), <1>3, <2>1, SlotFields DEF Steps
  <2>3. ~(allow_replace_deleted /\ c.slot \in marked)
    BY <1>3, <2>2 DEF IInv, CallsOK, CallOK, CallMarks, CallLookup
  <2>4. CallOK(t)'
    <3>1. th[t].kind = "unmark" => ~allow_replace_deleted
      BY DEF IInv, CallsOK, CallOK, CallMarks
    <3> QED BY SMTT(30), <1>1, <2>1, <2>2, <2>3, <3>1, NoneIsNot
            DEF CallOK, CallShape, CallMarks, CallLookup, NoSlot, TableKept, Kinds
  <2> QED BY <1>1, <2>2, <2>3, <2>4, AdvanceStep
<1> QED BY <1>2, <1>3 DEF FindSlot

\* getDataByLabel finds a live slot or throws.
LEMMA GetLookupStep ==
  ASSUME IInv, NEW t \in Threads, GetLookup(t)
  PROVE  IInv'
<1> DEFINE s == label_lookup[th[t].label]
<1>1. TableKept /\ th[t].label \in Labels /\ th[t].slot = None
        /\ th[t].pc = "lookup" /\ th[t].kind = "get"
  BY DEF GetLookup, TableKept, IInv, TypeOK, CallsOK, CallOK, CallShape, NoSlot
<1>2. CASE Return(t)
  BY <1>1, <1>2, ReturnStep, NoneIsNot DEF IInv, TypeOK
<1>3. CASE s # None /\ s \notin marked /\ GotoWith(t, "read", s)
  <2>1. s \in Slots /\ s < cur_element_count
    BY <1>1, <1>3, FoundSlot DEF Found
  <2>2. PICK c \in Calls :
           /\ th' = [th EXCEPT ![t] = c] /\ th'[t] = c
           /\ c.pc = "read" /\ c.kind = th[t].kind /\ c.label = th[t].label /\ c.slot = s
    BY SMTT(30), <1>3, <2>1, SlotFields DEF Steps
  <2>3. CallOK(t)'
    BY SMTT(30), <1>1, <1>3, <2>1, <2>2 DEF CallOK, CallShape, CallMarks, CallLookup, NoSlot, TableKept, Kinds
  <2> QED BY <1>1, <1>3, <2>2, <2>3, AdvanceStep
<1> QED BY <1>2, <1>3 DEF GetLookup

\* addPoint looks at the mark again.
LEMMA RecheckStep ==
  ASSUME IInv, NEW t \in Threads, Recheck(t)
  PROVE  IInv'
<1> DEFINE pc == IF th[t].slot \in marked THEN "check" ELSE "write"
<1>1. TableKept /\ th[t].pc = "recheck" /\ pc \in Steps /\ Goto(t, pc)
  BY DEF Recheck, TableKept, Steps, IInv, TypeOK
<1> PICK c \in Calls :
           /\ th' = [th EXCEPT ![t] = c] /\ th'[t] = c
           /\ c.pc = pc /\ c.kind = th[t].kind /\ c.label = th[t].label
           /\ c.slot = th[t].slot
  BY <1>1, GotoFields, SMT
<1>2. CallOK(t)'
  <2>1. /\ th[t].label \in Labels /\ th[t].kind = "add"
        /\ th[t].slot # None /\ th[t].slot < cur_element_count
    BY <1>1 DEF IInv, CallsOK, CallOK, CallShape, NoSlot
  <2> QED BY SMTT(30), <1>1, <2>1 DEF CallOK, CallShape, CallMarks, CallLookup, NoSlot, TableKept, Kinds
<1> QED BY <1>1, <1>2, AdvanceStep

\* markDeletedInternal and unmarkDeletedInternal throw or go on.
LEMMA CheckMarkStep ==
  ASSUME IInv, NEW t \in Threads, CheckMark(t)
  PROVE  IInv'
<1>1. TableKept /\ th[t].pc = "check"
  BY DEF CheckMark, TableKept, IInv, TypeOK
<1>2. CASE ((th[t].kind = "mark") <=> (th[t].slot \in marked)) /\ Return(t)
  <2>1. allow_replace_deleted => th[t].slot \notin marked
    BY <1>1, <1>2 DEF IInv, CallsOK, CallOK, CallShape, CallMarks, Kinds
  <2> QED BY <1>1, <1>2, <2>1, ReturnStep
<1>3. CASE ~((th[t].kind = "mark") <=> (th[t].slot \in marked)) /\ Goto(t, "flip")
  <2> PICK c \in Calls :
           /\ th' = [th EXCEPT ![t] = c] /\ th'[t] = c
           /\ c.pc = "flip" /\ c.kind = th[t].kind /\ c.label = th[t].label
           /\ c.slot = th[t].slot
    BY <1>3, GotoFields, SMT DEF Steps
  <2>1. CallOK(t)'
    <3>1. /\ th[t].label \in Labels /\ th[t].kind \in Kinds /\ th[t].kind # "get"
          /\ th[t].slot # None /\ th[t].slot < cur_element_count
      BY <1>1 DEF IInv, CallsOK, CallOK, CallShape, NoSlot
    <3>2. th[t].kind = "unmark" => ~allow_replace_deleted
      BY <1>1 DEF IInv, CallsOK, CallOK, CallMarks
    <3> QED BY SMTT(30), <1>1, <1>3, <3>1, <3>2
            DEF CallOK, CallShape, CallMarks, CallLookup, NoSlot, TableKept
  <2> QED BY <1>1, <2>1, AdvanceStep
<1> QED BY <1>2, <1>3 DEF CheckMark

\* getDataByLabel copies the vector.
LEMMA ReadDataStep ==
  ASSUME IInv, NEW t \in Threads, ReadData(t)
  PROVE  IInv'
BY ReturnStep DEF IInv, TypeOK, CallsOK, CallOK, CallMarks, ReadData, TableKept

\* updatePoint writes the vector.
LEMMA UpdatePointStep ==
  ASSUME IInv, NEW t \in Threads, UpdatePoint(t)
  PROVE  IInv'
<1>1. th[t] \in Calls
  BY DEF IInv, TypeOK
<1>2. th[t].value \in Values \cup {None}
  BY <1>1 DEF Calls
<1>3. TableKept
  BY <1>2 DEF IInv, TypeOK, UpdatePoint, TableKept
<1> QED BY <1>3, ReturnStep DEF IInv, CallsOK, CallOK, CallMarks, UpdatePoint

\* addPoint, markDelete, unmarkDelete and getDataByLabel take the label's lock.
LEMMA CallStep ==
  ASSUME IInv, ~ReplaceExisting, NEW t \in Threads, NEW kind \in Kinds, NEW l \in Labels,
         NEW v \in Values \cup {None}, NEW replace \in BOOLEAN, Call(t, kind, l, v, replace)
  PROVE  IInv'
<1> DEFINE pc == IF replace THEN "take" ELSE "lookup"
           c == [Idle EXCEPT !.pc = pc, !.kind = kind, !.label = l, !.value = v]
<1>1. /\ c \in Calls /\ c.pc = pc /\ c.kind = kind /\ c.label = l /\ c.slot = None
  BY DEF Calls, Idle, Steps, Kinds
<1>2. th' = [th EXCEPT ![t] = c] /\ TableKept
  BY DEF Call, TableKept, IInv, TypeOK
<1> HIDE DEF c
<1>3. /\ th'[t] = c /\ th[t].pc = "idle" /\ th[t].slot = None
      /\ \A u \in Threads \ {t} : th'[u] = th[u]
  BY <1>2 DEF IInv, TypeOK, Call, CallsOK, CallOK, CallShape, NoSlot
<1>4. TypeOK'
  BY <1>1, <1>2 DEF IInv, TypeOK, TableKept
<1>5. LabelsAgree'
  BY <1>1, <1>2, <1>3, SMT DEF IInv, LabelsAgree, Settling, Found, TableKept
<1>6. SlotIsOwned' /\ VacantEach'
  BY <1>1, <1>2, <1>3, SMT DEF IInv, SlotIsOwned, VacantEach, TableKept
<1>7. LocksExclude'
  BY <1>1, <1>3, SMT DEF IInv, LocksExclude, Call, LockFree
<1>8. CallOK(t)'
  <2>1. /\ kind = "unmark" => ~allow_replace_deleted
        /\ replace => kind = "add" /\ allow_replace_deleted /\ ~Found(l)
        /\ kind = "mark" /\ allow_replace_deleted => ~Found(l) \/ label_lookup[l] \notin marked
    BY DEF Call, Disciplined
  <2>2. CASE replace
    BY <1>1, <1>2, <1>3, <2>1, <2>2 DEF CallOK, CallShape, CallMarks, CallLookup, NoSlot, Found, TableKept
  <2>3. CASE ~replace
    BY SMTT(30), <1>1, <1>2, <1>3, <2>1, <2>3 DEF CallOK, CallShape, CallMarks, CallLookup, NoSlot, Found, TableKept
  <2> QED BY <2>2, <2>3
<1>9. CallsOK'
  <2>1. ASSUME NEW u \in Threads \ {t} PROVE CallOK(u)'
    BY <1>2, <1>3, CallUndisturbed DEF TableKept
  <2> QED BY <1>8, <2>1 DEF CallsOK
<1>10. LookupInjective' /\ MarksAllotted' /\ DeletedCount'
  <2>1. DeletedCount'
    BY <1>1, <1>2, <1>3, CountKept DEF IInv, TableKept
  <2> QED BY <1>2, <2>1 DEF IInv, LookupInjective, MarksAllotted, Found, TableKept
<1> QED BY <1>4, <1>5, <1>6, <1>7, <1>9, <1>10 DEF IInv

\* addPoint takes a vacant slot out of deleted_elements, or finds none.
LEMMA TakeVacantStep ==
  ASSUME IInv, NEW t \in Threads, TakeVacant(t)
  PROVE  IInv'
<1>1. CASE deleted_elements = {} /\ Goto(t, "lookup") /\ UNCHANGED deleted_elements
  <2> DEFINE c == [th[t] EXCEPT !.pc = "lookup"]
  <2>1. th[t] \in Calls /\ th[t].pc = "take" /\ th[t].kind = "add" /\ th[t].slot = None
          /\ th[t].label \in Labels
    BY DEF IInv, TypeOK, TakeVacant, CallsOK, CallOK, CallShape, NoSlot
  <2>2. c \in Calls /\ c.pc = "lookup" /\ c.kind = "add" /\ c.slot = None
          /\ c.label = th[t].label
    BY <2>1 DEF Calls, Steps
  <2>3. th' = [th EXCEPT ![t] = c] /\ TableKept
    BY <1>1 DEF Goto, TakeVacant, TableKept, IInv, TypeOK
  <2> HIDE DEF c
  <2>4. th'[t] = c
    BY <2>3 DEF IInv, TypeOK
  <2>5. CallOK(t)'
    BY <2>1, <2>2, <2>4 DEF CallOK, CallShape, CallMarks, CallLookup, NoSlot, Kinds
  <2> QED BY <2>1, <2>2, <2>3, <2>5, AdvanceStep
<1>2. ASSUME NEW s \in deleted_elements, deleted_elements' = deleted_elements \ {s},
             GotoWith(t, "relabel", s)
      PROVE  IInv'
  <2> DEFINE c == [th[t] EXCEPT !.pc = "relabel", !.slot = s]
  <2>1. th[t] \in Calls /\ th[t].pc = "take" /\ th[t].kind = "add" /\ th[t].slot = None
          /\ s \in Slots /\ th[t].label \in Labels
    BY DEF IInv, TypeOK, TakeVacant, CallsOK, CallOK, CallShape, NoSlot
  <2>2. c \in Calls /\ c.pc = "relabel" /\ c.kind = "add" /\ c.slot = s /\ c.slot # None
          /\ c.label = th[t].label
    BY <2>1, NoneIsNot DEF Calls, Steps
  <2>3. th' = [th EXCEPT ![t] = c]
    BY <1>2 DEF GotoWith
  <2> HIDE DEF c
  <2>4. /\ th'[t] = c
        /\ \A u \in Threads \ {t} : th'[u] = th[u]
    BY <2>3 DEF IInv, TypeOK
  <2>5. UNCHANGED <<allow_replace_deleted, max_elements, cur_element_count, label_lookup,
                   label, data, marked, num_deleted>>
    BY DEF TakeVacant
  <2>6. s \in marked /\ allow_replace_deleted /\ \A u \in Threads : th[u].slot # s
    BY <2>1 DEF IInv, VacantEach
  <2>7. TypeOK'
    BY <1>2, <2>2, <2>3, <2>5 DEF IInv, TypeOK
  <2>8. LabelsAgree' /\ LookupInjective' /\ MarksAllotted' /\ DeletedCount'
    <3>1. LabelsAgree' /\ LookupInjective' /\ MarksAllotted'
      BY SMTT(30), <2>1, <2>2, <2>4, <2>5
         DEF IInv, LabelsAgree, Settling, Found, LookupInjective, MarksAllotted
    <3>2. DeletedCount'
      BY <2>1, <2>2, <2>4, <2>5, CountKept DEF IInv
    <3> QED BY <3>1, <3>2
  <2>9. SlotIsOwned'
    BY SMTT(30), <2>2, <2>4, <2>5, <2>6 DEF IInv, SlotIsOwned
  <2>10. VacantEach'
    <3>1. s \notin deleted_elements' /\ th'[t].slot = s
      BY <1>2, <2>2, <2>4
    <3>2. ASSUME NEW r \in Slots, r # s
          PROVE  /\ r \in deleted_elements' <=> r \in deleted_elements
                 /\ (\A u \in Threads : th'[u].slot # r) <=> (\A u \in Threads : th[u].slot # r)
      BY <1>2, <2>1, <2>2, <2>4, <3>2, NoneIsNot
    <3> QED BY <2>5, <3>1, <3>2 DEF IInv, VacantEach
  <2>11. LocksExclude'
    BY <2>1, <2>2, <2>4, SMT DEF IInv, LocksExclude, LockId
  <2>12. CallsOK'
    <3>1. allow_replace_deleted /\ ~Found(th[t].label)
      BY <2>1 DEF IInv, CallsOK, CallOK, CallLookup
    <3>2. s < cur_element_count
      BY <2>6 DEF IInv, MarksAllotted
    <3>3. CallOK(t)'
      BY <2>1, <2>2, <2>4, <2>5, <2>6, <3>1, <3>2
         DEF CallOK, CallShape, CallMarks, CallLookup, NoSlot, Found, Kinds
    <3>4. ASSUME NEW u \in Threads \ {t} PROVE CallOK(u)'
      BY <2>4, <2>5, CallUndisturbed
    <3> QED BY <3>3, <3>4 DEF CallsOK
  <2> QED BY <2>7, <2>8, <2>9, <2>10, <2>11, <2>12 DEF IInv
<1> QED BY <1>1, <1>2 DEF TakeVacant

\* Setting or clearing the mark of the slot a call works on, and counting it.
LEMMA FlipStep ==
  ASSUME IInv, NEW t \in Threads, th[t].pc \in {"flip", "count"},
         marked' \subseteq Slots, marked' \ {th[t].slot} = marked \ {th[t].slot},
         num_deleted' \in Nat, DeletedCount',
         UNCHANGED <<allow_replace_deleted, max_elements, cur_element_count, label_lookup,
                     label, data, deleted_elements>>,
         th' \in [Threads -> Calls], \A u \in Threads \ {t} : th'[u] = th[u],
         CallOK(t)', th'[t].pc \notin {"init", "swap", "relabel"},
         th'[t].pc # "idle" => th'[t].label = th[t].label,
         \/ th'[t].slot = th[t].slot
         \/ th'[t].slot = None /\ ~(allow_replace_deleted /\ th[t].slot \in marked')
  PROVE  IInv'
<1> DEFINE s == th[t].slot
<1>1. th[t] \in Calls
  BY DEF IInv, TypeOK
<1>2. s \in Slots /\ s < cur_element_count /\ th[t].label \in Labels
  BY <1>1 DEF Calls, IInv, CallsOK, CallOK, CallShape, NoSlot
<1>3. label_lookup[th[t].label] = s /\ \A u \in Threads \ {t} : th[u].slot # s
  BY <1>2, NoneIsNot DEF IInv, SlotIsOwned
<1>4. TypeOK'
  BY DEF IInv, TypeOK
<1>5. LabelsAgree'
  BY SMT DEF IInv, LabelsAgree, Settling, Found
<1>6. SlotIsOwned'
  BY <1>3, NoneIsNot, SMT DEF IInv, SlotIsOwned, CallsOK, CallOK, CallShape, NoSlot
<1>7. VacantEach'
  <2>1. s \notin deleted_elements
    BY <1>2 DEF IInv, VacantEach
  <2>2. ASSUME NEW r \in Slots, r # s
        PROVE  /\ r \in marked' <=> r \in marked
               /\ (\A u \in Threads : th'[u].slot # r) <=> (\A u \in Threads : th[u].slot # r)
    BY <2>2, NoneIsNot
  <2>3. ~(allow_replace_deleted /\ s \in marked' /\ \A u \in Threads : th'[u].slot # s)
    OBVIOUS
  <2> QED BY <2>1, <2>2, <2>3 DEF IInv, VacantEach
<1>8. LocksExclude'
  BY SMT DEF IInv, LocksExclude, LockId
<1>9. ASSUME NEW u \in Threads \ {t} PROVE CallOK(u)'
  <2>1. CallOK(u) /\ th'[u] = th[u]
    BY DEF IInv, CallsOK
  <2>2. th[u].slot \in marked' <=> th[u].slot \in marked
    BY <1>3
  <2>3. th[u].pc = "lookup" /\ Found(th[u].label) =>
          (label_lookup[th[u].label] \in marked' <=> label_lookup[th[u].label] \in marked)
    <3>1. SUFFICES ASSUME th[u].pc = "lookup", Found(th[u].label)
                   PROVE  label_lookup[th[u].label] # s
      OBVIOUS
    <3>2. th[u].label \in Labels /\ th[u].label # th[t].label
      BY <2>1, <3>1 DEF CallOK, CallShape, IInv, LocksExclude
    <3> QED BY <1>2, <1>3, <3>1, <3>2 DEF IInv, LookupInjective, Found
  <2>4. CallLookup(u)'
    <3>1. CallLookup(u)
      BY <2>1 DEF CallOK
    <3> QED BY <2>1, <2>3, <3>1 DEF CallLookup, Found
  <2>5. th[u].slot # None => th[u].slot < cur_element_count'
    BY <2>1 DEF CallOK, CallShape
  <2> QED BY <2>1, <2>2, <2>4, <2>5, OtherCall
<1>10. LookupInjective'
  BY DEF IInv, LookupInjective, Found
<1>11. MarksAllotted' /\ DeletedCount'
  BY <1>2 DEF IInv, MarksAllotted
<1> QED BY <1>4, <1>5, <1>6, <1>7, <1>8, <1>9, <1>10, <1>11 DEF IInv, CallsOK

\* markDeletedInternal enters the slot as vacant.
LEMMA InsertVacantStep ==
  ASSUME IInv, NEW t \in Threads, InsertVacant(t)
  PROVE  IInv'
<1> DEFINE s == th[t].slot
<1>1. /\ th[t].pc = "set" /\ th[t].kind = "mark" /\ Return(t)
      /\ deleted_elements' = deleted_elements \cup {s}
      /\ UNCHANGED <<allow_replace_deleted, max_elements, cur_element_count, label_lookup,
                     label, data, marked, num_deleted>>
  BY DEF InsertVacant
<1>2. th[t] \in Calls
  BY DEF IInv, TypeOK
<1>3. s \in Slots /\ s \in marked /\ allow_replace_deleted
  BY <1>1, <1>2 DEF Calls, IInv, CallsOK, CallOK, CallShape, CallMarks, NoSlot
<1>4. \A u \in Threads \ {t} : th[u].slot # s
  BY <1>3, NoneIsNot DEF IInv, SlotIsOwned
<1>5. /\ th' \in [Threads -> Calls]
      /\ th'[t].pc = "idle" /\ th'[t].slot = None /\ th'[t].kind = "none"
      /\ \A u \in Threads \ {t} : th'[u] = th[u]
  BY <1>1, ReturnFields
<1>6. TypeOK'
  BY <1>1, <1>3, <1>5 DEF IInv, TypeOK
<1>7. LabelsAgree' /\ LookupInjective' /\ MarksAllotted' /\ DeletedCount'
  <2>1. LabelsAgree'
    BY <1>1, <1>5, SMT DEF IInv, LabelsAgree, Settling, Found
  <2>2. LookupInjective' /\ MarksAllotted'
    BY <1>1 DEF IInv, Found, LookupInjective, MarksAllotted
  <2>3. DeletedCount'
    BY <1>1, <1>5, CountKept DEF IInv
  <2> QED BY <2>1, <2>2, <2>3
<1>8. SlotIsOwned' /\ LocksExclude'
  <2>1. SlotIsOwned'
    BY SMTT(30), <1>1, <1>5 DEF IInv, SlotIsOwned
  <2>2. LocksExclude'
    BY <1>1, <1>5 DEF IInv, LocksExclude
  <2> QED BY <2>1, <2>2
<1>9. VacantEach'
  <2>1. \A u \in Threads : th'[u].slot # s
    BY <1>3, <1>4, <1>5, NoneIsNot
  <2>2. ASSUME NEW r \in Slots, r # s
        PROVE  (\A u \in Threads : th'[u].slot # r) <=> (\A u \in Threads : th[u].slot # r)
    BY <1>5, <2>2, NoneIsNot
  <2> QED BY <1>1, <1>3, <2>1, <2>2 DEF IInv, VacantEach
<1>10. CallsOK'
  <2>1. CallOK(t)'
    BY <1>5, IdleCall
  <2>2. ASSUME NEW u \in Threads \ {t} PROVE CallOK(u)'
    BY <1>1, <1>5, CallUndisturbed
  <2> QED BY <2>1, <2>2 DEF CallsOK
<1> QED BY <1>6, <1>7, <1>8, <1>9, <1>10 DEF IInv

\* unmarkDeletedInternal removes the slot from deleted_elements.
LEMMA EraseVacantStep ==
  ASSUME IInv, NEW t \in Threads, EraseVacant(t)
  PROVE  IInv'
<1> DEFINE s == th[t].slot
<1>1. th[t] \in Calls /\ th[t].pc = "set" /\ th[t].kind # "mark"
  BY DEF IInv, TypeOK, EraseVacant
<1>2. s \in Slots /\ s \notin marked
  BY <1>1 DEF Calls, IInv, CallsOK, CallOK, CallShape, CallMarks, NoSlot
<1>3. s \notin deleted_elements
  BY <1>2 DEF IInv, VacantEach
<1>4. TableKept
  BY <1>3 DEF IInv, TypeOK, EraseVacant, TableKept
<1>5. CASE th[t].kind = "add" /\ Goto(t, "write")
  <2>1. PICK c \in Calls :
          /\ th' = [th EXCEPT ![t] = c] /\ th'[t] = c
          /\ c.pc = "write" /\ c.kind = th[t].kind /\ c.label = th[t].label /\ c.slot = s
    BY <1>5, GotoFields, SMT DEF Steps
  <2>2. CallOK(t)'
    <3>1. th[t].label \in Labels /\ s # None /\ s < cur_element_count
      BY <1>1 DEF IInv, CallsOK, CallOK, CallShape, NoSlot
    <3>2. /\ th'[t].pc = "write" /\ th'[t].kind = "add"
          /\ th'[t].label = th[t].label /\ th'[t].slot = s
      BY <1>5, <2>1
    <3> QED BY <1>2, <1>4, <3>1, <3>2
            DEF CallOK, CallShape, CallMarks, CallLookup, NoSlot, TableKept, Kinds
  <2> QED BY <1>1, <1>4, <2>1, <2>2, AdvanceStep
<1>6. CASE Return(t)
  BY <1>1, <1>2, <1>4, <1>6, ReturnStep
<1> QED BY <1>5, <1>6 DEF EraseVacant, AfterUnmark

\* resizeIndex changes the capacity only.
LEMMA ResizeIndexStep ==
  ASSUME IInv, NEW n \in 0 .. MaxSlots, ResizeIndex(n)
  PROVE  IInv'
<1>1. TypeOK'
  BY TableAssumption, SMT DEF IInv, TypeOK, ResizeIndex
<1>2. LabelsAgree' /\ SlotIsOwned' /\ VacantEach' /\ DeletedCount'
  BY DEF IInv, ResizeIndex, LabelsAgree, Settling, Found, SlotIsOwned, VacantEach, DeletedCount,
         Counted, Counting
<1>3. LocksExclude' /\ LookupInjective' /\ MarksAllotted'
  BY DEF IInv, ResizeIndex, LocksExclude, LockId, LookupInjective, Found, MarksAllotted
<1>4. CallsOK'
  BY CallUndisturbed DEF ResizeIndex, CallsOK
<1> QED BY <1>1, <1>2, <1>3, <1>4 DEF IInv

\* What loadIndex makes of the saved slots is what there was.
LEMMA ReloadLookup ==
  ASSUME IInv, NEW n \in 0 .. MaxSlots, NEW allow \in BOOLEAN, Reload(n, allow)
  PROVE  label_lookup' = label_lookup /\ marked \cap Saved = marked
<1>1. \A t \in Threads : th[t].pc = "idle" /\ th[t].slot = None
  BY DEF IInv, CallsOK, CallOK, CallShape, NoSlot, Reload
<1>2. \A s \in Slots : ~Settling(s)
  BY <1>1 DEF Settling
<1>3. Saved \subseteq Slots /\ marked \cap Saved = marked
  <2>1. cur_element_count \in Nat /\ cur_element_count <= MaxSlots
    BY TableAssumption, SMT DEF IInv, TypeOK
  <2>2. Saved \subseteq Slots
    BY <2>1, TableAssumption, SMT DEF Saved, Slots
  <2>3. \A s \in marked : s \in Saved
    BY <2>1, TableAssumption, SMT DEF IInv, TypeOK, MarksAllotted, Saved, Slots
  <2> QED BY <2>2, <2>3
<1>4. ASSUME NEW l \in Labels PROVE LookupSaved(l) = label_lookup[l]
  <2> DEFINE at == {s \in Saved : label[s] = l}
  <2>1. \A s \in at : label_lookup[l] = s
    BY <1>2, <1>3 DEF IInv, LabelsAgree, Saved
  <2>2. CASE Found(l)
    <3>1. label_lookup[l] \in Slots /\ label_lookup[l] \in Saved
      BY <2>2, FoundSlot, TableAssumption, SMT DEF Saved, Slots, IInv, TypeOK
    <3>2. label_lookup[l] \in at
      BY <1>2, <2>2, <3>1 DEF IInv, LabelsAgree
    <3>3. at = {label_lookup[l]} /\ label_lookup[l] <= label_lookup[l]
      BY <2>1, <3>1, <3>2, TableAssumption, SMT DEF Slots
    <3> HIDE DEF at
    <3>4. (CHOOSE s \in at : \A r \in at : r <= s) = label_lookup[l] /\ at # {}
      BY <3>3
    <3> QED BY <3>4 DEF LookupSaved, at
  <2>3. CASE ~Found(l)
    <3>1. at = {}
      BY <1>3, <2>1, <2>3, NoneIsNot DEF Found
    <3> QED BY <2>3, <3>1 DEF LookupSaved, Found
  <2> QED BY <2>2, <2>3
<1> QED
  BY <1>3, <1>4 DEF Reload, IInv, TypeOK

\* The index after a save and a load.
LEMMA ReloadStep ==
  ASSUME IInv, NEW n \in 0 .. MaxSlots, NEW allow \in BOOLEAN, Reload(n, allow)
  PROVE  IInv'
<1>1. \A t \in Threads : th[t].pc = "idle" /\ th[t].slot = None
  BY DEF IInv, CallsOK, CallOK, CallShape, NoSlot, Reload
<1>5. label_lookup' = label_lookup /\ marked \cap Saved = marked
  BY ReloadLookup
<1>2. Counted = marked
  BY <1>1 DEF IInv, TypeOK, Counted, Counting
<1>6. /\ num_deleted' = num_deleted /\ deleted_elements' = IF allow THEN marked ELSE {}
      /\ allow_replace_deleted' = allow
      /\ UNCHANGED <<cur_element_count, label, data, marked, th>>
  BY <1>2, <1>5 DEF Reload, IInv, DeletedCount
<1>7. max_elements' \in 0 .. MaxSlots /\ cur_element_count \in 0 .. max_elements'
  BY TableAssumption, SMT DEF Reload, IInv, TypeOK
<1>8. TypeOK'
  BY <1>5, <1>6, <1>7 DEF IInv, TypeOK
<1>9. LabelsAgree' /\ SlotIsOwned' /\ DeletedCount'
  BY <1>5, <1>6 DEF IInv, LabelsAgree, Settling, Found, SlotIsOwned, DeletedCount, Counted,
                    Counting
<1>10. VacantEach'
  BY <1>1, <1>6, NoneIsNot DEF VacantEach
<1>11. LocksExclude' /\ LookupInjective' /\ MarksAllotted'
  BY <1>5, <1>6 DEF IInv, LocksExclude, LockId, LookupInjective, Found, MarksAllotted
<1>12. CallsOK'
  BY <1>1, <1>6, IdleCall DEF CallsOK
<1> QED BY <1>8, <1>9, <1>10, <1>11, <1>12 DEF IInv

=============================================================================

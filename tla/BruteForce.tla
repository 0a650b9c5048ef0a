----------------------------- MODULE BruteForce -----------------------------
(***************************************************************************)
(* The brute-force index (bruteforce.h): an array of elements kept dense,  *)
(* and a dictionary from labels to slots.  addPoint holds index_lock for   *)
(* the dictionary only and copies label and point after releasing it;      *)
(* removePoint holds it throughout and moves the last element into the     *)
(* hole.  A point is represented by its distance to the query.             *)
(***************************************************************************)
EXTENDS Integers, FiniteSets, SequencesExt

CONSTANTS
    Threads,
    Labels,         \* a finite set of numbers
    MaxDist,        \* numeric_limits<dist_t>::max(); points are 1 .. MaxDist
    maxelements,
    None

ASSUME BruteForceAssumption ==
    /\ Labels \subseteq Nat /\ None \notin Nat
    /\ MaxDist \in Nat \ {0} /\ maxelements \in Nat \ {0}

VARIABLES
    data,                \* data_: the label and the point in each slot
    cur_element_count,
    dict,                \* dict_external_to_internal
    th,                  \* what each thread's addPoint still has to copy
    stored,              \* history: what the completed calls have stored
    misled               \* history: has a call used a label dict was wrong about?

vars == <<data, cur_element_count, dict, th, stored, misled>>

Slots == 0 .. maxelements - 1
Points == 1 .. MaxDist
Idle == [pc |-> "idle", label |-> None, point |-> None, idx |-> None]
Quiet == \A t \in Threads : th[t].pc = "idle"
Adding(l) == \E t \in Threads : th[t].label = l

\* The dictionary is wrong about a label that nobody is adding: removePoint has
\* left an entry of a removed element, or loadIndex has made none.
Misleading(l) == (dict[l] = None) # (stored[l] = None)

Init ==
    /\ data = [s \in Slots |-> [label |-> None, point |-> None]]
    /\ cur_element_count = 0
    /\ dict = [l \in Labels |-> None]
    /\ th = [t \in Threads |-> Idle]
    /\ stored = [l \in Labels |-> None]
    /\ misled = FALSE

-----------------------------------------------------------------------------
(* addPoint.                                                               *)

\* Mutant form: the array is full one element too late.
LookupFullLate(t, l, p) ==
    /\ dict[l] = None /\ cur_element_count <= maxelements
    /\ th' = [th EXCEPT ![t] =
                [pc |-> "label", label |-> l, point |-> p, idx |-> cur_element_count]]
    /\ dict' = [dict EXCEPT ![l] = cur_element_count]
    /\ cur_element_count' = cur_element_count + 1
    /\ UNCHANGED <<data, stored>>

\* Under index_lock: the slot of a label that has one, or the next slot; full,
\* it throws and nothing has changed.
Lookup(t, l, p) ==
    LET go(idx) == th' = [th EXCEPT ![t] =
                            [pc |-> "label", label |-> l, point |-> p, idx |-> idx]]
    IN  IF dict[l] # None
        THEN go(dict[l]) /\ UNCHANGED <<data, cur_element_count, dict, stored>>
        ELSE IF cur_element_count >= maxelements
        THEN UNCHANGED <<data, cur_element_count, dict, th, stored>>
        ELSE /\ go(cur_element_count)
             /\ dict' = [dict EXCEPT ![l] = cur_element_count]
             /\ cur_element_count' = cur_element_count + 1
             /\ UNCHANGED <<data, stored>>

AddPoint(t, l, p) ==
    /\ th[t].pc = "idle"
    /\ Lookup(t, l, p)
    /\ misled' = (misled \/ Misleading(l))

\* After the lock is released: the label is copied, then the point.
CopyLabel(t) ==
    /\ th[t].pc = "label"
    /\ data' = [data EXCEPT ![th[t].idx].label = th[t].label]
    /\ th' = [th EXCEPT ![t].pc = "point"]
    /\ UNCHANGED <<cur_element_count, dict, stored, misled>>

CopyPoint(t) ==
    /\ th[t].pc = "point"
    /\ data' = [data EXCEPT ![th[t].idx].point = th[t].point]
    /\ stored' = [stored EXCEPT ![th[t].label] = th[t].point]
    /\ th' = [th EXCEPT ![t] = Idle]
    /\ UNCHANGED <<cur_element_count, dict, misled>>

-----------------------------------------------------------------------------
(* removePoint, saving and loading.                                        *)

\* Mutant form: the dictionary is not told that the last element has moved.
CompactNoRelabel(l) ==
    /\ dict' = [dict EXCEPT ![l] = None]
    /\ data' = [data EXCEPT ![dict[l]] = data[cur_element_count - 1]]

\* Mutant form: the last element is not moved.
CompactNoMove(l) ==
    /\ dict' = [dict EXCEPT ![l] = None, ![data[cur_element_count - 1].label] = dict[l]]
    /\ data' = data

\* The entry is erased, then the last element takes its slot, in the dictionary
\* and in the array.  The slot is read from the entry after it is erased; that
\* field of the freed node is intact.
Compact(l) ==
    LET cur_c == dict[l]
        last == data[cur_element_count - 1]
    IN  /\ dict' = [[dict EXCEPT ![l] = None] EXCEPT ![last.label] = cur_c]
        /\ data' = [data EXCEPT ![cur_c] = last]

\* A label that is not in the dictionary is ignored.  An entry that outlives the
\* last element makes the code read before the array; that is not followed.
RemovePoint(l) ==
    /\ dict[l] # None => cur_element_count > 0
    /\ stored' = [stored EXCEPT ![l] = None]
    /\ misled' = (misled \/ Misleading(l))
    /\ IF dict[l] = None
       THEN UNCHANGED <<data, cur_element_count, dict>>
       ELSE Compact(l) /\ cur_element_count' = cur_element_count - 1
    /\ UNCHANGED th

\* saveIndex writes the array and its count, loadIndex reads them into a new
\* object.  The dictionary is neither written nor rebuilt.
Reload ==
    /\ dict' = [l \in Labels |-> None]
    /\ UNCHANGED <<data, cur_element_count, th, stored, misled>>

\* Callers do not add one label twice at a time, and keep removals, searches and
\* saves apart from additions.
Next ==
    \/ \E t \in Threads :
          \/ \E l \in Labels, p \in Points : ~Adding(l) /\ AddPoint(t, l, p)
          \/ CopyLabel(t)
          \/ CopyPoint(t)
    \/ Quiet /\ \E l \in Labels : RemovePoint(l)
    \/ Quiet /\ Reload

Spec == Init /\ [][Next]_vars

-----------------------------------------------------------------------------
(* searchKnn.                                                              *)

Element(s) == <<data[s].point, data[s].label>>

\* The furthest element of a result: the top of the priority queue, which
\* orders pairs by distance and then by label.
Furthest(top) ==
    CHOOSE e \in top : \A f \in top : f[1] < e[1] \/ (f[1] = e[1] /\ f[2] <= e[2])

LastDist(top, otherwise) == IF top = {} THEN otherwise ELSE Furthest(top)[1]

\* Mutant form: a result of k elements is not trimmed.
OfferNoPop(r, s, k, allowed) ==
    IF data[s].point > r.lastdist THEN r
    ELSE LET top == r.top \cup {e \in {Element(s)} : e[2] \in allowed}
         IN  [top |-> top, lastdist |-> LastDist(top, r.lastdist)]

\* Mutant form: the bound is lowered before the filter is asked.
OfferUnfiltered(r, s, k, allowed) ==
    IF data[s].point > r.lastdist THEN r
    ELSE LET grown == r.top \cup {e \in {Element(s)} : e[2] \in allowed}
             top == IF Cardinality(grown) > k THEN grown \ {Furthest(grown)} ELSE grown
         IN  [top |-> top, lastdist |-> data[s].point]

\* The second loop's body: an element no further than the bound is offered to
\* the filter, the result is trimmed to k and the bound follows it.
Offer(r, s, k, allowed) ==
    IF data[s].point > r.lastdist THEN r
    ELSE LET grown == r.top \cup {e \in {Element(s)} : e[2] \in allowed}
             top == IF Cardinality(grown) > k THEN grown \ {Furthest(grown)} ELSE grown
         IN  [top |-> top, lastdist |-> LastDist(top, r.lastdist)]

\* The first k slots that pass the filter, then the others one by one.
searchKnn(k, allowed) ==
    LET first == {e \in {Element(s) : s \in 0 .. k - 1} : e[2] \in allowed}
        others == [j \in 1 .. cur_element_count - k |-> k + j - 1]
    IN  FoldLeft(LAMBDA r, s : Offer(r, s, k, allowed),
                 [top |-> first, lastdist |-> LastDist(first, MaxDist)], others).top

-----------------------------------------------------------------------------
(* Properties.                                                             *)

\* Every variable has its type.
TypeOK ==
    /\ data \in [Slots -> [label : Labels \cup {None}, point : Points \cup {None}]]
    /\ cur_element_count \in 0 .. maxelements
    /\ dict \in [Labels -> Slots \cup {None}]
    /\ th \in [Threads -> [pc : {"idle", "label", "point"}, label : Labels \cup {None},
                           point : Points \cup {None}, idx : Slots \cup {None}]]
    /\ stored \in [Labels -> Points \cup {None}]
    /\ misled \in BOOLEAN

\* When no addition is in progress, the counted slots hold exactly what was
\* added and not removed since, each label once (addPoint, removePoint and a
\* save followed by a load together); until a call uses a label that the
\* dictionary is wrong about.
ContentsExact ==
    Quiet /\ ~misled =>
        /\ {Element(s) : s \in 0 .. cur_element_count - 1}
             = {<<stored[l], l>> : l \in {l \in Labels : stored[l] # None}}
        /\ cur_element_count = Cardinality({l \in Labels : stored[l] # None})

\* The dictionary leads every element it knows, and every element in addition, to
\* a counted slot of its own, which bears its label unless an addition has yet
\* to write it: neither a concurrent addition nor the move in removePoint lets
\* one overwrite another, also after elements were removed from the last slot,
\* as long as no call uses the entry that this leaves behind.
DictExact ==
    LET known == {l \in Labels : dict[l] # None /\ (stored[l] # None \/ Adding(l))}
    IN  ~misled => \A l \in known :
            /\ dict[l] < cur_element_count
            /\ \A m \in known : dict[m] = dict[l] => m = l
            /\ \/ data[dict[l]].label = l
               \/ \E t \in Threads : th[t].pc = "label" /\ th[t].label = l /\ th[t].idx = dict[l]

\* Without a filter searchKnn returns k elements, none further than one it
\* leaves out.
SearchExact ==
    Quiet /\ ~misled => \A k \in 1 .. cur_element_count :
        LET top == searchKnn(k, Labels)
            all == {Element(s) : s \in 0 .. cur_element_count - 1}
        IN  /\ top \subseteq all /\ Cardinality(top) = k
            /\ \A e \in top, f \in all \ top : e[1] <= f[1]

\* With a filter searchKnn returns allowed elements, among them one of the
\* nearest when there is any (it may return fewer than k although more are
\* allowed: the bound is set by the allowed ones among the first k slots).
FilteredNearest ==
    Quiet /\ ~misled => \A k \in 1 .. cur_element_count, allowed \in SUBSET Labels :
        LET top == searchKnn(k, allowed)
            all == {e \in {Element(s) : s \in 0 .. cur_element_count - 1} : e[2] \in allowed}
        IN  /\ top \subseteq all /\ Cardinality(top) <= k
            /\ all # {} => \E e \in top : \A f \in all : e[1] <= f[1]

=============================================================================

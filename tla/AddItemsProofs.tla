--------------------------- MODULE AddItemsProofs ---------------------------
(***************************************************************************)
(* What add_items does with its rows, for any number of callers, workers   *)
(* and rows: the loop of ParallelFor runs fn once for each row whichever   *)
(* way the workers interleave, an exception included (LoopsOK); and a call *)
(* whose labels no other one may share leaves its rows in the index.       *)
(***************************************************************************)
EXTENDS AddItems, FiniteSetTheorems, TLAPS

-----------------------------------------------------------------------------
(* The invariant *)

CallType ==
    [pc : {"idle", "loop", "advance", "store"}, n : Nat, rows : Nat, ids : IdBases \cup {None},
     threads : Nat, current : Nat, lastException : BOOLEAN, read : Nat]
WorkerType == [pc : {"done", "fetch", "fn", "catch"}, id : Nat \cup {None}]
Crew == [Workers -> WorkerType]
Tally == [0 .. MaxRows - 1 -> Nat]

Types ==
    /\ index = [l \in Labels |-> index[l]]
    /\ cur_l \in Nat /\ ep_added \in BOOLEAN /\ calls \in Nat
    /\ call \in [Callers -> CallType] /\ wk \in [Callers -> Crew]
    /\ runs \in [Callers -> Tally]

\* The loop over m rows of which x have been fetched: k are the workers, u says how
\* often fn ran for each row, and e whether it threw.  Rows that were fetched have been
\* run, or a worker has them; no other has been.
RowsOK(m, x, e, k, u) ==
    /\ k[1].pc = "done" => x >= m
    /\ \A w \in Workers : k[w].pc \in {"fn", "catch"} => k[w].id \in 0 .. m - 1
    /\ \A w \in Workers : k[w].pc = "fn" => k[w].id < x /\ u[k[w].id] = 0
    /\ \A w, v \in Workers : k[w].pc = "fn" /\ k[v].pc = "fn" /\ k[w].id = k[v].id => w = v
    /\ \A r \in 0 .. m - 1 : u[r] <= 1 /\ (r >= x => u[r] = 0)
    /\ ~e => \A r \in 0 .. m - 1 :
          r < x => u[r] = 1 \/ \E w \in Workers : k[w].pc = "fn" /\ k[w].id = r

LoopOK(a, k, u) ==
    /\ a.pc # "loop" => \A w \in Workers : k[w].pc = "done"
    /\ a.pc # "idle" =>
         /\ a.rows \in RowCounts /\ (a.pc # "loop" => ~a.lastException)
         /\ RowsOK(a.rows, a.current, a.lastException, k, u)

LoopsOK == \A c \in Callers : LoopOK(call[c], wk[c], runs[c])

\* Each call that has ended took at most MaxRows labels.
Active == {c \in Callers : call[c].pc # "idle"}
Ended == calls - Cardinality(Active)

LabelsInRange ==
    /\ calls <= MaxCalls /\ Ended \in Nat /\ cur_l <= MaxRows * Ended
    /\ \A c \in Callers : call[c].pc = "store" => call[c].read <= MaxRows * Ended

\* Two calls with ids, and different ones.
Apart(a, b) ==
    /\ a.ids # None /\ b.ids # None
    /\ IdRange(a.ids, a.rows) \cap IdRange(b.ids, b.rows) = {}

\* An undisturbed call and any other in progress are apart.
Separate ==
    \A c, d \in Callers :
        c # d /\ c \notin disturbed /\ call[c].pc # "idle" /\ call[d].pc # "idle" =>
            Apart(call[c], call[d])

\* cur_l is past every label in owned, also after a store that is under way.
OwnedBehind ==
    /\ owned \subseteq Nat /\ \A l \in owned : l < cur_l
    /\ \A c \in Callers : call[c].pc = "store" => \A l \in owned : l < call[c].read

\* The rows that fn has run for, and did not throw, are in the index f; x is cur_l.
Place(a, x, r) == (IF a.ids # None THEN a.ids ELSE x) + r

Written(a, k, u, x, f) ==
    a.pc \in {"loop", "advance"} /\ ~a.lastException =>
        \A r \in 0 .. a.rows - 1 : u[r] = 1 =>
            \/ f[Place(a, x, r)] = <<a.n, r>>
            \/ \E w \in Workers : k[w].pc = "catch" /\ k[w].id = r

AllWritten ==
    \A c \in Callers : c \notin disturbed => Written(call[c], wk[c], runs[c], cur_l, index)

RInv == Types /\ LoopsOK /\ LabelsInRange
SInv == Separate /\ OwnedBehind /\ AllWritten

\* Call c goes on with record a, workers k and tally u.
StepTo(c, a, k, u) ==
    /\ call' = [call EXCEPT ![c] = a]
    /\ wk' = [wk EXCEPT ![c] = k]
    /\ runs' = [runs EXCEPT ![c] = u]

\* The same calls are disturbed as before, except that c may have returned.
SameDisturbed(c, a) ==
    \A d \in Callers : d # c \/ a.pc # "idle" => (d \in disturbed' <=> d \in disturbed)

-----------------------------------------------------------------------------
(* The loop of one call *)

\* No call has more than MaxRows rows.
LEMMA RowFacts ==
  /\ MaxRows \in RowCounts /\ MaxRows \in Nat /\ MaxRows >= 1
  /\ \A m \in RowCounts : m \in Nat /\ 1 <= m /\ m <= MaxRows
<1>1. MaxRows \in RowCounts /\ \A m \in RowCounts : m <= MaxRows
  BY AddItemsAssumption, Zenon DEF MaxRows
<1>2. \A m \in RowCounts : m \in Nat /\ 1 <= m
  BY AddItemsAssumption
<1> QED BY <1>1, <1>2

\* There is a first worker.
LEMMA WorkerFacts == 1 \in Workers /\ \A w \in Workers : w \in Nat /\ w >= 1 /\ w <= num_threads
  BY AddItemsAssumption DEF Workers

\* fetch_add tells a worker that no row is left.
LEMMA FetchNone ==
  ASSUME NEW m \in Nat, NEW x \in Nat, NEW e, NEW k, NEW u, RowsOK(m, x, e, k, u),
         NEW w \in Workers, x >= m, NEW j, j[w].pc = "done",
         \A v \in Workers : v # w => j[v] = k[v], k[w].pc = "fetch"
  PROVE  RowsOK(m, x + 1, e, j, u)
<1>1. \A v \in Workers : j[v].pc = "fn" \/ j[v].pc = "catch" => j[v] = k[v]
  OBVIOUS
<1>2. \A v \in Workers : k[v].pc = "fn" => j[v] = k[v]
  OBVIOUS
<1>3. \A r \in 0 .. m - 1 : r < x /\ r < x + 1 /\ ~(r >= x + 1)
  OBVIOUS
<1>4. x + 1 >= m
  OBVIOUS
<1>5. \A v \in Workers : j[v].pc = "fn" => j[v].id < x + 1 /\ u[j[v].id] = 0
  BY <1>1, <1>3 DEF RowsOK
<1> QED BY <1>1, <1>2, <1>3, <1>4, <1>5 DEF RowsOK

\* fetch_add gives a row to one worker only.
LEMMA FetchRow ==
  ASSUME NEW m \in Nat, NEW x \in Nat, NEW e, NEW k, NEW u, RowsOK(m, x, e, k, u),
         NEW w \in Workers, ~(x >= m), NEW j, j[w].pc = "fn", j[w].id = x,
         \A v \in Workers : v # w => j[v] = k[v], k[w].pc = "fetch"
  PROVE  RowsOK(m, x + 1, e, j, u)
<1>1. x \in 0 .. m - 1 /\ x < x + 1 /\ x >= x
  OBVIOUS
<1>2. \A v \in Workers : j[v].pc \in {"fn", "catch"} => v = w \/ j[v] = k[v]
  OBVIOUS
<1>3. \A v \in Workers : k[v].pc = "fn" => j[v] = k[v] /\ v # w
  OBVIOUS
<1>4. \A r \in 0 .. m - 1 : /\ (r < x + 1 => r < x \/ r = x)
                              /\ (r < x => r < x + 1 /\ r # x) /\ (r >= x + 1 => r >= x)
  OBVIOUS
<1>5. j[1].pc # "done"
  BY <1>3, WorkerFacts DEF RowsOK
<1>6. \A v \in Workers : j[v].pc \in {"fn", "catch"} => j[v].id \in 0 .. m - 1
  BY <1>1, <1>2 DEF RowsOK
<1>7. u[x] = 0
  BY <1>1 DEF RowsOK
<1>8. \A v \in Workers : k[v].pc = "fn" => k[v].id \in 0 .. m - 1 /\ k[v].id < x /\ u[k[v].id] = 0
  BY DEF RowsOK
<1>9. \A v \in Workers : j[v].pc = "fn" => j[v].id < x + 1 /\ u[j[v].id] = 0
  BY <1>1, <1>2, <1>4, <1>7, <1>8
<1>10. \A v, y \in Workers : j[v].pc = "fn" /\ j[y].pc = "fn" /\ j[v].id = j[y].id => v = y
  <2>1. \A v \in Workers : k[v].pc = "fn" => k[v].id # x
    BY <1>4, <1>8
  <2>2. \A v, y \in Workers : k[v].pc = "fn" /\ k[y].pc = "fn" /\ k[v].id = k[y].id => v = y
    BY DEF RowsOK
  <2> QED BY <1>2, <2>1, <2>2
<1>11. \A r \in 0 .. m - 1 : u[r] <= 1 /\ (r >= x + 1 => u[r] = 0)
  BY <1>4 DEF RowsOK
<1>12. ~e => \A r \in 0 .. m - 1 :
         r < x + 1 => u[r] = 1 \/ \E v \in Workers : j[v].pc = "fn" /\ j[v].id = r
  BY <1>3, <1>4 DEF RowsOK
<1> QED BY <1>5, <1>6, <1>9, <1>10, <1>11, <1>12 DEF RowsOK

\* fn runs for the row of a worker, which nobody else has.
LEMMA FnRow ==
  ASSUME NEW m \in Nat, NEW x \in Nat, NEW e, NEW k, NEW u, RowsOK(m, x, e, k, u),
         NEW w \in Workers, k[w].pc = "fn", NEW j, j[w].pc \in {"catch", "fetch"},
         j[w].id = k[w].id, \A v \in Workers : v # w => j[v] = k[v],
         NEW y, y[k[w].id] = 1, \A r \in 0 .. m - 1 : r # k[w].id => y[r] = u[r]
  PROVE  RowsOK(m, x, e, j, y)
<1>1. k[w].id \in 0 .. m - 1 /\ k[w].id < x /\ ~(k[w].id >= x) /\ 1 <= 1
  <2>1. k[w].id \in 0 .. m - 1 /\ k[w].id < x
    BY DEF RowsOK
  <2> QED BY <2>1
<1>2. \A v \in Workers : j[v].pc \in {"fn", "catch"} => j[v].id = k[v].id /\ k[v].pc \in {"fn", "catch"}
  OBVIOUS
<1>3. \A v \in Workers : j[v].pc = "fn" => v # w /\ j[v] = k[v] /\ k[v].id # k[w].id
  BY DEF RowsOK
<1>4. j[1].pc = "done" => k[1].pc = "done"
  BY WorkerFacts
<1>5. \A v \in Workers : j[v].pc = "fn" => j[v].id < x /\ y[j[v].id] = 0
  <2>1. \A v \in Workers : k[v].pc = "fn" => k[v].id \in 0 .. m - 1 /\ k[v].id < x /\ u[k[v].id] = 0
    BY DEF RowsOK
  <2> QED BY <1>3, <2>1
<1>6. \A v, z \in Workers : j[v].pc = "fn" /\ j[z].pc = "fn" /\ j[v].id = j[z].id => v = z
  BY <1>3 DEF RowsOK
<1>7. \A r \in 0 .. m - 1 : y[r] <= 1 /\ (r >= x => y[r] = 0)
  BY <1>1 DEF RowsOK
<1>8. ASSUME ~e, NEW r \in 0 .. m - 1, r < x
      PROVE  y[r] = 1 \/ \E v \in Workers : j[v].pc = "fn" /\ j[v].id = r
  <2>1. CASE r = k[w].id
    BY <2>1
  <2>2. CASE r # k[w].id
    BY <1>8, <2>2 DEF RowsOK
  <2> QED BY <2>1, <2>2
<1> QED BY <1>1, <1>2, <1>4, <1>5, <1>6, <1>7, <1>8 DEF RowsOK

\* The loop starts with nothing run, or with the first row done.
LEMMA LoopStarts ==
  ASSUME NEW m \in Nat, m >= 1, NEW x \in {0, 1}, NEW k, NEW u, k[1].pc = "fetch",
         \A w \in Workers : k[w].pc \in {"fetch", "done"},
         u[0] = x, \A r \in 0 .. m - 1 : r # 0 => u[r] = 0
  PROVE  RowsOK(m, x, FALSE, k, u)
<1>1. \A r \in 0 .. m - 1 : u[r] <= 1 /\ (r >= x => u[r] = 0) /\ (r < x => u[r] = 1)
  OBVIOUS
<1>2. \A w \in Workers : k[w].pc # "fn" /\ k[w].pc # "catch"
  OBVIOUS
<1> QED BY <1>1, <1>2 DEF RowsOK
-----------------------------------------------------------------------------
(* RInv: the steps of the calls *)

\* The calls with their types after a step of one.
LEMMA StepTypes ==
  ASSUME Types, NEW c \in Callers, NEW a \in CallType, NEW k \in Crew, NEW u \in Tally,
         StepTo(c, a, k, u)
  PROVE  /\ call' \in [Callers -> CallType] /\ wk' \in [Callers -> Crew]
         /\ runs' \in [Callers -> Tally]
         /\ call'[c] = a /\ wk'[c] = k /\ runs'[c] = u
         /\ \A d \in Callers : d # c => call'[d] = call[d] /\ wk'[d] = wk[d] /\ runs'[d] = runs[d]
BY DEF Types, StepTo

\* The loops of the other calls are as they were.
LEMMA StepLoops ==
  ASSUME Types, LoopsOK, NEW c \in Callers, NEW a \in CallType, NEW k \in Crew,
         NEW u \in Tally, StepTo(c, a, k, u), LoopOK(a, k, u)
  PROVE  LoopsOK'
<1>0. call'[c] = a /\ wk'[c] = k /\ runs'[c] = u
  BY StepTypes, SMT
<1>1. \A d \in Callers : LoopOK(call'[d], wk'[d], runs'[d])
  <2> TAKE d \in Callers
  <2>1. CASE d = c
    BY <1>0, <2>1
  <2>2. CASE d # c
    <3>1. call'[d] = call[d] /\ wk'[d] = wk[d] /\ runs'[d] = runs[d]
      BY <2>2, StepTypes, Zenon
    <3>2. LoopOK(call[d], wk[d], runs[d])
      BY Zenon DEF LoopsOK
    <3> QED BY <3>1, <3>2, Zenon
  <2> QED BY <2>1, <2>2, Zenon
<1> QED BY <1>1, Zenon DEF LoopsOK

\* There are finitely many calls in progress.
LEMMA ActiveFinite == IsFiniteSet(Active) /\ Cardinality(Active) \in Nat
<1>1. Active \subseteq Callers /\ IsFiniteSet(Callers)
  BY AddItemsAssumption, Zenon DEF Active
<1>2. IsFiniteSet(Active)
  BY <1>1, FS_Subset, Zenon
<1> QED BY <1>2, FS_CardinalityType, Zenon

\* A call goes on, and as many have ended as before.
LEMMA SameEnded ==
  ASSUME Types, NEW c \in Callers, NEW a \in CallType, NEW k \in Crew, NEW u \in Tally,
         StepTo(c, a, k, u), call[c].pc # "idle", a.pc # "idle", UNCHANGED calls
  PROVE  Active' = Active /\ Ended' = Ended
<1>0. call'[c] = a /\ \A d \in Callers : d # c => call'[d] = call[d]
  BY StepTypes, Zenon
<1>1. \A d \in Callers : call'[d].pc # "idle" <=> call[d].pc # "idle"
  BY <1>0
<1>2. Active' = Active
  BY <1>1, Zenon DEF Active
<1> QED BY <1>2, Zenon DEF Ended

\* A call returns.
LEMMA OneEnded ==
  ASSUME Types, NEW c \in Callers, NEW a \in CallType, NEW k \in Crew, NEW u \in Tally,
         StepTo(c, a, k, u), call[c].pc # "idle", a.pc = "idle", UNCHANGED calls
  PROVE  Ended' = Ended + 1 /\ Active' = Active \ {c}
<1>1. Active' = Active \ {c} /\ c \in Active
  <2>0. call'[c] = a /\ \A d \in Callers : d # c => call'[d] = call[d]
    BY StepTypes, Zenon
  <2>1. \A d \in Callers : call'[d].pc # "idle" <=> call[d].pc # "idle" /\ d # c
    BY <2>0
  <2>2. \A d : d \in Active' <=> d \in Active \ {c}
    BY <2>1, Zenon DEF Active
  <2> QED BY <2>2, Zenon DEF Active
<1>2. Cardinality(Active \ {c}) = Cardinality(Active) - 1
  BY <1>1, ActiveFinite, FS_RemoveElement, Zenon
<1>3. Ended' = calls - Cardinality(Active \ {c}) /\ Ended = calls - Cardinality(Active)
  BY <1>1, Zenon DEF Ended
<1>4. calls \in Nat
  BY Zenon DEF Types
<1>5. calls - Cardinality(Active \ {c}) = (calls - Cardinality(Active)) + 1
  BY <1>2, <1>4, ActiveFinite
<1> QED BY <1>1, <1>3, <1>5, Zenon

\* A call begins.
LEMMA OneBegun ==
  ASSUME Types, NEW c \in Callers, NEW a \in CallType, NEW k \in Crew, NEW u \in Tally,
         StepTo(c, a, k, u), call[c].pc = "idle", a.pc # "idle", calls' = calls + 1
  PROVE  Ended' = Ended /\ Active' = Active \cup {c} /\ c \notin Active
<1>1. Active' = Active \cup {c} /\ c \notin Active
  <2>0. call'[c] = a /\ \A d \in Callers : d # c => call'[d] = call[d]
    BY StepTypes, Zenon
  <2>1. \A d \in Callers : call'[d].pc # "idle" <=> call[d].pc # "idle" \/ d = c
    BY <2>0
  <2>2. \A d : d \in Active' <=> d \in Active \cup {c}
    BY <2>1, Zenon DEF Active
  <2> QED BY <2>2, Zenon DEF Active
<1>2. Cardinality(Active \cup {c}) = Cardinality(Active) + 1
  BY <1>1, ActiveFinite, FS_AddElement, Zenon
<1>3. Ended' = (calls + 1) - Cardinality(Active \cup {c}) /\ Ended = calls - Cardinality(Active)
  BY <1>1, Zenon DEF Ended
<1>4. calls \in Nat
  BY Zenon DEF Types
<1>5. (calls + 1) - Cardinality(Active \cup {c}) = calls - Cardinality(Active)
  BY <1>2, <1>4, ActiveFinite
<1> QED BY <1>1, <1>3, <1>5, Zenon

\* A call goes on and has not stored cur_l.
LEMMA SameRange ==
  ASSUME Types, LabelsInRange, NEW c \in Callers, NEW a \in CallType, NEW k \in Crew,
         NEW u \in Tally, StepTo(c, a, k, u), call[c].pc # "idle", a.pc # "idle",
         UNCHANGED <<cur_l, calls>>, a.pc = "store" => a.read <= MaxRows * Ended
  PROVE  LabelsInRange'
<1>1. Ended' = Ended /\ calls' = calls /\ cur_l' = cur_l
  BY SameEnded, Zenon
<1>0. call'[c] = a /\ \A d \in Callers : d # c => call'[d] = call[d]
  BY StepTypes, Zenon
<1>2. \A d \in Callers : call'[d].pc = "store" => call'[d].read <= MaxRows * Ended
  <2> TAKE d \in Callers
  <2>1. CASE d = c
    BY <1>0, <2>1
  <2>2. CASE d # c
    BY <1>0, <2>2, Zenon DEF LabelsInRange
  <2> QED BY <2>1, <2>2, Zenon
<1> QED BY <1>1, <1>2, Zenon DEF LabelsInRange

\* A call goes on, with its loop in order.
LEMMA GoesOn ==
  ASSUME RInv, NEW c \in Callers, NEW a \in CallType, NEW k \in Crew, NEW u \in Tally,
         StepTo(c, a, k, u), LoopOK(a, k, u), call[c].pc # "idle", a.pc # "idle",
         UNCHANGED <<cur_l, ep_added, calls>>, index' = [l \in Labels |-> index'[l]],
         a.pc = "store" => a.read <= MaxRows * Ended
  PROVE  RInv'
<1>1. Types /\ LoopsOK /\ LabelsInRange
  BY Zenon DEF RInv
<1>2. call' \in [Callers -> CallType] /\ wk' \in [Callers -> Crew] /\ runs' \in [Callers -> Tally]
  BY <1>1, StepTypes, Zenon
<1>3. Types'
  BY <1>1, <1>2, Zenon DEF Types
<1>4. LoopsOK'
  BY <1>1, StepLoops, Zenon
<1>5. LabelsInRange'
  BY <1>1, SameRange, Zenon
<1> QED BY <1>3, <1>4, <1>5, Zenon DEF RInv

\* A call without a row left, or with the next one.
LEMMA FetchAddR ==
  ASSUME RInv, NEW c \in Callers, NEW w \in Workers, FetchAdd(c, w)
  PROVE  RInv' /\ call[c].pc = "loop"
<1> DEFINE a == call[c]
           k == wk[c]
           b == [a EXCEPT !.current = a.current + 1]
           new == IF a.current >= a.rows THEN NoWorker ELSE [pc |-> "fn", id |-> a.current]
           j == [k EXCEPT ![w] = new]
<1>1. a \in CallType /\ k \in Crew /\ runs[c] \in Tally /\ LoopOK(a, k, runs[c]) /\ k[w].pc = "fetch"
  BY Zenon DEF RInv, Types, LoopsOK, FetchAdd
<1>2. a.pc = "loop" /\ a.rows \in Nat /\ a.current \in Nat
  <2>1. a.pc = "loop"
    BY <1>1, Zenon DEF LoopOK
  <2> QED BY <1>1, <2>1 DEF CallType
<1>3. /\ b \in CallType /\ b.pc = a.pc /\ b.rows = a.rows /\ b.current = a.current + 1
      /\ b.lastException = a.lastException
  BY <1>1 DEF CallType
<1>4. /\ j \in Crew /\ j[w] = new /\ \A v \in Workers : v # w => j[v] = k[v]
  BY <1>1, <1>2 DEF Crew, WorkerType, NoWorker
<1>5. StepTo(c, b, j, runs[c])
  BY DEF RInv, Types, FetchAdd, StepTo, Fetched
<1>6. RowsOK(a.rows, a.current + 1, a.lastException, j, runs[c])
  <2>1. RowsOK(a.rows, a.current, a.lastException, k, runs[c])
    BY <1>1, <1>2, Zenon DEF LoopOK
  <2>2. CASE a.current >= a.rows
    <3>1. j[w].pc = "done"
      BY <1>4, <2>2 DEF NoWorker
    <3> HIDE DEF a, k, j
    <3> QED BY <1>1, <1>2, <1>4, <2>1, <2>2, <3>1, FetchNone, Zenon
  <2>3. CASE ~(a.current >= a.rows)
    <3>1. j[w].pc = "fn" /\ j[w].id = a.current
      BY <1>4, <2>3
    <3> HIDE DEF a, k, j
    <3> QED BY <1>1, <1>2, <1>4, <2>1, <2>3, <3>1, FetchRow, Zenon
  <2> QED BY <2>2, <2>3, Zenon
<1>7. LoopOK(b, j, runs[c])
  <2> HIDE DEF a, b, j
  <2> QED BY <1>1, <1>2, <1>3, <1>6, Zenon DEF LoopOK
<1>8. UNCHANGED <<index, cur_l, ep_added, calls>>
  BY Zenon DEF FetchAdd
<1>9. a.pc # "idle" /\ b.pc # "idle" /\ b.pc # "store"
  BY <1>2, <1>3
<1>10. index' = [l \in Labels |-> index'[l]]
  BY <1>8 DEF RInv, Types
<1> HIDE DEF b, j
<1> QED BY <1>1, <1>2, <1>3, <1>4, <1>5, <1>7, <1>8, <1>9, <1>10, GoesOn, Zenon

\* fn runs, and may throw.
LEMMA FnR ==
  ASSUME RInv, NEW c \in Callers, NEW w \in Workers, Fn(c, w)
  PROVE  RInv'
<1> DEFINE a == call[c]
           k == wk[c]
           row == k[w].id
           j == [k EXCEPT ![w].pc = IF Full(Label(c, row)) THEN "catch" ELSE "fetch"]
           y == [runs[c] EXCEPT ![row] = @ + 1]
<1>1. a \in CallType /\ k \in Crew /\ runs[c] \in Tally /\ LoopOK(a, k, runs[c]) /\ k[w].pc = "fn"
  BY Zenon DEF RInv, Types, LoopsOK, Fn
<1>2. a.pc = "loop" /\ a.rows \in RowCounts /\ a.rows \in Nat /\ a.current \in Nat
      /\ RowsOK(a.rows, a.current, a.lastException, k, runs[c])
  <2>1. a.pc = "loop"
    BY <1>1, Zenon DEF LoopOK
  <2> QED BY <1>1, <2>1 DEF CallType, LoopOK
<1>3. row \in 0 .. a.rows - 1 /\ runs[c][row] = 0
  BY <1>1, <1>2 DEF RowsOK
<1>4. row \in 0 .. MaxRows - 1
  BY <1>2, <1>3, RowFacts
<1>5. /\ j \in Crew /\ j[w].pc \in {"catch", "fetch"} /\ j[w].id = row
      /\ \A v \in Workers : v # w => j[v] = k[v]
  BY <1>1 DEF Crew, WorkerType
<1>6. y \in Tally /\ y[row] = 1 /\ \A r \in 0 .. a.rows - 1 : r # row => y[r] = runs[c][r]
  <2>1. \A r \in 0 .. a.rows - 1 : r \in 0 .. MaxRows - 1
    BY <1>2, RowFacts
  <2>2. PICK t, i : t = runs[c] /\ i = row
    OBVIOUS
  <2>3. t \in [0 .. MaxRows - 1 -> Nat] /\ t[i] = 0 /\ y = [t EXCEPT ![i] = t[i] + 1] /\ i \in 0 .. MaxRows - 1
    BY <1>1, <1>3, <1>4, <2>2 DEF Tally
  <2> HIDE DEF y, row
  <2>4. y \in Tally /\ y[i] = 1 /\ \A r \in 0 .. MaxRows - 1 : r # i => y[r] = t[r]
    BY <2>3, SMT DEF Tally
  <2> QED BY <2>1, <2>2, <2>4
<1>7. StepTo(c, a, j, y)
  BY DEF RInv, Types, Fn, StepTo
<1>8. RowsOK(a.rows, a.current, a.lastException, j, y)
  <2> HIDE DEF a, k, j, y
  <2> QED BY <1>1, <1>2, <1>5, <1>6, FnRow
<1>9. LoopOK(a, j, y)
  <2> HIDE DEF a, j, y
  <2> QED BY <1>2, <1>8 DEF LoopOK
<1>10. UNCHANGED <<cur_l, ep_added, calls>> /\ index' = [l \in Labels |-> index'[l]]
  BY DEF Fn, Put, RInv, Types
<1>11. a.pc # "idle" /\ a.pc # "store"
  BY <1>2
<1> HIDE DEF j, y
<1> QED BY <1>1, <1>5, <1>6, <1>7, <1>9, <1>10, <1>11, GoesOn, Zenon

\* An exception is kept, and stops the loop.
LEMMA CatchR ==
  ASSUME RInv, NEW c \in Callers, NEW w \in Workers, Catch(c, w)
  PROVE  RInv'
<1> DEFINE a == call[c]
           k == wk[c]
           b == [a EXCEPT !.lastException = TRUE, !.current = a.rows]
           j == [k EXCEPT ![w] = NoWorker]
<1>1. a \in CallType /\ k \in Crew /\ runs[c] \in Tally /\ LoopOK(a, k, runs[c]) /\ k[w].pc = "catch"
  BY Zenon DEF RInv, Types, LoopsOK, Catch
<1>2. a.pc = "loop" /\ a.rows \in RowCounts /\ a.rows \in Nat /\ a.current \in Nat
      /\ RowsOK(a.rows, a.current, a.lastException, k, runs[c])
  <2>1. a.pc = "loop"
    BY <1>1, Zenon DEF LoopOK
  <2> QED BY <1>1, <2>1 DEF CallType, LoopOK
<1>3. b \in CallType /\ b.pc = a.pc /\ b.rows = a.rows /\ b.current = a.rows /\ b.lastException = TRUE
  BY <1>1, Zenon DEF CallType
<1>4. j \in Crew /\ j[w].pc = "done" /\ \A v \in Workers : v # w => j[v] = k[v]
  BY <1>1 DEF Crew, WorkerType, NoWorker
<1>5. StepTo(c, b, j, runs[c])
  BY Zenon DEF RInv, Types, Catch, StepTo, Stop
<1>6. RowsOK(a.rows, a.rows, b.lastException, j, runs[c])
  <2> HIDE DEF a, k, b, j
  <2>1. PICK m, u : m = a.rows /\ u = runs[c]
    OBVIOUS
  <2>2. m \in Nat /\ RowsOK(m, a.current, a.lastException, k, u)
    BY <1>2, <2>1
  <2>3. \A r \in 0 .. m - 1 : r < m /\ ~(r >= m)
    BY <2>2
  <2>4. m >= m
    BY <2>2
  <2>5. \A v \in Workers : j[v].pc = "fn" \/ j[v].pc = "catch" => j[v] = k[v]
    BY <1>4
  <2>6. RowsOK(m, m, b.lastException, j, u)
    BY <1>3, <2>2, <2>3, <2>4, <2>5 DEF RowsOK
  <2> QED BY <2>1, <2>6
<1>7. LoopOK(b, j, runs[c])
  <2> HIDE DEF a, b, j
  <2> QED BY <1>2, <1>3, <1>6, Zenon DEF LoopOK
<1>8. UNCHANGED <<cur_l, ep_added, calls>> /\ index' = [l \in Labels |-> index'[l]]
  BY DEF Catch, RInv, Types
<1>9. a.pc # "idle" /\ b.pc # "idle" /\ b.pc # "store"
  BY <1>2, <1>3
<1> HIDE DEF b, j
<1> QED BY <1>1, <1>3, <1>4, <1>5, <1>7, <1>8, <1>9, GoesOn, Zenon

\* A call returns, and leaves its labels below the new cur_l.
LEMMA Returns ==
  ASSUME RInv, NEW c \in Callers, call[c].pc # "idle", Return(c),
         UNCHANGED <<index, ep_added, calls, wk>>, cur_l' \in Nat,
         cur_l' <= MaxRows * (Ended + 1), \A w \in Workers : wk[c][w].pc = "done"
  PROVE  RInv'
<1>1. Types /\ LoopsOK /\ LabelsInRange /\ wk[c] \in Crew
  BY Zenon DEF RInv, Types
<1>2. NoCall \in CallType /\ NoCall.pc = "idle" /\ NoRuns \in Tally
  BY DEF NoCall, CallType, NoRuns, Tally
<1>3. StepTo(c, NoCall, wk[c], NoRuns)
  BY <1>1 DEF Types, StepTo, Return
<1>4. LoopOK(NoCall, wk[c], NoRuns)
  BY <1>2 DEF LoopOK
<1>5. /\ call' \in [Callers -> CallType] /\ wk' \in [Callers -> Crew] /\ runs' \in [Callers -> Tally]
      /\ call'[c] = NoCall /\ \A d \in Callers : d # c => call'[d] = call[d]
  BY <1>1, <1>2, <1>3, StepTypes, Zenon
<1>6. Types'
  BY <1>1, <1>5 DEF Types
<1>7. LoopsOK'
  BY <1>1, <1>2, <1>3, <1>4, StepLoops, Zenon
<1>8. Ended' = Ended + 1
  BY <1>1, <1>2, <1>3, OneEnded, Zenon
<1>9. LabelsInRange'
  <2>1. calls' <= MaxCalls /\ Ended \in Nat /\ Ended + 1 \in Nat
    BY <1>1 DEF LabelsInRange
  <2>2. \A d \in Callers : call'[d].pc = "store" => call'[d].read \in Nat /\ call'[d].read <= MaxRows * Ended
    <3> SUFFICES ASSUME NEW d \in Callers, call'[d].pc = "store"
                 PROVE  call'[d].read \in Nat /\ call'[d].read <= MaxRows * Ended
      OBVIOUS
    <3>1. d # c
      BY <1>2, <1>5
    <3>2. call'[d] = call[d] /\ call[d] \in CallType
      BY <1>1, <1>5, <3>1 DEF Types
    <3> QED BY <1>1, <3>2 DEF LabelsInRange, CallType
  <2>3. MaxRows * Ended <= MaxRows * (Ended + 1) /\ MaxRows * Ended \in Nat /\ MaxRows * (Ended + 1) \in Nat
    BY <2>1, RowFacts
  <2>4. \A d \in Callers : call'[d].pc = "store" => call'[d].read <= MaxRows * (Ended + 1)
    BY <2>2, <2>3
  <2> QED BY <1>8, <2>1, <2>4 DEF LabelsInRange
<1> QED BY <1>6, <1>7, <1>9, Zenon DEF RInv

\* Labels of one more call.
LEMMA MoreRows ==
  ASSUME NEW e \in Nat
  PROVE  /\ MaxRows * (e + 1) = MaxRows * e + MaxRows
         /\ MaxRows * e \in Nat /\ MaxRows * (e + 1) \in Nat /\ MaxRows * e <= MaxRows * (e + 1)
BY RowFacts

\* The loop has ended.
LEMMA JoinR ==
  ASSUME RInv, NEW c \in Callers, Join(c)
  PROVE  RInv'
<1> DEFINE a == call[c]
           b == [a EXCEPT !.pc = "advance"]
<1>1. /\ a \in CallType /\ wk[c] \in Crew /\ runs[c] \in Tally /\ LoopOK(a, wk[c], runs[c])
      /\ a.pc = "loop" /\ \A w \in Workers : wk[c][w].pc = "done"
  BY Zenon DEF RInv, Types, LoopsOK, Join
<1>2. UNCHANGED <<index, cur_l, ep_added, calls, wk>> /\ index' = [l \in Labels |-> index'[l]]
  BY DEF Join, RInv, Types
<1>3. a.pc # "idle"
  BY <1>1
<1>4. CASE a.lastException
  <2>1. Return(c)
    BY <1>4, Zenon DEF Join
  <2>2. cur_l' \in Nat /\ cur_l' = cur_l /\ Ended \in Nat /\ cur_l <= MaxRows * Ended
    BY <1>2 DEF RInv, Types, LabelsInRange
  <2>3. cur_l' <= MaxRows * (Ended + 1)
    <3>1. MaxRows * Ended \in Nat /\ MaxRows * (Ended + 1) \in Nat /\ MaxRows * Ended <= MaxRows * (Ended + 1)
      BY <2>2, MoreRows, Zenon
    <3> QED BY <2>2, <3>1
  <2> QED BY <1>1, <1>2, <1>3, <2>1, <2>2, <2>3, Returns, Zenon
<1>5. CASE ~a.lastException
  <2>1. /\ b \in CallType /\ b.pc = "advance" /\ b.rows = a.rows /\ b.current = a.current
        /\ b.lastException = a.lastException
    BY <1>1 DEF CallType
  <2>2. StepTo(c, b, wk[c], runs[c])
    BY <1>5 DEF RInv, Types, Join, StepTo
  <2>3. LoopOK(b, wk[c], runs[c])
    <3> HIDE DEF a, b
    <3> QED BY <1>1, <1>3, <1>5, <2>1 DEF LoopOK
  <2>4. b.pc # "idle" /\ b.pc # "store"
    BY <2>1
  <2> HIDE DEF b
  <2> QED BY <1>1, <1>2, <1>3, <2>1, <2>2, <2>3, <2>4, GoesOn, Zenon
<1> QED BY <1>4, <1>5, Zenon

\* cur_l is read.
LEMMA ReadCurR ==
  ASSUME RInv, NEW c \in Callers, ReadCur(c)
  PROVE  RInv'
<1> DEFINE a == call[c]
           b == [a EXCEPT !.pc = "store", !.read = cur_l]
<1>1. /\ a \in CallType /\ wk[c] \in Crew /\ runs[c] \in Tally /\ LoopOK(a, wk[c], runs[c])
      /\ a.pc = "advance" /\ cur_l \in Nat
  BY Zenon DEF RInv, Types, LoopsOK, ReadCur
<1>2. UNCHANGED <<index, cur_l, ep_added, calls>> /\ index' = [l \in Labels |-> index'[l]]
  BY DEF ReadCur, RInv, Types
<1>3. a.pc # "idle" /\ a.pc # "loop"
  BY <1>1
<1>4. /\ b \in CallType /\ b.pc = "store" /\ b.rows = a.rows /\ b.current = a.current
      /\ b.lastException = a.lastException /\ b.read = cur_l
  BY <1>1, Zenon DEF CallType
<1>5. StepTo(c, b, wk[c], runs[c])
  BY Zenon DEF RInv, Types, ReadCur, StepTo
<1>6. LoopOK(b, wk[c], runs[c])
  <2> HIDE DEF a, b
  <2> QED BY <1>1, <1>3, <1>4 DEF LoopOK
<1>7. b.pc # "idle" /\ b.read <= MaxRows * Ended
  <2>1. cur_l <= MaxRows * Ended
    BY DEF RInv, LabelsInRange
  <2> QED BY <1>4, <2>1
<1> HIDE DEF b
<1> QED BY <1>1, <1>2, <1>3, <1>4, <1>5, <1>6, <1>7, GoesOn, Zenon

\* cur_l is stored, and the call returns.
LEMMA AdvanceR ==
  ASSUME RInv, NEW c \in Callers, Advance(c)
  PROVE  RInv' /\ cur_l' = call[c].read + call[c].rows
<1> DEFINE a == call[c]
<1>1. /\ a \in CallType /\ LoopOK(a, wk[c], runs[c]) /\ a.pc = "store" /\ Ended \in Nat
      /\ a.read <= MaxRows * Ended
  BY Zenon DEF RInv, Types, LoopsOK, Advance, LabelsInRange
<1>2. a.pc # "idle" /\ a.pc # "loop"
  BY <1>1
<1>3. a.rows \in RowCounts /\ \A w \in Workers : wk[c][w].pc = "done"
  BY <1>1, <1>2, Zenon DEF LoopOK
<1>4. a.read \in Nat /\ a.rows \in Nat /\ a.rows <= MaxRows
  BY <1>1, <1>3, RowFacts DEF CallType
<1>5. cur_l' = a.read + a.rows
  BY DEF Advance, NextLabel
<1>6. cur_l' \in Nat /\ cur_l' <= MaxRows * (Ended + 1)
  <2>1. MaxRows * Ended \in Nat /\ MaxRows * (Ended + 1) = MaxRows * Ended + MaxRows
    BY <1>1, MoreRows, Zenon
  <2> HIDE DEF a
  <2> QED BY <1>1, <1>4, <1>5, <2>1, RowFacts
<1>7. Return(c) /\ UNCHANGED <<index, ep_added, calls, wk>>
  BY Zenon DEF Advance
<1> QED BY <1>2, <1>3, <1>5, <1>6, <1>7, Returns, Zenon

\* A call throws before its loop, or starts it.
LEMMA BeginR ==
  ASSUME RInv, NEW c \in Callers, NEW rows \in RowCounts, NEW ids \in IdBases \cup {None},
         Begin(c, rows, ids)
  PROVE  RInv'
<1> DEFINE threads == IF rows <= FewRows THEN 1 ELSE num_threads
           first == IF ids # None THEN ids ELSE cur_l
           start == IF ep_added THEN 0 ELSE 1
           b == [NoCall EXCEPT !.pc = "loop", !.n = calls', !.rows = rows, !.ids = ids,
                               !.threads = threads, !.current = start]
           j == [w \in Workers |-> IF w <= threads THEN [pc |-> "fetch", id |-> None] ELSE NoWorker]
           y == [NoRuns EXCEPT ![0] = start]
<1>1. Types /\ LoopsOK /\ LabelsInRange /\ calls \in Nat /\ Ended \in Nat
  BY Zenon DEF RInv, Types, LabelsInRange
<1>2. call[c].pc = "idle" /\ calls < MaxCalls /\ calls' = calls + 1
  BY Zenon DEF Begin
<1>3. calls' \in Nat /\ calls' <= MaxCalls
  BY <1>1, <1>2, AddItemsAssumption
<1>4. CASE ~ep_added /\ Full(first)
  <2>1. UNCHANGED <<index, cur_l, ep_added, call, wk, runs>>
    BY <1>4, Zenon DEF Begin
  <2>2. Types' /\ LoopsOK'
    BY <1>1, <1>3, <2>1 DEF Types, LoopsOK
  <2>3. Ended' = Ended + 1
    <3>1. Active' = Active
      BY <2>1 DEF Active
    <3>2. (calls + 1) - Cardinality(Active) = (calls - Cardinality(Active)) + 1
      BY <1>1, ActiveFinite
    <3> QED BY <1>2, <3>1, <3>2, Zenon DEF Ended
  <2>4. LabelsInRange'
    <3>1. MaxRows * Ended \in Nat /\ MaxRows * (Ended + 1) \in Nat /\ MaxRows * Ended <= MaxRows * (Ended + 1)
      BY <1>1, MoreRows, Zenon
    <3>2. cur_l \in Nat /\ \A d \in Callers : call[d].read \in Nat
      BY <1>1 DEF Types, CallType
    <3>3. cur_l' <= MaxRows * (Ended + 1)
      BY <1>1, <2>1, <3>1, <3>2 DEF LabelsInRange
    <3>4. \A d \in Callers : call'[d].pc = "store" => call'[d].read <= MaxRows * (Ended + 1)
      BY <1>1, <2>1, <3>1, <3>2 DEF LabelsInRange
    <3>5. Ended + 1 \in Nat
      BY <1>1
    <3> QED BY <1>3, <2>3, <3>3, <3>4, <3>5, Zenon DEF LabelsInRange
  <2> QED BY <2>2, <2>4, Zenon DEF RInv
<1>5. CASE ~(~ep_added /\ Full(first))
  <2>1. threads \in Nat /\ threads >= 1 /\ start \in {0, 1} /\ start \in Nat
    BY AddItemsAssumption
  <2>2. rows \in Nat /\ rows >= 1 /\ rows <= MaxRows /\ 0 \in 0 .. MaxRows - 1
    BY RowFacts
  <2>3. /\ b \in CallType /\ b.pc = "loop" /\ b.rows = rows /\ b.current = start
        /\ b.lastException = FALSE
    <3> HIDE DEF threads, start
    <3> QED BY <1>3, <2>1, <2>2, Zenon DEF CallType, NoCall
  <2>4. /\ j \in Crew /\ j[1].pc = "fetch"
        /\ \A w \in Workers : j[w].pc \in {"fetch", "done"}
    <3> HIDE DEF threads
    <3> QED BY <2>1, WorkerFacts DEF Crew, WorkerType, NoWorker
  <2>5. y \in Tally /\ y[0] = start /\ \A r \in 0 .. rows - 1 : r # 0 => y[r] = 0
    <3> HIDE DEF start
    <3>1. \A r \in 0 .. rows - 1 : r \in 0 .. MaxRows - 1
      BY <2>2, RowFacts
    <3> QED BY <2>1, <2>2, <3>1 DEF Tally, NoRuns
  <2>6. StepTo(c, b, j, y) /\ UNCHANGED cur_l /\ ep_added' = TRUE
    BY <1>5 DEF Begin, StepTo
  <2>7. index' = [l \in Labels |-> index'[l]]
    BY <1>1, <1>5 DEF Begin, Put, Types
  <2>8. RowsOK(rows, start, FALSE, j, y)
    <3> HIDE DEF start, j, y
    <3> QED BY <2>1, <2>2, <2>4, <2>5, LoopStarts, Zenon
  <2>9. LoopOK(b, j, y)
    <3> HIDE DEF b, start, j, y
    <3> QED BY <2>3, <2>8, Zenon DEF LoopOK
  <2>10. b.pc # "idle" /\ b.pc # "store"
    BY <2>3
  <2> HIDE DEF b, j, y
  <2>11. /\ call' \in [Callers -> CallType] /\ wk' \in [Callers -> Crew] /\ runs' \in [Callers -> Tally]
         /\ call'[c] = b /\ \A d \in Callers : d # c => call'[d] = call[d]
    BY <1>1, <2>3, <2>4, <2>5, <2>6, StepTypes, SMT
  <2>12. Types'
    BY <1>1, <1>3, <2>6, <2>7, <2>11 DEF Types
  <2>13. LoopsOK'
    BY <1>1, <2>3, <2>4, <2>5, <2>6, <2>9, StepLoops, Zenon
  <2>14. Ended' = Ended
    BY <1>1, <1>2, <2>3, <2>4, <2>5, <2>6, <2>10, OneBegun, Zenon
  <2>15. \A d \in Callers : call'[d].pc = "store" => call'[d].read <= MaxRows * Ended
    <3> SUFFICES ASSUME NEW d \in Callers, call'[d].pc = "store" PROVE call'[d].read <= MaxRows * Ended
      OBVIOUS
    <3>1. call'[d] = call[d]
      BY <2>10, <2>11
    <3> QED BY <1>1, <3>1 DEF LabelsInRange
  <2>16. LabelsInRange'
    BY <1>1, <1>3, <2>6, <2>14, <2>15, Zenon DEF LabelsInRange
  <2> QED BY <2>12, <2>13, <2>16, Zenon DEF RInv
<1> QED BY <1>4, <1>5, Zenon

\* RInv holds at the beginning.
LEMMA InitR == Init => RInv
<1> SUFFICES ASSUME Init PROVE RInv
  OBVIOUS
<1>1. \A c \in Callers : call[c] = NoCall /\ runs[c] = NoRuns /\ \A w \in Workers : wk[c][w] = NoWorker
  BY DEF Init
<1>2. NoCall \in CallType /\ NoCall.pc = "idle" /\ NoWorker \in WorkerType /\ NoWorker.pc = "done"
  BY DEF NoCall, CallType, NoWorker, WorkerType
<1>3. NoRuns \in Tally
  BY DEF NoRuns, Tally
<1>4. Types
  BY <1>2, <1>3, Zenon DEF Init, Types, Crew
<1>5. LoopsOK
  BY <1>1, <1>2 DEF LoopsOK, LoopOK
<1>6. Ended = 0
  <2>1. Active = {}
    BY <1>1, <1>2 DEF Active
  <2>2. Cardinality({}) = 0
    BY FS_EmptySet, Zenon
  <2> QED BY <2>1, <2>2 DEF Init, Ended
<1>7. LabelsInRange
  <2>1. 0 <= MaxRows * 0
    BY RowFacts
  <2> QED BY <1>1, <1>2, <1>6, <2>1, AddItemsAssumption DEF LabelsInRange, Init
<1> QED BY <1>4, <1>5, <1>7, Zenon DEF RInv

\* RInv is kept by every step.
LEMMA NextR == RInv /\ [Next]_vars => RInv'
<1> SUFFICES ASSUME RInv, [Next]_vars PROVE RInv'
  OBVIOUS
<1>1. CASE UNCHANGED vars
  BY <1>1 DEF vars, RInv, Types, LoopsOK, LabelsInRange, Active, Ended
<1>2. ASSUME NEW c \in Callers, NEW rows \in RowCounts, NEW ids \in IdBases \cup {None}, Begin(c, rows, ids)
      PROVE  RInv'
  BY <1>2, BeginR, Zenon
<1>3. ASSUME NEW c \in Callers, Join(c) PROVE RInv'
  BY <1>3, JoinR, Zenon
<1>4. ASSUME NEW c \in Callers, ReadCur(c) PROVE RInv'
  BY <1>4, ReadCurR, Zenon
<1>5. ASSUME NEW c \in Callers, Advance(c) PROVE RInv'
  BY <1>5, AdvanceR, Zenon
<1>6. ASSUME NEW c \in Callers, NEW w \in Workers, FetchAdd(c, w) PROVE RInv'
  BY <1>6, FetchAddR, Zenon
<1>7. ASSUME NEW c \in Callers, NEW w \in Workers, Fn(c, w) PROVE RInv'
  BY <1>7, FnR, Zenon
<1>8. ASSUME NEW c \in Callers, NEW w \in Workers, Catch(c, w) PROVE RInv'
  BY <1>8, CatchR, Zenon
<1> QED BY <1>1, <1>2, <1>3, <1>4, <1>5, <1>6, <1>7, <1>8, Zenon DEF Next, Step

\* A call that has joined its workers without an exception ran fn for every row.
LEMMA RowsRun ==
  ASSUME RInv, NEW c \in Callers, call[c].pc \in {"advance", "store"}
  PROVE  \A r \in 0 .. call[c].rows - 1 : runs[c][r] = 1
<1>1. call[c] \in CallType /\ LoopOK(call[c], wk[c], runs[c])
  BY Zenon DEF RInv, Types, LoopsOK
<1>2. call[c].pc # "idle" /\ call[c].pc # "loop" /\ call[c].rows \in Nat /\ call[c].current \in Nat
  BY <1>1 DEF CallType
<1>3. /\ RowsOK(call[c].rows, call[c].current, call[c].lastException, wk[c], runs[c])
      /\ ~call[c].lastException /\ \A w \in Workers : wk[c][w].pc = "done"
  BY <1>1, <1>2, Zenon DEF LoopOK
<1>4. call[c].current >= call[c].rows
  BY <1>3, WorkerFacts, Zenon DEF RowsOK
<1>5. \A r \in 0 .. call[c].rows - 1 : r < call[c].current
  BY <1>2, <1>4
<1>6. \A w \in Workers : wk[c][w].pc # "fn"
  BY <1>3
<1> QED BY <1>3, <1>5, <1>6, Zenon DEF RowsOK

\* RInv always holds.
LEMMA RAlways == Spec => []RInv
BY InitR, NextR, PTL DEF Spec

\* ParallelFor runs fn at most once for a row, and exactly once for every row of a call
\* that did not throw, for any number of callers, threads and rows, also of calls that
\* overlap.
THEOREM RowsRunOnce == Spec => []EveryRowOnce
<1>1. RInv => EveryRowOnce
  <2> SUFFICES ASSUME RInv, NEW c \in Callers, call[c].pc # "idle", NEW r \in 0 .. call[c].rows - 1
               PROVE  runs[c][r] <= 1 /\ (call[c].pc \in {"advance", "store"} => runs[c][r] = 1)
    BY DEF EveryRowOnce
  <2>1. RowsOK(call[c].rows, call[c].current, call[c].lastException, wk[c], runs[c])
    BY Zenon DEF RInv, LoopsOK, LoopOK
  <2>2. runs[c][r] <= 1
    BY <2>1 DEF RowsOK
  <2> QED BY <2>2, RowsRun, Zenon
<1> QED BY <1>1, RAlways, PTL

-----------------------------------------------------------------------------
(* SInv: the labels of calls that no other one disturbs *)

\* The labels of a call's rows are labels of the model.
LEMMA Room ==
  ASSUME RInv, NEW c \in Callers, call[c].pc # "idle" \/ calls < MaxCalls
  PROVE  /\ \A r \in 0 .. MaxRows - 1 : cur_l + r \in Labels
         /\ \A b \in IdBases, n \in RowCounts : \A r \in 0 .. n - 1 : b + r \in Labels
<1>1. calls \in Nat /\ calls <= MaxCalls /\ Ended \in Nat /\ cur_l \in Nat /\ cur_l <= MaxRows * Ended
  BY Zenon DEF RInv, Types, LabelsInRange
<1>2. MaxCalls \in Nat /\ MaxLabel \in Nat /\ MaxCalls * MaxRows <= MaxLabel + 1 /\ MaxRows \in Nat
  BY AddItemsAssumption, RowFacts, Zenon
<1>3. Ended + 1 <= MaxCalls
  <2>1. CASE calls < MaxCalls
    BY <1>1, <1>2, <2>1, ActiveFinite DEF Ended
  <2>2. CASE call[c].pc # "idle"
    <3>1. c \in Active
      BY <2>2, Zenon DEF Active
    <3>2. Cardinality(Active) # 0
      BY <3>1, ActiveFinite, FS_EmptySet, Zenon
    <3>3. PICK n : n = Cardinality(Active)
      OBVIOUS
    <3>4. n \in Nat /\ n # 0 /\ Ended = calls - n
      BY <3>2, <3>3, ActiveFinite, Zenon DEF Ended
    <3>5. calls \in Nat /\ calls <= MaxCalls /\ MaxCalls \in Nat
      BY <1>1, <1>2, Zenon
    <3> QED BY <3>4, <3>5
  <2> QED BY <2>1, <2>2, Zenon
<1>4. MaxRows * (Ended + 1) <= MaxCalls * MaxRows
  <2>1. PICK e : e = Ended + 1
    OBVIOUS
  <2>2. e \in Nat /\ e <= MaxCalls
    BY <1>1, <1>3, <2>1
  <2>3. \A m, p, q \in Nat : p <= q => m * p <= q * m
    OBVIOUS
  <2> QED BY <1>2, <2>1, <2>2, <2>3
<1>5. MaxRows * (Ended + 1) = MaxRows * Ended + MaxRows /\ MaxRows * Ended \in Nat
  BY <1>1, MoreRows, Zenon
<1>6. cur_l + MaxRows <= MaxLabel + 1
  <2>1. PICK p, q : p = MaxRows * Ended /\ q = MaxCalls * MaxRows
    OBVIOUS
  <2>2. p \in Nat /\ q \in Nat /\ cur_l <= p /\ p + MaxRows <= q /\ q <= MaxLabel + 1
    BY <1>1, <1>2, <1>4, <1>5, <2>1
  <2> QED BY <1>1, <1>2, <2>2
<1>7. \A r \in 0 .. MaxRows - 1 : cur_l + r \in Labels
  BY <1>1, <1>2, <1>6 DEF Labels
<1>8. ASSUME NEW b \in IdBases, NEW n \in RowCounts, NEW r \in 0 .. n - 1
      PROVE  b + r \in Labels
  <2>1. b \in Nat /\ n \in Nat /\ b + n <= MaxLabel + 1 /\ MaxLabel \in Nat
    BY AddItemsAssumption
  <2> QED BY <2>1 DEF Labels
<1> QED BY <1>7, <1>8

\* Labels below cur_l are labels of the model.
LEMMA UsedLabels ==
  ASSUME RInv, NEW l \in Nat, l < cur_l
  PROVE  l \in Labels
<1>1. calls \in Nat /\ calls <= MaxCalls /\ Ended \in Nat /\ cur_l \in Nat /\ cur_l <= MaxRows * Ended
  BY Zenon DEF RInv, Types, LabelsInRange
<1>2. MaxCalls \in Nat /\ MaxLabel \in Nat /\ MaxCalls * MaxRows <= MaxLabel + 1 /\ MaxRows \in Nat
  BY AddItemsAssumption, RowFacts, Zenon
<1>3. Ended <= MaxCalls
  <2>1. PICK n : n = Cardinality(Active)
    OBVIOUS
  <2>2. n \in Nat /\ Ended = calls - n
    BY <2>1, ActiveFinite, Zenon DEF Ended
  <2> QED BY <1>1, <1>2, <2>2
<1>4. MaxRows * Ended <= MaxCalls * MaxRows
  <2>1. \A m, p, q \in Nat : p <= q => m * p <= q * m
    OBVIOUS
  <2> QED BY <1>1, <1>2, <1>3, <2>1
<1>5. cur_l <= MaxLabel + 1
  <2>1. PICK p, q : p = MaxRows * Ended /\ q = MaxCalls * MaxRows
    OBVIOUS
  <2>2. p \in Nat /\ q \in Nat /\ cur_l <= p /\ p <= q /\ q <= MaxLabel + 1
    BY <1>1, <1>2, <1>4, <2>1
  <2> QED BY <1>1, <1>2, <2>2
<1> QED BY <1>1, <1>2, <1>5 DEF Labels

\* Calls that go on with the ids and rows they have stay apart.
LEMMA StayApart ==
  ASSUME Types, Separate, NEW c \in Callers, NEW a \in CallType, NEW k \in Crew, NEW u \in Tally,
         StepTo(c, a, k, u), call[c].pc # "idle", SameDisturbed(c, a),
         a.pc # "idle" => a.ids = call[c].ids /\ a.rows = call[c].rows
  PROVE  Separate'
<1>1. call'[c] = a /\ \A d \in Callers : d # c => call'[d] = call[d]
  BY StepTypes, Zenon
<1>2. \A d \in Callers : call'[d].pc # "idle" =>
        /\ call[d].pc # "idle" /\ call'[d].ids = call[d].ids /\ call'[d].rows = call[d].rows
        /\ d \notin disturbed' => d \notin disturbed
  BY <1>1 DEF SameDisturbed
<1> QED BY <1>2, Zenon DEF Separate, Apart

\* The other calls' rows stay where they are.
LEMMA StayWritten ==
  ASSUME Types, AllWritten, NEW c \in Callers, NEW a \in CallType, NEW k \in Crew, NEW u \in Tally,
         StepTo(c, a, k, u), c \notin disturbed' => Written(a, k, u, cur_l', index'),
         \A d \in Callers : d # c /\ d \notin disturbed' => d \notin disturbed,
         \A d \in Callers : d # c /\ d \notin disturbed' /\ call[d].pc # "idle" =>
            \A r \in 0 .. call[d].rows - 1 :
                index'[Place(call[d], cur_l', r)] = index[Place(call[d], cur_l, r)]
  PROVE  AllWritten'
<1>1. call'[c] = a /\ wk'[c] = k /\ runs'[c] = u
  BY StepTypes, SMT
<1>2. ASSUME NEW d \in Callers, d # c, d \notin disturbed'
      PROVE  Written(call'[d], wk'[d], runs'[d], cur_l', index')
  <2>1. call'[d] = call[d] /\ wk'[d] = wk[d] /\ runs'[d] = runs[d]
    BY <1>2, StepTypes, Zenon
  <2>2. Written(call[d], wk[d], runs[d], cur_l, index)
    BY <1>2, Zenon DEF AllWritten
  <2>3. call[d].pc \in {"loop", "advance"} => call[d].pc # "idle"
    OBVIOUS
  <2>4. Written(call[d], wk[d], runs[d], cur_l', index')
    <3> SUFFICES ASSUME call[d].pc \in {"loop", "advance"}, ~call[d].lastException,
                        NEW r \in 0 .. call[d].rows - 1, runs[d][r] = 1
                 PROVE  \/ index'[Place(call[d], cur_l', r)] = <<call[d].n, r>>
                        \/ \E w \in Workers : wk[d][w].pc = "catch" /\ wk[d][w].id = r
      BY Zenon DEF Written
    <3>1. index'[Place(call[d], cur_l', r)] = index[Place(call[d], cur_l, r)]
      BY <1>2, <2>3, Zenon
    <3>2. \/ index[Place(call[d], cur_l, r)] = <<call[d].n, r>>
          \/ \E w \in Workers : wk[d][w].pc = "catch" /\ wk[d][w].id = r
      BY <2>2, Zenon DEF Written
    <3> QED BY <3>1, <3>2, Zenon
  <2> QED BY <2>1, <2>4, Zenon
<1> QED BY <1>1, <1>2, Zenon DEF AllWritten

\* A call's step that writes no row leaves the rows of undisturbed others, also when cur_l changes.
LEMMA OthersKept ==
  ASSUME Separate, NEW c \in Callers, call[c].pc # "idle", UNCHANGED index,
         NEW d \in Callers, d # c, d \notin disturbed, call[d].pc # "idle"
  PROVE  \A r \in 0 .. call[d].rows - 1 :
            index'[Place(call[d], cur_l', r)] = index[Place(call[d], cur_l, r)]
<1>1. call[d].ids # None
  BY Zenon DEF Separate, Apart
<1> QED BY <1>1, Zenon DEF Place

\* A call goes on with the rows it has.
LEMMA SameWritten ==
  ASSUME NEW a, NEW k, NEW u, NEW x, NEW f, Written(a, k, u, x, f), a.pc = "loop",
         NEW b, b.rows = a.rows, b.ids = a.ids, b.n = a.n, b.lastException = a.lastException,
         NEW j, \A v \in Workers : k[v].pc = "catch" => j[v] = k[v]
  PROVE  Written(b, j, u, x, f)
<1> SUFFICES ASSUME ~b.lastException, NEW r \in 0 .. b.rows - 1, u[r] = 1
             PROVE  \/ f[Place(b, x, r)] = <<b.n, r>>
                    \/ \E w \in Workers : j[w].pc = "catch" /\ j[w].id = r
  BY Zenon DEF Written
<1>1. Place(b, x, r) = Place(a, x, r)
  BY DEF Place
<1>2. r \in 0 .. a.rows - 1 /\ ~a.lastException /\ a.pc \in {"loop", "advance"}
  OBVIOUS
<1>3. f[Place(a, x, r)] = <<a.n, r>> \/ \E w \in Workers : k[w].pc = "catch" /\ k[w].id = r
  BY <1>2, Zenon DEF Written
<1> QED BY <1>1, <1>3

\* What a step of a call in progress that writes no row keeps.
LEMMA QuietS ==
  ASSUME RInv, Separate, AllWritten, NEW c \in Callers, NEW a \in CallType, NEW k \in Crew,
         NEW u \in Tally, StepTo(c, a, k, u), call[c].pc # "idle", UNCHANGED index,
         a.pc # "idle" => a.ids = call[c].ids /\ a.rows = call[c].rows,
         SameDisturbed(c, a), c \notin disturbed' => Written(a, k, u, cur_l', index')
  PROVE  Separate' /\ AllWritten'
<1>1. Types
  BY Zenon DEF RInv
<1>2. Separate'
  BY <1>1, StayApart, Zenon
<1>3. \A d \in Callers : d # c /\ d \notin disturbed' => d \notin disturbed
  BY Zenon DEF SameDisturbed
<1>4. AllWritten'
  BY <1>1, <1>3, OthersKept, StayWritten, Zenon
<1> QED BY <1>2, <1>4, Zenon

\* A step that leaves cur_l and the labels given out.
LEMMA SameOwned ==
  ASSUME Types, OwnedBehind, NEW c \in Callers, NEW a \in CallType, NEW k \in Crew, NEW u \in Tally,
         StepTo(c, a, k, u), UNCHANGED <<cur_l, owned>>, a.pc = "store" => a.read = cur_l
  PROVE  OwnedBehind'
<1>1. call'[c] = a /\ \A d \in Callers : d # c => call'[d] = call[d]
  BY StepTypes, Zenon
<1>2. ASSUME NEW d \in Callers, call'[d].pc = "store", NEW l \in owned PROVE l < call'[d].read
  <2>1. CASE d = c
    BY <1>1, <1>2, <2>1, Zenon DEF OwnedBehind
  <2>2. CASE d # c
    BY <1>1, <1>2, <2>2 DEF OwnedBehind
  <2> QED BY <2>1, <2>2, Zenon
<1> QED BY <1>2, Zenon DEF OwnedBehind

\* A call without a row left, or with the next one.
LEMMA FetchAddS ==
  ASSUME RInv, SInv, NEW c \in Callers, NEW w \in Workers, FetchAdd(c, w)
  PROVE  SInv'
<1> DEFINE a == call[c]
           k == wk[c]
           b == [a EXCEPT !.current = a.current + 1]
           new == IF a.current >= a.rows THEN NoWorker ELSE [pc |-> "fn", id |-> a.current]
           j == [k EXCEPT ![w] = new]
<1>1. /\ a \in CallType /\ k \in Crew /\ runs[c] \in Tally /\ LoopOK(a, k, runs[c]) /\ k[w].pc = "fetch"
      /\ Types /\ Separate /\ OwnedBehind /\ AllWritten
      /\ c \notin disturbed => Written(a, k, runs[c], cur_l, index)
  BY Zenon DEF RInv, Types, LoopsOK, FetchAdd, SInv, AllWritten
<1>2. a.pc = "loop" /\ a.current \in Nat
  <2>1. a.pc = "loop"
    BY <1>1, Zenon DEF LoopOK
  <2> QED BY <1>1, <2>1 DEF CallType
<1>3. /\ b \in CallType /\ b.pc = a.pc /\ b.rows = a.rows /\ b.ids = a.ids /\ b.n = a.n
      /\ b.lastException = a.lastException
  BY <1>1 DEF CallType
<1>4. j \in Crew /\ j[w] = new /\ \A v \in Workers : v # w => j[v] = k[v]
  BY <1>1, <1>2 DEF Crew, WorkerType, NoWorker
<1>5. StepTo(c, b, j, runs[c])
  BY DEF RInv, Types, FetchAdd, StepTo, Fetched
<1>6. UNCHANGED <<index, cur_l, owned, disturbed>> /\ SameDisturbed(c, b)
  BY Zenon DEF FetchAdd, SameDisturbed
<1>7. \A v \in Workers : k[v].pc = "catch" => j[v] = k[v]
  BY <1>1, <1>4
<1>8. a.pc # "idle" /\ b.pc # "store"
  BY <1>2, <1>3
<1> HIDE DEF a, b, j, k
<1>9. ASSUME c \notin disturbed' PROVE Written(b, j, runs[c], cur_l', index')
  <2>1. Written(b, j, runs[c], cur_l, index)
    BY <1>1, <1>2, <1>3, <1>6, <1>7, <1>9, SameWritten, Zenon
  <2> QED BY <1>6, <2>1
<1>10. Separate' /\ AllWritten'
  BY <1>1, <1>3, <1>4, <1>5, <1>6, <1>8, <1>9, QuietS, Zenon DEF a
<1>11. OwnedBehind'
  BY <1>1, <1>3, <1>4, <1>5, <1>6, <1>8, SameOwned, Zenon
<1> QED BY <1>10, <1>11, Zenon DEF SInv

\* An exception is kept: the call will not return normally.
LEMMA CatchS ==
  ASSUME RInv, SInv, NEW c \in Callers, NEW w \in Workers, Catch(c, w)
  PROVE  SInv'
<1> DEFINE a == call[c]
           k == wk[c]
           b == [a EXCEPT !.lastException = TRUE, !.current = a.rows]
           j == [k EXCEPT ![w] = NoWorker]
<1>1. /\ a \in CallType /\ k \in Crew /\ runs[c] \in Tally /\ LoopOK(a, k, runs[c]) /\ k[w].pc = "catch"
      /\ Types /\ Separate /\ OwnedBehind /\ AllWritten
  BY Zenon DEF RInv, Types, LoopsOK, Catch, SInv
<1>2. a.pc = "loop"
  BY <1>1, Zenon DEF LoopOK
<1>3. b \in CallType /\ b.pc = a.pc /\ b.rows = a.rows /\ b.ids = a.ids /\ b.lastException = TRUE
  BY <1>1, Zenon DEF CallType
<1>4. j \in Crew
  BY <1>1 DEF Crew, WorkerType, NoWorker
<1>5. StepTo(c, b, j, runs[c])
  BY Zenon DEF RInv, Types, Catch, StepTo, Stop
<1>6. UNCHANGED <<index, cur_l, owned>> /\ SameDisturbed(c, b)
  BY Zenon DEF Catch, SameDisturbed
<1>7. a.pc # "idle" /\ b.pc # "store"
  BY <1>2, <1>3
<1> HIDE DEF a, b, j, k
<1>8. Written(b, j, runs[c], cur_l', index')
  BY <1>3, Zenon DEF Written
<1>9. Separate' /\ AllWritten'
  BY <1>1, <1>3, <1>4, <1>5, <1>6, <1>7, <1>8, QuietS, Zenon DEF a
<1>10. OwnedBehind'
  BY <1>1, <1>3, <1>4, <1>5, <1>6, <1>7, SameOwned, Zenon
<1> QED BY <1>9, <1>10, Zenon DEF SInv

\* A call returns: what it owns is not looked at here.
LEMMA ReturnsS ==
  ASSUME RInv, SInv, NEW c \in Callers, call[c].pc # "idle", Return(c), UNCHANGED <<index, wk>>
  PROVE  /\ Separate' /\ AllWritten' /\ StepTo(c, NoCall, wk[c], NoRuns)
         /\ NoCall \in CallType /\ NoCall.pc = "idle" /\ NoRuns \in Tally
<1>1. Types /\ wk[c] \in Crew /\ Separate /\ AllWritten
  BY Zenon DEF RInv, Types, SInv
<1>2. NoCall \in CallType /\ NoCall.pc = "idle" /\ NoRuns \in Tally
  BY DEF NoCall, CallType, NoRuns, Tally
<1>3. StepTo(c, NoCall, wk[c], NoRuns)
  BY <1>1 DEF Types, StepTo, Return
<1>4. Written(NoCall, wk[c], NoRuns, cur_l', index')
  BY <1>2 DEF Written
<1>5. SameDisturbed(c, NoCall)
  BY <1>2, Zenon DEF SameDisturbed, Return
<1>6. Separate' /\ AllWritten'
  BY <1>1, <1>2, <1>3, <1>4, <1>5, QuietS, Zenon
<1> QED BY <1>2, <1>3, <1>6, Zenon

\* The loop has ended.
LEMMA JoinS ==
  ASSUME RInv, SInv, NEW c \in Callers, Join(c)
  PROVE  SInv'
<1> DEFINE a == call[c]
           b == [a EXCEPT !.pc = "advance"]
<1>1. /\ a \in CallType /\ wk[c] \in Crew /\ runs[c] \in Tally /\ a.pc = "loop"
      /\ Types /\ Separate /\ OwnedBehind /\ AllWritten
      /\ c \notin disturbed => Written(a, wk[c], runs[c], cur_l, index)
  BY Zenon DEF RInv, Types, Join, SInv, AllWritten
<1>2. UNCHANGED <<index, cur_l, wk, owned>>
  BY Zenon DEF Join
<1>3. a.pc # "idle"
  BY <1>1
<1>4. CASE a.lastException
  <2>1. Return(c)
    BY <1>4, Zenon DEF Join
  <2>2. /\ Separate' /\ AllWritten' /\ StepTo(c, NoCall, wk[c], NoRuns)
        /\ NoCall \in CallType /\ NoCall.pc = "idle" /\ NoRuns \in Tally
    BY <1>2, <1>3, <2>1, ReturnsS, Zenon
  <2>3. NoCall.pc # "store"
    BY <2>2
  <2>4. OwnedBehind'
    BY <1>1, <1>2, <2>2, <2>3, SameOwned, Zenon
  <2> QED BY <2>2, <2>4, Zenon DEF SInv
<1>5. CASE ~a.lastException
  <2>1. /\ b \in CallType /\ b.pc = "advance" /\ b.rows = a.rows /\ b.ids = a.ids /\ b.n = a.n
        /\ b.lastException = a.lastException
    BY <1>1 DEF CallType
  <2>2. StepTo(c, b, wk[c], runs[c])
    BY <1>5 DEF RInv, Types, Join, StepTo
  <2>3. b.pc # "store" /\ a.pc \in {"loop", "advance"}
    BY <1>1, <2>1
  <2> HIDE DEF a, b
  <2>0. disturbed' = disturbed /\ SameDisturbed(c, b)
    BY <1>5, Zenon DEF Join, SameDisturbed, a
  <2>4. ASSUME c \notin disturbed' PROVE Written(b, wk[c], runs[c], cur_l', index')
    <3>1. Written(b, wk[c], runs[c], cur_l, index)
      BY <1>1, <2>0, <2>1, <2>4, SameWritten, Zenon
    <3> QED BY <1>2, <3>1
  <2>5. Separate' /\ AllWritten'
    BY <1>1, <1>2, <1>3, <2>0, <2>1, <2>2, <2>4, QuietS, Zenon DEF a
  <2>6. OwnedBehind'
    BY <1>1, <1>2, <2>1, <2>2, <2>3, SameOwned, Zenon
  <2> QED BY <2>5, <2>6, Zenon DEF SInv
<1> QED BY <1>4, <1>5, Zenon

\* cur_l is read.
LEMMA ReadCurS ==
  ASSUME RInv, SInv, NEW c \in Callers, ReadCur(c)
  PROVE  SInv'
<1> DEFINE a == call[c]
           b == [a EXCEPT !.pc = "store", !.read = cur_l]
<1>1. /\ a \in CallType /\ wk[c] \in Crew /\ runs[c] \in Tally /\ a.pc = "advance" /\ cur_l \in Nat
      /\ Types /\ Separate /\ OwnedBehind /\ AllWritten
  BY Zenon DEF RInv, Types, ReadCur, SInv
<1>2. UNCHANGED <<index, cur_l, owned>> /\ SameDisturbed(c, b)
  BY Zenon DEF ReadCur, SameDisturbed
<1>3. b \in CallType /\ b.pc = "store" /\ b.rows = a.rows /\ b.ids = a.ids /\ b.read = cur_l
  BY <1>1, Zenon DEF CallType
<1>4. StepTo(c, b, wk[c], runs[c])
  BY Zenon DEF RInv, Types, ReadCur, StepTo
<1>5. a.pc # "idle" /\ ~(b.pc \in {"loop", "advance"})
  BY <1>1, <1>3
<1> HIDE DEF a, b
<1>6. Written(b, wk[c], runs[c], cur_l', index')
  BY <1>5, Zenon DEF Written
<1>7. Separate' /\ AllWritten'
  BY <1>1, <1>2, <1>3, <1>4, <1>5, <1>6, QuietS, Zenon DEF a
<1>8. OwnedBehind'
  BY <1>1, <1>2, <1>3, <1>4, SameOwned, Zenon
<1> QED BY <1>7, <1>8, Zenon DEF SInv

\* cur_l is stored: it is past the labels of the call, and no other call is in progress
\* when an undisturbed one without ids takes them.
LEMMA AdvanceS ==
  ASSUME RInv, SInv, NEW c \in Callers, Advance(c)
  PROVE  SInv'
<1> DEFINE a == call[c]
<1>1. /\ a \in CallType /\ a.pc = "store" /\ Types /\ Separate /\ OwnedBehind /\ wk[c] \in Crew
      /\ LoopOK(a, wk[c], runs[c]) /\ cur_l \in Nat
  BY Zenon DEF RInv, Types, LoopsOK, Advance, SInv
<1>2. a.pc # "idle"
  BY <1>1
<1>3. a.rows \in Nat /\ a.rows >= 1 /\ a.read \in Nat
  <2>1. a.rows \in RowCounts
    BY <1>1, <1>2, Zenon DEF LoopOK
  <2> QED BY <1>1, <2>1, RowFacts DEF CallType
<1>4. Return(c) /\ UNCHANGED <<index, wk>> /\ cur_l' = a.read + a.rows
  BY Zenon DEF Advance, NextLabel
<1>5. /\ Separate' /\ AllWritten' /\ StepTo(c, NoCall, wk[c], NoRuns)
      /\ NoCall \in CallType /\ NoCall.pc = "idle" /\ NoRuns \in Tally
  BY <1>2, <1>4, ReturnsS, Zenon
<1>6. call'[c] = NoCall /\ \A d \in Callers : d # c => call'[d] = call[d]
  BY <1>1, <1>5, StepTypes, SMT
<1>7. owned \subseteq Nat /\ \A l \in owned : l < a.read
  BY <1>1, Zenon DEF OwnedBehind
<1>8. CASE a.ids = None /\ c \notin disturbed
  <2>1. owned' = owned \cup (a.read .. a.read + a.rows - 1)
    BY <1>8, Zenon DEF Advance, IdRange
  <2>2. \A d \in Callers : call'[d].pc = "idle"
    BY <1>1, <1>2, <1>5, <1>6, <1>8 DEF Separate, Apart
  <2>3. owned' \subseteq Nat /\ \A l \in owned' : l < cur_l'
    <3>1. \A l \in owned : l \in Nat /\ l < cur_l'
      BY <1>3, <1>4, <1>7
    <3>2. \A l \in a.read .. a.read + a.rows - 1 : l \in Nat /\ l < cur_l'
      BY <1>3, <1>4
    <3> QED BY <2>1, <3>1, <3>2, Zenon
  <2>4. \A d \in Callers : call'[d].pc # "store"
    BY <2>2
  <2>5. OwnedBehind'
    BY <2>3, <2>4, Zenon DEF OwnedBehind
  <2> QED BY <1>5, <2>5, Zenon DEF SInv
<1>9. CASE ~(a.ids = None /\ c \notin disturbed)
  <2>1. owned' = owned
    BY <1>9, Zenon DEF Advance
  <2>2. \A l \in owned' : l < cur_l'
    <3> HIDE DEF a
    <3> QED BY <1>3, <1>4, <1>7, <2>1
  <2>3. NoCall.pc # "store"
    BY <1>5
  <2>4. \A d \in Callers : call'[d].pc = "store" => \A l \in owned' : l < call'[d].read
    BY <1>1, <1>6, <2>1, <2>3 DEF OwnedBehind
  <2>5. OwnedBehind'
    BY <1>7, <2>1, <2>2, <2>4, Zenon DEF OwnedBehind
  <2> QED BY <1>5, <2>5, Zenon DEF SInv
<1> QED BY <1>8, <1>9, Zenon

\* A row that is put under one of a call's ids is not put over a row of a call with other ids.
LEMMA PutApart ==
  ASSUME RInv, NEW ids \in IdBases, NEW rows \in RowCounts, NEW row \in 0 .. rows - 1,
         NEW v, index' = [index EXCEPT ![ids + row] = v],
         NEW d \in Callers, call[d].pc # "idle", call[d].ids # None,
         IdRange(ids, rows) \cap IdRange(call[d].ids, call[d].rows) = {}
  PROVE  \A r \in 0 .. call[d].rows - 1 :
            index'[Place(call[d], cur_l', r)] = index[Place(call[d], cur_l, r)]
<1> SUFFICES ASSUME NEW r \in 0 .. call[d].rows - 1
             PROVE  index'[Place(call[d], cur_l', r)] = index[Place(call[d], cur_l, r)]
  OBVIOUS
<1>1. PICK e, m : e = call[d].ids /\ m = call[d].rows
  BY Zenon
<1>2. e \in IdBases /\ m \in RowCounts /\ index = [l \in Labels |-> index[l]]
  <2>1. call[d] \in CallType /\ LoopOK(call[d], wk[d], runs[d])
    BY Zenon DEF RInv, Types, LoopsOK
  <2>2. call[d].ids \in IdBases
    BY <2>1 DEF CallType
  <2>3. call[d].rows \in RowCounts
    BY <2>1, Zenon DEF LoopOK
  <2> QED BY <1>1, <2>2, <2>3, Zenon DEF RInv, Types
<1>3. Place(call[d], cur_l', r) = e + r /\ Place(call[d], cur_l, r) = e + r
  BY <1>1, Zenon DEF Place
<1>4. e + r \in Labels
  BY <1>1, <1>2, Room, Zenon
<1>5. e + r # ids + row
  <2>1. e \in Nat /\ m \in Nat /\ ids \in Nat /\ rows \in Nat
    BY <1>2, AddItemsAssumption, RowFacts
  <2>2. r \in 0 .. m - 1 /\ (ids .. ids + rows - 1) \cap (e .. e + m - 1) = {}
    BY <1>1 DEF IdRange
  <2>3. e + r \in e .. e + m - 1 /\ ids + row \in ids .. ids + rows - 1
    BY <2>1, <2>2
  <2> QED BY <2>2, <2>3
<1>6. index'[e + r] = index[e + r]
  BY <1>2, <1>4, <1>5
<1> QED BY <1>3, <1>6

\* fn puts its row, or throws.
LEMMA FnS ==
  ASSUME RInv, SInv, NEW c \in Callers, NEW w \in Workers, Fn(c, w)
  PROVE  SInv'
<1> DEFINE a == call[c]
           k == wk[c]
           row == k[w].id
           full == Full(Label(c, row))
           j == [k EXCEPT ![w].pc = IF full THEN "catch" ELSE "fetch"]
           y == [runs[c] EXCEPT ![row] = @ + 1]
<1>1. /\ a \in CallType /\ k \in Crew /\ runs[c] \in Tally /\ LoopOK(a, k, runs[c]) /\ k[w].pc = "fn"
      /\ Types /\ Separate /\ OwnedBehind /\ AllWritten
      /\ c \notin disturbed => Written(a, k, runs[c], cur_l, index)
  BY Zenon DEF RInv, Types, LoopsOK, Fn, SInv, AllWritten
<1>2. a.pc = "loop" /\ a.rows \in RowCounts /\ RowsOK(a.rows, a.current, a.lastException, k, runs[c])
  <2>1. a.pc = "loop"
    BY <1>1, Zenon DEF LoopOK
  <2> QED BY <1>1, <2>1 DEF LoopOK
<1>3. row \in 0 .. a.rows - 1 /\ a.rows \in Nat /\ a.rows <= MaxRows
  BY <1>1, <1>2, RowFacts, Zenon DEF RowsOK
<1>4. /\ j \in Crew /\ j[w].pc = (IF full THEN "catch" ELSE "fetch") /\ j[w].id = row
      /\ \A v \in Workers : v # w => j[v] = k[v]
  BY <1>1 DEF Crew, WorkerType
<1>5. y \in Tally /\ \A r \in 0 .. a.rows - 1 : r # row => y[r] = runs[c][r]
  <2>1. \A r \in 0 .. a.rows - 1 : r \in 0 .. MaxRows - 1
    BY <1>3, RowFacts
  <2>2. PICK t, i : t = runs[c] /\ i = row
    OBVIOUS
  <2>3. t \in [0 .. MaxRows - 1 -> Nat] /\ y = [t EXCEPT ![i] = t[i] + 1] /\ i \in 0 .. MaxRows - 1
    BY <1>1, <1>3, <2>1, <2>2 DEF Tally
  <2> HIDE DEF y, row
  <2>4. y \in Tally /\ \A r \in 0 .. MaxRows - 1 : r # i => y[r] = t[r]
    BY <2>3, SMT DEF Tally
  <2> QED BY <2>1, <2>2, <2>4
<1>6. StepTo(c, a, j, y) /\ UNCHANGED <<cur_l, owned, disturbed>> /\ SameDisturbed(c, a)
  BY DEF RInv, Types, Fn, StepTo, SameDisturbed
<1>7. a.pc # "idle" /\ a.pc # "store"
  BY <1>2
<1>8. \A v \in Workers : k[v].pc = "catch" => j[v] = k[v]
  BY <1>1, <1>4
<1>9. OwnedBehind'
  <2> HIDE DEF a, j, y
  <2> QED BY <1>1, <1>4, <1>5, <1>6, <1>7, SameOwned, Zenon
<1>10. Separate'
  <2> HIDE DEF j, y
  <2> QED BY <1>1, <1>4, <1>5, <1>6, <1>7, StayApart, Zenon
<1>11. ASSUME c \notin disturbed, NEW r \in 0 .. a.rows - 1, r # row, ~a.lastException, y[r] = 1
       PROVE  \/ index[Place(a, cur_l, r)] = <<a.n, r>>
              \/ \E v \in Workers : j[v].pc = "catch" /\ j[v].id = r
  <2>1. runs[c][r] = 1 /\ a.pc \in {"loop", "advance"}
    BY <1>2, <1>5, <1>11
  <2>2. index[Place(a, cur_l, r)] = <<a.n, r>> \/ \E v \in Workers : k[v].pc = "catch" /\ k[v].id = r
    BY <1>1, <1>11, <2>1, Zenon DEF Written
  <2> HIDE DEF a, j, k, y
  <2> QED BY <1>8, <2>2
<1>12. CASE full
  <2>1. UNCHANGED index
    BY <1>12, Zenon DEF Fn
  <2>2. j[w].pc = "catch" /\ j[w].id = row
    BY <1>4, <1>12
  <2> HIDE DEF j, y, row
  <2>3. c \notin disturbed => Written(a, j, y, cur_l, index)
    BY <1>11, <2>2, Zenon DEF Written
  <2>4. c \notin disturbed' => Written(a, j, y, cur_l', index')
    BY <1>6, <2>1, <2>3
  <2>5. AllWritten'
    BY <1>1, <1>4, <1>5, <1>6, <1>7, <2>1, <2>4, QuietS, Zenon
  <2> QED BY <1>9, <1>10, <2>5, Zenon DEF SInv
<1>13. CASE ~full
  <2>1. index' = [index EXCEPT ![Place(a, cur_l, row)] = <<a.n, row>>]
    BY <1>13, Zenon DEF Fn, Put, Label, Place
  <2>2. index = [l \in Labels |-> index[l]] /\ cur_l \in Nat /\ a.ids \in IdBases \cup {None}
    BY <1>1, Zenon DEF Types, CallType
  <2>3. \A r \in 0 .. a.rows - 1 : Place(a, cur_l, r) \in Labels
    <3>1. \A r \in 0 .. a.rows - 1 : r \in 0 .. MaxRows - 1
      BY <1>3, RowFacts
    <3>2. CASE a.ids = None
      BY <1>7, <3>1, <3>2, Room, Zenon DEF Place
    <3>3. CASE a.ids # None
      BY <1>2, <1>7, <2>2, <3>3, Room, Zenon DEF Place
    <3> QED BY <3>2, <3>3, Zenon
  <2>4. \A r \in 0 .. a.rows - 1 : r # row => Place(a, cur_l, r) # Place(a, cur_l, row)
    <3>1. PICK x \in {a.ids, cur_l} : (x = a.ids => a.ids # None \/ x = cur_l) /\ \A r : Place(a, cur_l, r) = x + r
      BY DEF Place
    <3>2. x \in Nat
      BY <2>2, <3>1, AddItemsAssumption
    <3> QED BY <1>3, <3>1, <3>2
  <2> HIDE DEF j, y, row, full
  <2>5. /\ index'[Place(a, cur_l, row)] = <<a.n, row>>
        /\ \A r \in 0 .. a.rows - 1 : r # row => index'[Place(a, cur_l, r)] = index[Place(a, cur_l, r)]
    BY <1>3, <2>1, <2>2, <2>3, <2>4
  <2>6. c \notin disturbed => Written(a, j, y, cur_l, index')
    BY <1>11, <2>5, Zenon DEF Written
  <2>7. c \notin disturbed' => Written(a, j, y, cur_l', index')
    BY <1>6, <2>6
  <2>8. ASSUME NEW d \in Callers, d # c, d \notin disturbed', call[d].pc # "idle"
        PROVE  \A r \in 0 .. call[d].rows - 1 :
                  index'[Place(call[d], cur_l', r)] = index[Place(call[d], cur_l, r)]
    <3>0. Apart(call[d], a)
      BY <1>1, <1>6, <1>7, <2>8, Zenon DEF Separate
    <3>1. /\ a.ids # None /\ call[d].ids # None
          /\ IdRange(a.ids, a.rows) \cap IdRange(call[d].ids, call[d].rows) = {}
      BY <3>0 DEF Apart
    <3>2. a.ids \in IdBases /\ Place(a, cur_l, row) = a.ids + row
      BY <2>2, <3>1 DEF Place
    <3>3. index' = [index EXCEPT ![a.ids + row] = <<a.n, row>>]
      BY <2>1, <3>2
    <3> HIDE DEF a
    <3> QED BY <1>2, <1>3, <2>8, <3>1, <3>2, <3>3, PutApart, Zenon
  <2>9. AllWritten'
    BY <1>1, <1>4, <1>5, <1>6, <2>7, <2>8, StayWritten, Zenon
  <2> QED BY <1>9, <1>10, <2>9, Zenon DEF SInv
<1> QED BY <1>12, <1>13, Zenon

\* A call that begins is apart from those in progress, or disturbs those it is not.
LEMMA BeginS ==
  ASSUME RInv, SInv, NEW c \in Callers, NEW rows \in RowCounts,
         NEW ids \in IdBases \cup {None}, Begin(c, rows, ids)
  PROVE  SInv'
<1> DEFINE threads == IF rows <= FewRows THEN 1 ELSE num_threads
           first == IF ids # None THEN ids ELSE cur_l
           start == IF ep_added THEN 0 ELSE 1
           b == [NoCall EXCEPT !.pc = "loop", !.n = calls', !.rows = rows, !.ids = ids,
                               !.threads = threads, !.current = start]
           j == [w \in Workers |-> IF w <= threads THEN [pc |-> "fetch", id |-> None] ELSE NoWorker]
           y == [NoRuns EXCEPT ![0] = start]
<1>1. /\ Types /\ Separate /\ OwnedBehind /\ AllWritten /\ calls \in Nat /\ cur_l \in Nat
      /\ index = [l \in Labels |-> index[l]]
  BY Zenon DEF RInv, Types, SInv
<1>2. call[c].pc = "idle" /\ calls < MaxCalls /\ calls' = calls + 1
  BY Zenon DEF Begin
<1>3. CASE ~ep_added /\ Full(first)
  <2>1. UNCHANGED <<index, cur_l, call, wk, runs, disturbed, owned>>
    BY <1>3, Zenon DEF Begin
  <2> QED BY <1>1, <2>1 DEF SInv, Separate, OwnedBehind, AllWritten
<1>4. CASE ~(~ep_added /\ Full(first))
  <2>1. threads \in Nat /\ threads >= 1 /\ start \in Nat /\ calls' \in Nat
    BY <1>1, <1>2, AddItemsAssumption
  <2>2. rows \in Nat /\ rows >= 1 /\ rows <= MaxRows /\ 0 \in 0 .. MaxRows - 1 /\ 0 \in 0 .. rows - 1
    BY RowFacts
  <2>3. /\ b \in CallType /\ b.pc = "loop" /\ b.rows = rows /\ b.ids = ids /\ b.n = calls'
    <3> HIDE DEF threads, start
    <3> QED BY <2>1, <2>2, Zenon DEF CallType, NoCall
  <2>4. j \in Crew
    <3> HIDE DEF threads
    <3> QED BY <2>1, WorkerFacts DEF Crew, WorkerType, NoWorker
  <2>5. y \in Tally /\ y[0] = start /\ \A r \in 0 .. rows - 1 : r # 0 => y[r] = 0
    <3> HIDE DEF start
    <3>1. \A r \in 0 .. rows - 1 : r \in 0 .. MaxRows - 1
      BY <2>2, RowFacts
    <3> QED BY <2>1, <2>2, <3>1 DEF Tally, NoRuns
  <2>6. StepTo(c, b, j, y) /\ UNCHANGED <<cur_l, owned>>
    BY <1>4 DEF Begin, StepTo
  <2>7. b.pc # "idle" /\ b.pc # "store"
    BY <2>3
  <2>0. disturbed' = disturbed \cup Against(rows, ids) \cup {d \in {c} : Against(rows, ids) # {}}
    BY <1>4, Zenon DEF Begin
  <2>13. \A d \in Callers : d \notin disturbed' => d \notin disturbed
    BY <2>0
  <2>8. ASSUME NEW d \in Callers, call[d].pc # "idle", d \notin disturbed' \/ c \notin disturbed'
        PROVE  /\ ids # None /\ call[d].ids # None
               /\ IdRange(ids, rows) \cap IdRange(call[d].ids, call[d].rows) = {}
    <3>1. d \notin Against(rows, ids)
      BY <2>0, <2>8
    <3> QED BY <2>8, <3>1, Zenon DEF Against
  <2> HIDE DEF b, j, y
  <2>9. OwnedBehind'
    BY <1>1, <2>3, <2>4, <2>5, <2>6, <2>7, SameOwned, Zenon
  <2>10. Separate'
    <3>1. call'[c] = b /\ \A d \in Callers : d # c => call'[d] = call[d]
      BY <1>1, <2>3, <2>4, <2>5, <2>6, StepTypes, SMT
    <3>2. \A d \in Callers : call[d].pc # "idle" /\ (d \notin disturbed' \/ c \notin disturbed') =>
            Apart(b, call[d]) /\ Apart(call[d], b)
      BY <2>3, <2>8 DEF Apart
    <3>3. \A d, e \in Callers :
            d # e /\ d \notin disturbed' /\ call'[d].pc # "idle" /\ call'[e].pc # "idle" =>
              Apart(call'[d], call'[e])
      BY <1>1, <2>13, <3>1, <3>2 DEF Separate
    <3> QED BY <3>3, Zenon DEF Separate
  <2>11. CASE ep_added
    <3>1. UNCHANGED <<index, cur_l>> /\ start = 0
      BY <1>4, <2>11, Zenon DEF Begin
    <3>2. \A r \in 0 .. rows - 1 : y[r] # 1
      BY <2>5, <3>1
    <3>3. Written(b, j, y, cur_l', index')
      BY <2>3, <3>2, Zenon DEF Written
    <3>4. \A d \in Callers : \A r \in 0 .. call[d].rows - 1 :
            index'[Place(call[d], cur_l', r)] = index[Place(call[d], cur_l, r)]
      BY <3>1
    <3>5. AllWritten'
      BY <1>1, <2>13, <2>3, <2>4, <2>5, <2>6, <3>3, <3>4, StayWritten, Zenon
    <3> QED BY <2>9, <2>10, <3>5, Zenon DEF SInv
  <2>12. CASE ~ep_added
    <3>1. index' = [index EXCEPT ![first] = <<calls', 0>>]
      BY <1>4, <2>12, Zenon DEF Begin, Put
    <3>2. first \in Nat /\ first = first + 0 /\ first \in Labels
      <4>1. CASE ids = None
        <5>1. cur_l + 0 \in Labels
          BY <1>2, <2>2, Room, Zenon
        <5> QED BY <1>1, <4>1, <5>1
      <4>2. CASE ids # None
        <5>1. ids + 0 \in Labels /\ ids \in Nat
          BY <1>2, <2>2, <4>2, Room, AddItemsAssumption, Zenon
        <5> QED BY <4>2, <5>1
      <4> QED BY <4>1, <4>2, Zenon
    <3>3. index'[Place(b, cur_l, 0)] = <<b.n, 0>>
      <4>1. Place(b, cur_l, 0) = first
        BY <2>3, <3>2 DEF Place
      <4> HIDE DEF first
      <4> QED BY <1>1, <2>3, <3>1, <3>2, <4>1
    <3>4. \A r \in 0 .. rows - 1 : y[r] = 1 => r = 0
      BY <2>5
    <3>5. Written(b, j, y, cur_l, index')
      BY <2>3, <3>3, <3>4 DEF Written
    <3>6. Written(b, j, y, cur_l', index')
      BY <2>6, <3>5
    <3>7. ASSUME NEW d \in Callers, d # c, d \notin disturbed', call[d].pc # "idle"
          PROVE  \A r \in 0 .. call[d].rows - 1 :
                    index'[Place(call[d], cur_l', r)] = index[Place(call[d], cur_l, r)]
      <4>1. /\ ids # None /\ call[d].ids # None
            /\ IdRange(ids, rows) \cap IdRange(call[d].ids, call[d].rows) = {}
        BY <2>8, <3>7, Zenon
      <4>2. ids \in IdBases /\ index' = [index EXCEPT ![ids + 0] = <<calls', 0>>]
        BY <3>1, <3>2, <4>1, Zenon
      <4> QED BY <2>2, <3>7, <4>1, <4>2, PutApart, Zenon
    <3>8. AllWritten'
      BY <1>1, <2>13, <2>3, <2>4, <2>5, <2>6, <3>6, <3>7, StayWritten, Zenon
    <3> QED BY <2>9, <2>10, <3>8, Zenon DEF SInv
  <2> QED BY <2>11, <2>12, Zenon
<1> QED BY <1>3, <1>4, Zenon

\* SInv holds at the beginning.
LEMMA InitS == Init => SInv
<1> SUFFICES ASSUME Init PROVE SInv
  OBVIOUS
<1>1. \A c \in Callers : call[c].pc = "idle"
  BY DEF Init, NoCall
<1> QED BY <1>1 DEF Init, SInv, Separate, OwnedBehind, AllWritten, Written

\* SInv is kept by every step.
LEMMA NextS == RInv /\ SInv /\ [Next]_vars => SInv'
<1> SUFFICES ASSUME RInv, SInv, [Next]_vars PROVE SInv'
  OBVIOUS
<1>1. CASE UNCHANGED vars
  BY <1>1 DEF vars, SInv, Separate, OwnedBehind, AllWritten
<1>2. ASSUME NEW c \in Callers, NEW rows \in RowCounts, NEW ids \in IdBases \cup {None}, Begin(c, rows, ids)
      PROVE  SInv'
  BY <1>2, BeginS, Zenon
<1>3. ASSUME NEW c \in Callers, Join(c) PROVE SInv'
  BY <1>3, JoinS, Zenon
<1>4. ASSUME NEW c \in Callers, ReadCur(c) PROVE SInv'
  BY <1>4, ReadCurS, Zenon
<1>5. ASSUME NEW c \in Callers, Advance(c) PROVE SInv'
  BY <1>5, AdvanceS, Zenon
<1>6. ASSUME NEW c \in Callers, NEW w \in Workers, FetchAdd(c, w) PROVE SInv'
  BY <1>6, FetchAddS, Zenon
<1>7. ASSUME NEW c \in Callers, NEW w \in Workers, Fn(c, w) PROVE SInv'
  BY <1>7, FnS, Zenon
<1>8. ASSUME NEW c \in Callers, NEW w \in Workers, Catch(c, w) PROVE SInv'
  BY <1>8, CatchS, Zenon
<1> QED BY <1>1, <1>2, <1>3, <1>4, <1>5, <1>6, <1>7, <1>8, Zenon DEF Next, Step

\* SInv always holds.
LEMMA SAlways == Spec => [](RInv /\ SInv)
<1>1. RInv /\ SInv /\ [Next]_vars => SInv'
  BY NextS, Zenon
<1> QED BY <1>1, InitR, NextR, InitS, PTL DEF Spec

\* A call that is about to return normally has left each of its rows in the index, under
\* the id passed or under the consecutive labels from cur_l, unless it ran beside a call
\* that may share one of its labels: one of the two had no ids, or they had one in common.
THEOREM RowsAreStored == Spec => []RowsStored
<1>1. RInv /\ SInv => RowsStored
  <2> SUFFICES ASSUME RInv, SInv, NEW c \in Callers, c \notin disturbed, call[c].pc = "advance",
                      NEW r \in 0 .. call[c].rows - 1
               PROVE  index[Label(c, r)] = <<call[c].n, r>>
    BY Zenon DEF RowsStored
  <2>1. runs[c][r] = 1
    BY RowsRun, SMT
  <2>2. call[c].pc # "idle" /\ call[c].pc # "loop" /\ call[c].pc \in {"loop", "advance"}
    OBVIOUS
  <2>3. /\ LoopOK(call[c], wk[c], runs[c]) /\ Written(call[c], wk[c], runs[c], cur_l, index)
    BY Zenon DEF RInv, LoopsOK, SInv, AllWritten
  <2>4. /\ ~call[c].lastException /\ call[c].rows \in RowCounts
        /\ \A w \in Workers : wk[c][w].pc = "done"
    BY <2>2, <2>3, Zenon DEF LoopOK
  <2>5. \A w \in Workers : wk[c][w].pc # "catch"
    BY <2>4
  <2>6. index[Place(call[c], cur_l, r)] = <<call[c].n, r>>
    BY <2>1, <2>2, <2>3, <2>4, <2>5, Zenon DEF Written
  <2> QED BY <2>6, Zenon DEF Place, Label
<1> QED BY <1>1, SAlways, PTL

\* A call without ids never writes to a label that an undisturbed one returned with, even
\* if later calls overlap and lose updates of cur_l: it is past all those labels whenever
\* it is read.
THEOREM ImplicitLabelsFresh == Spec => LabelsNotReused
<1> DEFINE Fresh == \A l \in owned : index'[l] # index[l] =>
                       \E c \in Callers : call'[c].n = index'[l][1] /\ call'[c].ids # None
<1>1. RInv /\ SInv /\ [Next]_vars => [Fresh]_vars
  <2> SUFFICES ASSUME RInv, SInv, Next, NEW l \in owned, index'[l] # index[l]
               PROVE  \E c \in Callers : call'[c].n = index'[l][1] /\ call'[c].ids # None
    OBVIOUS
  <2>1. /\ index = [m \in Labels |-> index[m]] /\ cur_l \in Nat /\ l \in Nat /\ l < cur_l
        /\ call \in [Callers -> CallType]
    BY DEF RInv, Types, SInv, OwnedBehind
  <2>0. l \in Labels
    BY <2>1, UsedLabels, Zenon
  <2>2. ASSUME NEW c \in Callers, NEW w \in Workers, Fn(c, w)
        PROVE  call'[c].n = index'[l][1] /\ call'[c].ids # None
    <3> DEFINE row == wk[c][w].id
    <3>1. call' = call /\ (index' = index \/ index' = [index EXCEPT ![Label(c, row)] = <<call[c].n, row>>])
      BY <2>2, Zenon DEF Fn, Put
    <3>2. row \in Nat
      <4>1. LoopOK(call[c], wk[c], runs[c]) /\ wk[c][w].pc = "fn" /\ call[c] \in CallType
        BY <2>2, Zenon DEF RInv, Types, LoopsOK, Fn
      <4>2. call[c].pc = "loop"
        BY <4>1, Zenon DEF LoopOK
      <4>3. row \in 0 .. call[c].rows - 1
        BY <4>1, <4>2 DEF LoopOK, RowsOK
      <4> QED BY <4>3
    <3> HIDE DEF row
    <3>3. l = Label(c, row) /\ index'[l] = <<call[c].n, row>>
      BY <2>0, <2>1, <3>1
    <3>4. call[c].ids # None
      BY <2>1, <3>2, <3>3 DEF Label
    <3> QED BY <3>1, <3>3, <3>4
  <2>3. ASSUME NEW c \in Callers, NEW rows \in RowCounts, NEW ids \in IdBases \cup {None}, Begin(c, rows, ids)
        PROVE  call'[c].n = index'[l][1] /\ call'[c].ids # None
    <3> DEFINE first == IF ids # None THEN ids ELSE cur_l
    <3>1. index' = [index EXCEPT ![first] = <<calls', 0>>] /\ ~(~ep_added /\ Full(first))
      BY <2>3, Zenon DEF Begin, Put
    <3>2. call'[c].n = calls' /\ call'[c].ids = ids
      <4> DEFINE threads == IF rows <= FewRows THEN 1 ELSE num_threads
                 start == IF ep_added THEN 0 ELSE 1
      <4>1. call' = [call EXCEPT ![c] = [NoCall EXCEPT !.pc = "loop", !.n = calls', !.rows = rows,
                                         !.ids = ids, !.threads = threads, !.current = start]]
        BY <2>3, <3>1 DEF Begin
      <4> HIDE DEF threads, start
      <4> QED BY <2>1, <4>1 DEF NoCall
    <3>3. l = first /\ index'[l] = <<calls', 0>>
      <4> HIDE DEF first
      <4> QED BY <2>0, <2>1, <3>1
    <3>4. ids # None
      BY <2>1, <3>3
    <3> QED BY <3>2, <3>3, <3>4
  <2>4. ASSUME NEW c \in Callers, \/ Join(c) \/ ReadCur(c) \/ Advance(c)
                                  \/ \E w \in Workers : FetchAdd(c, w) \/ Catch(c, w)
        PROVE  FALSE
    BY <2>4, Zenon DEF Join, ReadCur, Advance, FetchAdd, Catch
  <2> QED BY <2>2, <2>3, <2>4, Zenon DEF Next, Step
<1>2. Spec => [][Fresh]_vars
  <2> HIDE DEF Fresh
  <2>1. Spec => [](RInv /\ SInv)
    BY SAlways, Zenon
  <2> QED BY <1>1, <2>1, PTL DEF Spec
<1> QED BY <1>2 DEF LabelsNotReused
=============================================================================

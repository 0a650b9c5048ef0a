------------------------------ MODULE AddItems ------------------------------
(***************************************************************************)
(* add_items of the Python bindings (bindings.cpp) and the ParallelFor it  *)
(* distributes rows with.  A call runs under the interpreter lock up to    *)
(* and including its first addition to a new index; the loop over the      *)
(* rows, the reads of cur_l in it and the final advance of cur_l run       *)
(* without it.  Below, addPoint is one step: it overwrites a label that is *)
(* in the index, adds a new one, or throws when the index is full.         *)
(***************************************************************************)
EXTENDS Integers, FiniteSets

CONSTANTS
    Callers,        \* threads of the interpreter
    num_threads,
    FewRows,        \* num_threads * 4 in the code: calls with no more rows use one thread
    RowCounts,      \* the numbers of rows callers pass
    IdBases,        \* callers that pass ids pass b, b + 1, ...
    MaxElements,
    MaxCalls,       \* bound: the number of calls
    MaxLabel,       \* bound: labels are 0 .. MaxLabel
    None

ASSUME AddItemsAssumption ==
    /\ RowCounts \subseteq Nat \ {0} /\ \E n \in RowCounts : \A m \in RowCounts : m <= n
    /\ IdBases \subseteq Nat /\ None \notin Nat /\ IsFiniteSet(Callers)
    /\ MaxElements \in Nat /\ MaxCalls \in Nat /\ MaxLabel \in Nat
    /\ num_threads \in Nat \ {0} /\ FewRows \in Nat
    \* The bound on labels cuts none off.
    /\ \A n \in RowCounts : MaxCalls * n <= MaxLabel + 1
    /\ \A b \in IdBases, n \in RowCounts : b + n <= MaxLabel + 1

VARIABLES
    index,      \* which call's row each label holds
    cur_l, ep_added,
    calls,      \* the number of calls so far
    call,       \* the calls' local state
    wk,         \* the workers of each call's ParallelFor
    runs,       \* history: how often fn ran for each row of a call
    disturbed,  \* history: running calls that may share labels with another
    owned       \* history: the labels that other calls without ids returned with

vars == <<index, cur_l, ep_added, calls, call, wk, runs, disturbed, owned>>

Labels == 0 .. MaxLabel
Workers == 1 .. num_threads
MaxRows == CHOOSE n \in RowCounts : \A m \in RowCounts : m <= n
NoCall == [pc |-> "idle", n |-> 0, rows |-> 0, ids |-> None, threads |-> 0,
           current |-> 0, lastException |-> FALSE, read |-> 0]
NoWorker == [pc |-> "done", id |-> None]
NoRuns == [r \in 0 .. MaxRows - 1 |-> 0]
Count == Cardinality({l \in Labels : index[l] # None})

Init ==
    /\ index = [l \in Labels |-> None]
    /\ cur_l = 0 /\ ep_added = FALSE /\ calls = 0
    /\ call = [c \in Callers |-> NoCall]
    /\ wk = [c \in Callers |-> [w \in Workers |-> NoWorker]]
    /\ runs = [c \in Callers |-> NoRuns]
    /\ disturbed = {} /\ owned = {}

-----------------------------------------------------------------------------
(* The call.                                                               *)

Label(c, row) == (IF call[c].ids # None THEN call[c].ids ELSE cur_l) + row
IdRange(base, rows) == base .. base + rows - 1

\* The running calls that a new one may share labels with: all, when it takes its
\* labels from cur_l, else those that do and those with an id in common.
Against(rows, ids) ==
    {d \in Callers : /\ call[d].pc # "idle"
                     /\ \/ ids = None \/ call[d].ids = None
                        \/ IdRange(ids, rows) \cap IdRange(call[d].ids, call[d].rows) # {}}

\* addPoint puts a row of call n at label l, and throws when it is full.
Full(l) == index[l] = None /\ Count >= MaxElements
Put(l, n, row) == index' = [index EXCEPT ![l] = <<n, row>>]

\* Up to the loop: few rows are left to one thread, the first element of a new
\* index is added by the caller itself.
Begin(c, rows, ids) ==
    LET threads == IF rows <= FewRows THEN 1 ELSE num_threads
        first == IF ids # None THEN ids ELSE cur_l
        start == IF ep_added THEN 0 ELSE 1
    IN  /\ call[c].pc = "idle" /\ calls < MaxCalls
        /\ calls' = calls + 1
        /\ IF ~ep_added /\ Full(first)
           THEN UNCHANGED <<index, cur_l, ep_added, call, wk, runs, disturbed, owned>>
           ELSE /\ IF ep_added THEN UNCHANGED index ELSE Put(first, calls', 0)
                /\ ep_added' = TRUE
                /\ call' = [call EXCEPT ![c] =
                      [NoCall EXCEPT !.pc = "loop", !.n = calls', !.rows = rows,
                                     !.ids = ids, !.threads = threads, !.current = start]]
                /\ wk' = [wk EXCEPT ![c] = [w \in Workers |->
                      IF w <= threads THEN [pc |-> "fetch", id |-> None] ELSE NoWorker]]
                /\ runs' = [runs EXCEPT ![c] = [NoRuns EXCEPT ![0] = start]]
                /\ disturbed' = disturbed \cup Against(rows, ids)
                      \cup {d \in {c} : Against(rows, ids) # {}}
                /\ UNCHANGED <<cur_l, owned>>

Return(c) ==
    /\ call' = [call EXCEPT ![c] = NoCall]
    /\ runs' = [runs EXCEPT ![c] = NoRuns]
    /\ disturbed' = disturbed \ {c}

\* All workers have been joined: the call rethrows, or goes on to cur_l.
Join(c) ==
    /\ call[c].pc = "loop" /\ \A w \in Workers : wk[c][w].pc = "done"
    /\ IF call[c].lastException THEN Return(c)
       ELSE call' = [call EXCEPT ![c].pc = "advance"] /\ UNCHANGED <<runs, disturbed>>
    /\ UNCHANGED <<index, cur_l, ep_added, calls, wk, owned>>

\* Mutant form: advanced by one row too few.
NextLabelShort(c) == call[c].read + call[c].rows - 1

NextLabel(c) == call[c].read + call[c].rows

\* cur_l += rows: a load and a store that other calls may come between.
ReadCur(c) ==
    /\ call[c].pc = "advance"
    /\ call' = [call EXCEPT ![c].pc = "store", ![c].read = cur_l]
    /\ UNCHANGED <<index, cur_l, ep_added, calls, wk, runs, disturbed, owned>>

Advance(c) ==
    /\ call[c].pc = "store"
    /\ cur_l' = NextLabel(c)
    /\ Return(c)
    /\ owned' = IF call[c].ids = None /\ c \notin disturbed
                THEN owned \cup IdRange(call[c].read, call[c].rows) ELSE owned
    /\ UNCHANGED <<index, ep_added, calls, wk>>

-----------------------------------------------------------------------------
(* ParallelFor.                                                            *)

\* Mutant form: the counter is not advanced past the last row.
FetchedLast(c) == IF call[c].current = call[c].rows - 1 THEN call[c].current
                  ELSE call[c].current + 1

Fetched(c) == call[c].current + 1

\* Mutant form: a worker that gets no row tries again.
FetchAddNoBreak(c, w) ==
    /\ wk[c][w].pc = "fetch" /\ call[c].current < call[c].rows
    /\ call' = [call EXCEPT ![c].current = Fetched(c)]
    /\ wk' = [wk EXCEPT ![c][w] = [pc |-> "fn", id |-> call[c].current]]
    /\ UNCHANGED <<index, cur_l, ep_added, calls, runs, disturbed, owned>>

\* current.fetch_add(1); a worker that gets no row is done.
FetchAdd(c, w) ==
    /\ wk[c][w].pc = "fetch"
    /\ call' = [call EXCEPT ![c].current = Fetched(c)]
    /\ wk' = [wk EXCEPT ![c][w] =
                 IF call[c].current >= call[c].rows THEN NoWorker
                 ELSE [pc |-> "fn", id |-> call[c].current]]
    /\ UNCHANGED <<index, cur_l, ep_added, calls, runs, disturbed, owned>>

\* fn for one row: the label and addPoint.
Fn(c, w) ==
    LET row == wk[c][w].id
        l == Label(c, row)
    IN  /\ wk[c][w].pc = "fn"
        /\ runs' = [runs EXCEPT ![c][row] = @ + 1]
        /\ IF Full(l)
           THEN wk' = [wk EXCEPT ![c][w].pc = "catch"] /\ UNCHANGED index
           ELSE /\ Put(l, call[c].n, row)
                /\ wk' = [wk EXCEPT ![c][w].pc = "fetch"]
        /\ UNCHANGED <<cur_l, ep_added, calls, call, disturbed, owned>>

\* Mutant form: the exception is not kept.
StopForget(c) == call' = [call EXCEPT ![c].current = call[c].rows]

\* Under lastExceptMutex: the exception is kept, the other workers are stopped.
Stop(c) == call' = [call EXCEPT ![c].lastException = TRUE, ![c].current = call[c].rows]

Catch(c, w) ==
    /\ wk[c][w].pc = "catch"
    /\ Stop(c)
    /\ wk' = [wk EXCEPT ![c][w] = NoWorker]
    /\ UNCHANGED <<index, cur_l, ep_added, calls, runs, disturbed, owned>>

Step(c) ==
    \/ Join(c) \/ ReadCur(c) \/ Advance(c)
    \/ \E w \in Workers : FetchAdd(c, w) \/ Fn(c, w) \/ Catch(c, w)

Next ==
    \E c \in Callers :
        \/ \E rows \in RowCounts, ids \in IdBases \cup {None} : Begin(c, rows, ids)
        \/ Step(c)

\* Some thread of a call that can run does run.
Fairness == \A c \in Callers : WF_vars(Step(c))

Spec == Init /\ [][Next]_vars /\ Fairness

-----------------------------------------------------------------------------
(* Properties.                                                             *)

\* fn runs at most once for a row, and exactly once for each row of a call
\* that has not thrown (ParallelFor's shared counter, reset by an exception).
EveryRowOnce ==
    \A c \in Callers : call[c].pc # "idle" =>
        \A r \in 0 .. call[c].rows - 1 :
            /\ runs[c][r] <= 1
            /\ call[c].pc \in {"advance", "store"} => runs[c][r] = 1

\* When a call is about to return normally, the index holds every one of its
\* rows, each under its own label: the ids passed, or the consecutive labels
\* from cur_l.  Calls that ran beside one that may share their labels are
\* excepted: add_items lets them overwrite each other's rows.
RowsStored ==
    \A c \in Callers \ disturbed : call[c].pc = "advance" =>
        \A r \in 0 .. call[c].rows - 1 : index[Label(c, r)] = <<call[c].n, r>>

\* A call without ids never writes to a label that an undisturbed call without
\* ids returned with: whatever calls overlap later and lose each other's
\* updates, cur_l never falls back to such a label.
LabelsNotReused ==
    [][\A l \in owned : index'[l] # index[l] =>
          \E c \in Callers : call'[c].n = index'[l][1] /\ call'[c].ids # None]_vars

\* Every call returns or throws: no worker waits for another, and an exception
\* stops the rest.
CallsReturn == \A c \in Callers : call[c].pc # "idle" ~> call[c].pc = "idle"

=============================================================================

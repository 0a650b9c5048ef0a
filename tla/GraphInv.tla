------------------------------ MODULE GraphInv ------------------------------
(***************************************************************************)
(* What the proofs about GraphInsert keep true: EInv of the entry point    *)
(* and the top level, GInv of the lists, the locks and the calls, and, for *)
(* insertions alone, DInv and CInv of what is linked to what.              *)
(***************************************************************************)
EXTENDS GraphInsert

\* An insertion whose search ends has a candidate to connect to, so that
\* selectedNeighbors is not empty when its last element is taken.  The code does
\* not ensure this when points are marked deleted: the theorems assume it, except
\* where there are no marks.
LiveCandidate ==
    \A t \in Threads : SearchDone(t) /\ ~th[t].upd => th[t].top # {} \/ th[t].epDeleted
-----------------------------------------------------------------------------
(* EInv: the entry point and the top level *)

\* A record with the fields of a call.
HasFields(r) ==
    r = [pc |-> r.pc, upd |-> r.upd, cur |-> r.cur, max |-> r.max, ep |-> r.ep,
         epDeleted |-> r.epDeleted, obj |-> r.obj, lev |-> r.lev, seen |-> r.seen,
         cand |-> r.cand, top |-> r.top, sel |-> r.sel]

Shape ==
    /\ th = [t \in Threads |-> th[t]]
    /\ \A t \in Threads : HasFields(th[t]) /\ th[t].upd \in BOOLEAN
    /\ level \in [Nodes -> Levels \cup {-1}]
    /\ maxlevel \in Levels \cup {-1}
    /\ enterpoint \in Nodes \cup {NoNode}
    /\ enterpoint # NoNode => level[enterpoint] \in Levels

\* The places of a call that has read maxlevel_.
Connecting ==
    {"enterpoint", "copy", "descend", "epDeleted", "start", "search", "link", "finish",
     "oneHop", "twoHop", "rewire", "repair"}

\* The node of an insertion has its level from the start.
Levelled ==
    \A t \in Threads :
        (th[t].upd = FALSE /\ th[t].pc \in Connecting \cup {"global", "raise"}) =>
            th[t].cur \in Nodes /\ level[th[t].cur] \in Levels

\* An insertion above the top level holds the global lock, and maxlevel_ is what
\* it was when read.
HoldsGlobal ==
    \A t \in Threads :
        th[t].upd = FALSE /\ th[t].pc \in Connecting =>
            /\ th[t].max \in Levels \cup {-1} /\ th[t].max <= maxlevel
            /\ level[th[t].cur] > th[t].max => global = t /\ th[t].max = maxlevel

\* Between the two writes the entry point is the new one already.
Raising ==
    \A t \in Threads : th[t].pc = "raise" =>
        /\ th[t].upd = FALSE /\ global = t
        /\ enterpoint = th[t].cur /\ level[th[t].cur] > maxlevel

Settled ==
    (\A t \in Threads : th[t].pc # "raise") =>
        /\ enterpoint = NoNode => maxlevel = -1
        /\ enterpoint # NoNode => level[enterpoint] = maxlevel

EInv == Shape /\ Levelled /\ HoldsGlobal /\ Raising /\ Settled

\* A call with record c goes on, with record r, for the same node.
Carries(c, r) == HasFields(r) /\ r.upd = c.upd /\ r.cur = c.cur /\ r.max = c.max

\* Only thread t moves.
Only(t) ==
    /\ th' = [u \in Threads |-> th'[u]]
    /\ \A u \in Threads : u # t => th'[u] = th[u]
    /\ HasFields(th'[t]) /\ th'[t].upd \in BOOLEAN
-----------------------------------------------------------------------------
(* GInv: the lists, the locks and the calls *)

\* The calls that insert, that update, and the places where they are in neither.
Inserting(c) == c.upd = FALSE /\ c.pc \in Connecting \cup {"global", "raise"}
Updating(c)  == c.upd = TRUE /\ c.pc \in Connecting

\* The bags of the lists have finitely many members.
FiniteBag(b) == IsABag(b) /\ IsFiniteSet(DOMAIN b)

\* What a list is: a bag that fits its memory, of other elements of its level.
ListOK(n, l, b) ==
    /\ FiniteBag(b) /\ BagCardinality(b) <= Mcurmax(l)
    /\ \A m \in BagToSet(b) : m \in Nodes /\ m # n /\ level[m] >= l /\ level[n] >= l

Lists ==
    /\ links = [n \in Nodes |-> [l \in Levels |-> links[n][l]]]
    /\ \A n \in Nodes, l \in Levels : ListOK(n, l, links[n][l])

\* Node locks are held by the threads that insert the nodes, and only by them.
Locks ==
    /\ link_list_locks \in [Nodes -> Threads \cup {NoThread}]
    /\ global \in Threads \cup {NoThread}
    /\ \A t \in Threads : Inserting(th[t]) => link_list_locks[th[t].cur] = t
    /\ \A t \in Threads, n \in Nodes :
         link_list_locks[n] = t => Inserting(th[t]) /\ th[t].cur = n

\* A thread is idle, inserts a new element, or updates a finished live one.
RoleOK(c) ==
    \/ c.pc = "idle" /\ c.cur = NoNode /\ c.max = -1
    \/ Inserting(c) /\ c.cur \in Used /\ c.pc \notin {"oneHop", "twoHop", "rewire", "repair"}
    \/ Updating(c) /\ c.cur \in Finished \ marked /\ c.pc \notin {"copy", "epDeleted"}
       /\ c.max \in Levels /\ level[c.cur] <= c.max

\* The maxlevel_ a call has read, and the entry point it has read after it.
ReadOK(c) ==
    /\ c.max \in Levels \cup {-1} /\ c.max <= maxlevel
    /\ c.pc \in Connecting \ {"enterpoint", "copy", "finish"} =>
         c.max \in Levels /\ c.ep \in Nodes /\ level[c.ep] >= c.max

\* Where a call is: the levels it reads exist.
PlaceOK(c) ==
    /\ c.pc = "copy" => c.max \in Levels /\ c.obj \in Nodes /\ level[c.obj] >= c.max
    /\ c.pc = "descend" =>
         /\ c.lev \in Levels /\ level[c.cur] < c.lev
         /\ c.obj \in Nodes /\ level[c.obj] >= c.lev
    /\ c.pc = "epDeleted" =>
         c.obj \in Nodes /\ level[c.obj] >= Minimum(level[c.cur], c.max)
    /\ c.pc \in {"start", "search", "link"} =>
         /\ c.lev \in Levels /\ c.lev <= level[c.cur] /\ c.lev <= c.max
         /\ c.obj \in Nodes /\ level[c.obj] >= c.lev
    /\ c.pc \in {"oneHop", "twoHop", "rewire"} => c.lev \in Levels /\ c.lev <= level[c.cur]

\* What a search has collected is there on its level; what stays in top has been
\* expanded, under its lock, and so is inserted completely.
SetsOK(c) ==
    /\ c.seen \cup c.cand \cup c.top \subseteq Used
    /\ c.pc \in {"search", "twoHop", "rewire"} =>
         \A n \in c.seen \cup c.cand \cup c.top : level[n] >= c.lev
    /\ c.pc = "search" => c.top \ c.cand \subseteq Finished
    /\ c.pc = "search" /\ Markable = {} => c.top # {}
    /\ ~c.upd /\ c.pc \in {"start", "search", "link"} => (c.epDeleted => c.ep \in Finished)

\* The neighbours still to be linked are finished, and not the node itself.
SelOK(c) ==
    c.pc = "link" =>
        /\ FiniteBag(c.sel)
        /\ BagToSet(c.sel) \subseteq Finished \ {c.cur}
        /\ \A n \in BagToSet(c.sel) : level[n] >= c.lev

\* The levels of a new element that the call has yet to write.
Ahead(c) ==
    {l \in Levels : \/ c.pc \in {"global", "enterpoint", "copy", "descend", "epDeleted"}
                    \/ c.pc \in {"start", "search"} /\ l <= c.lev
                    \/ c.pc = "link" /\ l < c.lev}

Blank(c) == Inserting(c) => \A l \in Ahead(c) : links[c.cur][l] = EmptyBag

CallOK(c) == RoleOK(c) /\ ReadOK(c) /\ PlaceOK(c) /\ SetsOK(c) /\ SelOK(c) /\ Blank(c)

\* The entry point is finished, or being raised; what lies above maxlevel_ is still
\* being inserted; only finished elements are marked.
Tops ==
    /\ enterpoint # NoNode /\ (\A t \in Threads : th[t].pc # "raise") => enterpoint \in Finished
    /\ \A n \in Nodes : level[n] > maxlevel =>
         \E t \in Threads : Inserting(th[t]) /\ th[t].cur = n
    /\ marked \subseteq Finished /\ marked \subseteq Markable

GInv == Lists /\ Locks /\ Tops /\ \A t \in Threads : CallOK(th[t])

\* What the others do, a call does not notice: levels stay, finished elements stay
\* finished, maxlevel_ rises, and nobody else writes the lists of a new element.
Undisturbed(c) ==
    /\ \A n \in Nodes : level[n] >= 0 => level'[n] = level[n]
    /\ Finished \subseteq Finished'
    /\ maxlevel' >= maxlevel
    /\ Updating(c) => c.cur \notin marked'
    /\ Inserting(c) => links'[c.cur] = links[c.cur]

\* Thread t moves on to record r.
Moves(t, r) == th'[t] = r /\ \A u \in Threads : u # t => th'[u] = th[u]

\* A call that goes on with what it has read.
Follows(c, r) ==
    /\ c.pc \in Connecting \ {"enterpoint", "copy", "finish"} /\ r.pc \in Connecting
    /\ r.upd = c.upd /\ r.cur = c.cur /\ r.max = c.max /\ r.ep = c.ep
    /\ c.upd = FALSE => r.pc \notin {"oneHop", "twoHop", "rewire", "repair"}
    /\ c.upd = TRUE => r.pc \notin {"copy", "epDeleted"}

\* One list is written.
Writes(n, l, b) == links' = [links EXCEPT ![n][l] = b]

\* The record of a call that has finished a level.
LevelDone(c, obj) ==
    [c EXCEPT !.pc = IF c.lev = 0 THEN "finish" ELSE "start", !.lev = c.lev - 1, !.obj = obj,
              !.sel = EmptyBag, !.seen = {}, !.cand = {}, !.top = {}]

\* An insertion whose search is done chooses the neighbours s among the candidates b;
\* e says whether its entry point was deleted.
Selects(t, e, b, s) ==
    /\ e \in BOOLEAN /\ (e <=> th[t].epDeleted)
    /\ b \in Candidates(th[t].top, e, th[t].ep)
    /\ FiniteBag(s) /\ s # EmptyBag /\ BagCardinality(s) <= M
    /\ \A n \in DOMAIN s : n \in DOMAIN b /\ s[n] <= b[n]
    /\ \A n \in BagToSet(s) : n \in Finished /\ n # th[t].cur /\ level[n] >= th[t].lev
    /\ WriteOwnList(t, s)

\* A call writes the list s of its own node, and goes on with record r from next.
Writing(t, s, next, r) ==
    /\ next \in BagToSet(s)
    /\ r = [th[t] EXCEPT !.pc = "link", !.sel = s, !.obj = next,
                         !.seen = {}, !.cand = {}, !.top = {}]
    /\ Moves(t, r) /\ Writes(th[t].cur, th[t].lev, s)
    /\ UNCHANGED <<link_list_locks, global>>

\* A call gives the chosen neighbour n the list b, and goes on with record r and the
\* rest of its choice.
Linking(t, n, b, rest, r) ==
    /\ n \in BagToSet(th[t].sel) /\ n \in Finished /\ n # th[t].cur
    /\ b \in LinkBack(th[t], n) /\ Writes(n, th[t].lev, b)
    /\ rest = th[t].sel (-) SetToBag({n})
    /\ r = IF rest = EmptyBag THEN LevelDone(th[t], th[t].obj) ELSE [th[t] EXCEPT !.sel = rest]
    /\ Moves(t, r)
    /\ UNCHANGED <<level, marked, enterpoint, maxlevel, link_list_locks, global>>
-----------------------------------------------------------------------------
(* DInv and CInv: insertions without updates *)

\* No list, and no choice of neighbours, has an element twice; no list has a new
\* element on a level where it has yet to be linked.
NewOK(c) ==
    /\ Inserting(c) => \A l \in Ahead(c), n \in Nodes : c.cur \notin DOMAIN links[n][l]
    /\ c.pc = "link" => \A n \in DOMAIN c.sel : c.sel[n] = 1 /\ c.cur \notin DOMAIN links[n][c.lev]
    /\ c.pc = "search" => c.top \cap marked = {}
    /\ c.pc \in {"start", "search", "link"} => (c.epDeleted => c.ep \in marked)

\* Bag c is bag b with one more x.
Added(b, x, c) ==
    /\ FiniteBag(c) /\ DOMAIN c = DOMAIN b \cup {x}
    /\ \A e \in DOMAIN b : e # x => c[e] = b[e]
    /\ x \notin DOMAIN b => c[x] = 1

DInv == NoDuplicateLinks /\ \A t \in Threads : th[t].upd = FALSE /\ NewOK(th[t])

Small == Cardinality(Used) <= Mcurmax(0) + 1

\* n and a finished element are linked to each other on the ground level.
Anchored(n) == \E m \in Finished : m \in DOMAIN links[n][0] /\ n \in DOMAIN links[m][0]

\* The first element has nothing to be linked to.
First(t) == Finished = {} /\ global = t /\ maxlevel = -1

AnchorOK(t, c) ==
    /\ c.pc = "link" /\ c.lev = 0 =>
         /\ c.obj \in Finished /\ c.obj \in DOMAIN links[c.cur][0]
         /\ c.obj \in DOMAIN c.sel \/ c.cur \in DOMAIN links[c.obj][0]
    /\ c.pc \in {"finish", "raise"} => Anchored(c.cur) \/ First(t)

Connected ==
    \A S \in SUBSET Finished : S # {} /\ S # Finished =>
        \E n \in S : Neighbours(n, 0) \cap (Finished \ S) # {}

CInv == Small => Connected /\ \A t \in Threads : AnchorOK(t, th[t])
=============================================================================

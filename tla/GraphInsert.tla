----------------------------- MODULE GraphInsert -----------------------------
(***************************************************************************)
(* Threads that insert points into one HierarchicalNSW graph, and update   *)
(* points of it, at the same time (hnswalg.h: addPoint, searchBaseLayer,   *)
(* mutuallyConnectNewElement, updatePoint, repairConnectionsForUpdate).    *)
(*                                                                         *)
(* Distances are left out: whatever a comparison of distances decides is   *)
(* a nondeterministic choice, so the properties hold for all vectors.      *)
(* Every critical section of a node's lock is one step; an inserting       *)
(* thread holds the lock of its own node from start to end, and the global *)
(* lock too when the node rises above the present top level.               *)
(***************************************************************************)
EXTENDS NeighbourBags

CONSTANTS Threads, Nodes, NoThread, NoNode,
          Seeds,            \* nodes in the graph at the start
          MaxLevel,         \* bound on getRandomLevel
          M,                \* M_
          EfConstruction,   \* ef_construction_
          Updatable,        \* nodes that callers update
          Markable,         \* nodes that callers mark and unmark
          QuietMarks        \* are points marked and unmarked only between other calls?

ASSUME GraphAssumption ==
    /\ Seeds \subseteq Nodes /\ IsFiniteSet(Nodes) /\ Cardinality(Seeds) <= M + 1
    /\ NoNode \notin Nodes /\ NoThread \notin Threads
    /\ MaxLevel \in Nat
    /\ M \in Nat /\ M >= 2
    /\ EfConstruction \in Nat /\ EfConstruction >= M
    /\ Updatable \subseteq Nodes /\ Markable \subseteq Nodes
    /\ QuietMarks \in BOOLEAN

Levels == 0 .. MaxLevel

VARIABLES level,             \* element_levels_; -1 for a slot not in use
          links,             \* node -> level -> bag of neighbours
          marked,            \* nodes with DELETE_MARK
          enterpoint,        \* enterpoint_node_
          maxlevel,          \* maxlevel_
          link_list_locks,   \* node -> holder
          global,            \* holder of global
          th                 \* the call each thread is in

vars == <<level, links, marked, enterpoint, maxlevel, link_list_locks, global, th>>

Idle == [pc |-> "idle", upd |-> FALSE, cur |-> NoNode, max |-> -1, ep |-> NoNode,
         epDeleted |-> FALSE, obj |-> NoNode, lev |-> -1, seen |-> {}, cand |-> {},
         top |-> {}, sel |-> EmptyBag]

Used == {n \in Nodes : level[n] >= 0}
Neighbours(n, l) == BagToSet(links[n][l])
LockFree(n) == link_list_locks[n] = NoThread
Minimum(a, b) == IF a < b THEN a ELSE b

\* maxM_ = M_ above the ground level, maxM0_ = 2 * M_ on it.
Mcurmax(l) == IF l = 0 THEN 2 * M ELSE M

\* getNeighborsByHeuristic2: fewer than m candidates are left alone, otherwise
\* up to m are kept, the closest always among them.
Heuristic(candidates, m) ==
    IF BagCardinality(candidates) < m THEN {candidates}
    ELSE {b \in SubBag(candidates) : BagCardinality(b) \in 1 .. m}

TypeOK ==
    /\ level \in [Nodes -> Levels \cup {-1}]
    /\ DOMAIN links = Nodes
    /\ \A n \in Nodes : DOMAIN links[n] = Levels
    /\ \A n \in Nodes, l \in Levels : IsABag(links[n][l]) /\ Neighbours(n, l) \subseteq Used
    /\ marked \subseteq Used
    /\ enterpoint \in Used \cup {NoNode}
    /\ maxlevel \in Levels \cup {-1}
    /\ link_list_locks \in [Nodes -> Threads \cup {NoThread}]
    /\ global \in Threads \cup {NoThread}
    /\ \A t \in Threads :
         /\ th[t].pc \in {"idle", "failed", "global", "enterpoint", "copy", "descend",
                          "epDeleted", "start", "search", "link", "finish", "raise", "oneHop",
                          "twoHop", "rewire", "repair"}
         /\ th[t].cur \in Used \cup {NoNode}
         /\ th[t].max \in Levels \cup {-1}
         /\ th[t].seen \cup th[t].cand \cup th[t].top \subseteq Used

\* The seed nodes form a graph that inserting them one after the other can
\* give: with at most M + 1 of them every list may hold all the others.
Init ==
    /\ level \in [Nodes -> Levels \cup {-1}]
    /\ Used = Seeds
    /\ links = [n \in Nodes |-> [l \in Levels |->
                 SetToBag({m \in Seeds \ {n} : level[m] >= l /\ level[n] >= l})]]
    /\ marked \in SUBSET (Seeds \cap Markable)
    /\ IF Seeds = {} THEN enterpoint = NoNode /\ maxlevel = -1
       ELSE /\ enterpoint \in {n \in Seeds : \A m \in Seeds : level[m] <= level[n]}
            /\ maxlevel = level[enterpoint]
    /\ link_list_locks = [n \in Nodes |-> NoThread]
    /\ global = NoThread
    /\ th = [t \in Threads |-> Idle]
-----------------------------------------------------------------------------
Unlock(t) ==
    /\ link_list_locks' = [n \in Nodes |-> IF link_list_locks[n] = t THEN NoThread
                                                                   ELSE link_list_locks[n]]
    /\ global' = IF global = t THEN NoThread ELSE global

\* A runtime_error unwinds the call and its locks.
Fail(t) ==
    /\ th' = [th EXCEPT ![t] = [Idle EXCEPT !.pc = "failed"]]
    /\ Unlock(t)

\* The call goes on to the level below, or ends.
NextLevel(t, obj) ==
    th' = [th EXCEPT ![t] =
             [@ EXCEPT !.pc = IF th[t].lev = 0 THEN "finish" ELSE "start",
                       !.lev = th[t].lev - 1, !.obj = obj, !.sel = EmptyBag,
                       !.seen = {}, !.cand = {}, !.top = {}]]
-----------------------------------------------------------------------------
(* addPoint: entry *)

BeginInsertNoLevel(t, n, lv) ==
    /\ th[t].pc = "idle" /\ level[n] = -1 /\ LockFree(n)
    /\ link_list_locks' = [link_list_locks EXCEPT ![n] = t]
    /\ th' = [th EXCEPT ![t] = [Idle EXCEPT !.pc = "global", !.cur = n]]
    /\ UNCHANGED <<level, links, marked, enterpoint, maxlevel, global>>

BeginInsertNoLock(t, n, lv) ==
    /\ th[t].pc = "idle" /\ level[n] = -1
    /\ level' = [level EXCEPT ![n] = lv]
    /\ th' = [th EXCEPT ![t] = [Idle EXCEPT !.pc = "global", !.cur = n]]
    /\ UNCHANGED <<links, marked, enterpoint, maxlevel, link_list_locks, global>>

\* A fresh slot is allotted, its lock taken, its level drawn, its memory cleared.
BeginInsert(t, n, lv) ==
    /\ th[t].pc = "idle"
    /\ level[n] = -1
    /\ LockFree(n)
    /\ level' = [level EXCEPT ![n] = lv]
    /\ link_list_locks' = [link_list_locks EXCEPT ![n] = t]
    /\ links' = [links EXCEPT ![n] = [l \in Levels |-> EmptyBag]]
    /\ th' = [th EXCEPT ![t] = [Idle EXCEPT !.pc = "global", !.cur = n]]
    /\ UNCHANGED <<marked, enterpoint, maxlevel, global>>

EnterGlobalRelease(t) ==
    /\ th[t].pc = "global"
    /\ global = NoThread
    /\ th' = [th EXCEPT ![t].pc = "enterpoint", ![t].max = maxlevel]
    /\ UNCHANGED <<level, links, marked, enterpoint, maxlevel, link_list_locks, global>>

\* The global lock is kept only by a node above the top level.
EnterGlobal(t) ==
    /\ th[t].pc = "global"
    /\ global = NoThread
    /\ global' = IF level[th[t].cur] <= maxlevel THEN NoThread ELSE t
    /\ th' = [th EXCEPT ![t].pc = "enterpoint", ![t].max = maxlevel]
    /\ UNCHANGED <<level, links, marked, enterpoint, maxlevel, link_list_locks>>

\* currObj is the entry point, read after the global lock may have been released.
\* The first element of the index has nothing to connect to.
ReadEnterpoint(t) ==
    /\ th[t].pc = "enterpoint" /\ ~th[t].upd
    /\ th' = [th EXCEPT ![t] =
                IF enterpoint = NoNode THEN [@ EXCEPT !.pc = "finish"]
                ELSE [@ EXCEPT !.obj = enterpoint, !.pc = "copy"]]
    /\ UNCHANGED <<level, links, marked, enterpoint, maxlevel, link_list_locks, global>>

\* enterpoint_copy is read after currObj, and may be another node.
CopyEnterpoint(t) ==
    /\ th[t].pc = "copy"
    /\ th' = [th EXCEPT ![t].ep = enterpoint, ![t].lev = th[t].max,
                        ![t].pc = IF level[th[t].cur] < th[t].max THEN "descend"
                                                                  ELSE "epDeleted"]
    /\ UNCHANGED <<level, links, marked, enterpoint, maxlevel, link_list_locks, global>>

DescendNotStrict(t) ==
    LET c == th[t]
    IN  /\ c.pc = "descend"
        /\ LockFree(c.obj)
        /\ \/ \E n \in Neighbours(c.obj, c.lev) \ {c.obj} : th' = [th EXCEPT ![t].obj = n]
           \/ th' = [th EXCEPT ![t] =
                       IF c.lev - 1 > level[c.cur] THEN [@ EXCEPT !.lev = c.lev - 1]
                       ELSE [@ EXCEPT !.lev = c.lev - 1,
                                      !.pc = IF c.upd THEN "start" ELSE "epDeleted"]]
        /\ UNCHANGED <<level, links, marked, enterpoint, maxlevel, link_list_locks, global>>

\* Greedy descent, shared with repairConnectionsForUpdate: under the lock of
\* currObj move to a closer neighbour, or, there being none, go down a level.
Descend(t) ==
    LET c == th[t]
    IN  /\ c.pc = "descend"
        /\ LockFree(c.obj)
        /\ \/ \E n \in Neighbours(c.obj, c.lev) \ (c.seen \cup {c.obj}) :
                th' = [th EXCEPT ![t].obj = n, ![t].seen = @ \cup {c.obj}]
           \/ th' = [th EXCEPT ![t] =
                       IF c.lev - 1 > level[c.cur] THEN [@ EXCEPT !.lev = c.lev - 1]
                       ELSE [@ EXCEPT !.lev = c.lev - 1, !.seen = {},
                                      !.pc = IF c.upd THEN "start" ELSE "epDeleted"]]
        /\ UNCHANGED <<level, links, marked, enterpoint, maxlevel, link_list_locks, global>>

\* epDeleted = isMarkedDeleted(enterpoint_copy), once for all levels.
ReadEpDeleted(t) ==
    /\ th[t].pc = "epDeleted"
    /\ th' = [th EXCEPT ![t].pc = "start", ![t].epDeleted = th[t].ep \in marked,
                        ![t].lev = Minimum(level[th[t].cur], th[t].max)]
    /\ UNCHANGED <<level, links, marked, enterpoint, maxlevel, link_list_locks, global>>
-----------------------------------------------------------------------------
(* searchBaseLayer *)

StartSearch(t) ==
    /\ th[t].pc = "start"
    /\ th' = [th EXCEPT ![t].pc = "search", ![t].seen = {th[t].obj},
                        ![t].cand = {th[t].obj}, ![t].top = {th[t].obj} \ marked]
    /\ UNCHANGED <<level, links, marked, enterpoint, maxlevel, link_list_locks, global>>

\* Under the lock of a candidate, look at its neighbours not seen before: the
\* closest EfConstruction live ones stay in top, and once top is full a
\* neighbour too far away is not expanded either.
Expand(t) ==
    /\ th[t].pc = "search"
    /\ \E c \in th[t].cand :
        /\ LockFree(c)
        /\ LET new   == Neighbours(c, th[t].lev) \ th[t].seen
               found == th[t].top \cup (new \ marked)
           IN  \E top \in SUBSET found, near \in SUBSET new :
                /\ Cardinality(top) = Minimum(EfConstruction, Cardinality(found))
                /\ top \cap new \subseteq near
                /\ Cardinality(found) < EfConstruction => near = new
                /\ th' = [th EXCEPT ![t].seen = @ \cup new, ![t].top = top,
                                    ![t].cand = (@ \ {c}) \cup near]
    /\ UNCHANGED <<level, links, marked, enterpoint, maxlevel, link_list_locks, global>>

\* No candidate left, or only candidates farther away than all of a full top;
\* so whatever is in top at the end has been expanded.
SearchDone(t) ==
    /\ th[t].pc = "search"
    /\ \/ th[t].cand = {}
       \/ Cardinality(th[t].top) = EfConstruction /\ th[t].cand \cap th[t].top = {}
-----------------------------------------------------------------------------
(* mutuallyConnectNewElement *)

\* A deleted entry point is a candidate of its own; the queue never grows
\* past EfConstruction.
WithEntryPoint(top, ep) ==
    LET b == SetToBag(top) (+) SetToBag({ep})
    IN  IF BagCardinality(b) <= EfConstruction THEN {b}
        ELSE {b (-) SetToBag({n}) : n \in BagToSet(b)}

CandidatesAlwaysEp(top, epDeleted, ep) == WithEntryPoint(top, ep)

Candidates(top, epDeleted, ep) ==
    IF epDeleted THEN WithEntryPoint(top, ep) ELSE {SetToBag(top)}

\* Write the selected neighbours into the node's own list (an insertion holds
\* its lock already, an update takes it).  selectedNeighbors.back() is the next
\* entry point; of an empty vector it is whatever lies there.
WriteOwnList(t, selected) ==
    LET c == th[t]
    IN  IF \/ ~c.upd /\ links[c.cur][c.lev] # EmptyBag
           \/ \E n \in BagToSet(selected) : c.lev > level[n]
        THEN Fail(t) /\ UNCHANGED links
        ELSE /\ links' = [links EXCEPT ![c.cur][c.lev] = selected]
             /\ \E next \in IF selected = EmptyBag THEN Used ELSE BagToSet(selected) :
                  IF selected = EmptyBag THEN NextLevel(t, next)
                  ELSE th' = [th EXCEPT ![t] =
                                [@ EXCEPT !.pc = "link", !.sel = selected, !.obj = next,
                                          !.seen = {}, !.cand = {}, !.top = {}]]
             /\ UNCHANGED <<link_list_locks, global>>

ConnectInsert(t) ==
    /\ SearchDone(t) /\ ~th[t].upd
    /\ \E b \in Candidates(th[t].top, th[t].epDeleted, th[t].ep) :
         \E selected \in Heuristic(b, M) : WriteOwnList(t, selected)
    /\ UNCHANGED <<level, marked, enterpoint, maxlevel>>

LinkBackOffByOne(c, n) ==
    LET old == links[n][c.lev]
        new == old (+) SetToBag({c.cur})
    IN  IF c.upd /\ BagIn(c.cur, old) THEN {old}
        ELSE IF BagCardinality(old) <= Mcurmax(c.lev) THEN {new}
        ELSE Heuristic(new, Mcurmax(c.lev))

LinkBackOverwrite(c, n) == {SetToBag({c.cur})}

\* The new list of a selected neighbour: cur is added if there is room,
\* otherwise the heuristic chooses among the old neighbours and cur.
LinkBack(c, n) ==
    LET old == links[n][c.lev]
        new == old (+) SetToBag({c.cur})
    IN  IF c.upd /\ BagIn(c.cur, old) THEN {old}
        ELSE IF BagCardinality(old) < Mcurmax(c.lev) THEN {new}
        ELSE Heuristic(new, Mcurmax(c.lev))

\* Under the lock of one selected neighbour.
LinkNeighbour(t) ==
    LET c == th[t]
    IN  /\ c.pc = "link"
        /\ \E n \in BagToSet(c.sel) :
            /\ LockFree(n)
            /\ IF \/ n = c.cur
                  \/ c.lev > level[n]
                  \/ BagCardinality(links[n][c.lev]) > Mcurmax(c.lev)
               THEN Fail(t) /\ UNCHANGED links
               ELSE /\ \E b \in LinkBack(c, n) : links' = [links EXCEPT ![n][c.lev] = b]
                    /\ LET rest == c.sel (-) SetToBag({n})
                       IN  IF rest = EmptyBag THEN NextLevel(t, c.obj)
                           ELSE th' = [th EXCEPT ![t].sel = rest]
                    /\ UNCHANGED <<link_list_locks, global>>
        /\ UNCHANGED <<level, marked, enterpoint, maxlevel>>
-----------------------------------------------------------------------------
(* addPoint: exit *)

\* enterpoint_node_ is written before maxlevel_.
Finish(t) ==
    /\ th[t].pc = "finish"
    /\ IF ~th[t].upd /\ level[th[t].cur] > th[t].max
       THEN /\ enterpoint' = th[t].cur
            /\ th' = [th EXCEPT ![t] = [Idle EXCEPT !.pc = "raise", !.cur = th[t].cur]]
            /\ UNCHANGED <<link_list_locks, global>>
       ELSE /\ th' = [th EXCEPT ![t] = Idle]
            /\ Unlock(t)
            /\ UNCHANGED enterpoint
    /\ UNCHANGED <<level, links, marked, maxlevel>>

RaiseNoMaxlevel(t) ==
    /\ th[t].pc = "raise"
    /\ th' = [th EXCEPT ![t] = Idle]
    /\ Unlock(t)
    /\ UNCHANGED <<level, links, marked, enterpoint, maxlevel>>

Raise(t) ==
    /\ th[t].pc = "raise"
    /\ maxlevel' = level[th[t].cur]
    /\ th' = [th EXCEPT ![t] = Idle]
    /\ Unlock(t)
    /\ UNCHANGED <<level, links, marked, enterpoint>>
-----------------------------------------------------------------------------
(* updatePoint and repairConnectionsForUpdate *)

\* The label's operation lock keeps other calls for the point away.
Unclaimed(n) == n \in Used /\ \A t \in Threads : th[t].cur # n

\* maxlevel_ is read before enterpoint_node_, neither under the global lock.
BeginUpdate(t, n) ==
    /\ n \in Updatable
    /\ th[t].pc = "idle"
    /\ Unclaimed(n) /\ n \notin marked
    /\ th' = [th EXCEPT ![t] = [Idle EXCEPT !.pc = "enterpoint", !.upd = TRUE, !.cur = n,
                                            !.max = maxlevel]]
    /\ UNCHANGED <<level, links, marked, enterpoint, maxlevel, link_list_locks, global>>

UpdateEnterpointSkip(t) ==
    /\ th[t].pc = "enterpoint" /\ th[t].upd
    /\ th' = [th EXCEPT ![t].pc = "oneHop", ![t].ep = th[t].cur, ![t].lev = 0]
    /\ UNCHANGED <<level, links, marked, enterpoint, maxlevel, link_list_locks, global>>

UpdateEnterpoint(t) ==
    /\ th[t].pc = "enterpoint" /\ th[t].upd
    /\ th' = [th EXCEPT ![t] =
                IF enterpoint = th[t].cur /\ Cardinality(Used) = 1 THEN Idle
                ELSE [@ EXCEPT !.pc = "oneHop", !.ep = enterpoint, !.lev = 0]]
    /\ UNCHANGED <<level, links, marked, enterpoint, maxlevel, link_list_locks, global>>

\* The record after one layer is done: the next layer, or the repair.
AfterLayer(c) ==
    IF c.lev < level[c.cur]
    THEN [c EXCEPT !.pc = "oneHop", !.lev = c.lev + 1, !.seen = {}, !.cand = {}, !.top = {}]
    ELSE [c EXCEPT !.pc = "repair", !.lev = -1, !.seen = {}, !.cand = {}, !.top = {}]

\* seen collects sCand, top is sNeigh, cand the neighbours not yet asked.
OneHop(t) ==
    LET c == th[t]
        hop == Neighbours(c.cur, c.lev)
    IN  /\ c.pc = "oneHop"
        /\ LockFree(c.cur)
        /\ th' = [th EXCEPT ![t] =
                    IF hop = {} THEN AfterLayer(c)
                    ELSE [c EXCEPT !.pc = "twoHop", !.seen = hop \cup {c.cur},
                                   !.cand = hop, !.top = hop]]
        /\ UNCHANGED <<level, links, marked, enterpoint, maxlevel, link_list_locks, global>>

TwoHop(t) ==
    /\ th[t].pc = "twoHop"
    /\ \E n \in th[t].cand :
        /\ LockFree(n)
        /\ th' = [th EXCEPT ![t].seen = @ \cup Neighbours(n, th[t].lev),
                            ![t].cand = @ \ {n},
                            ![t].pc = IF th[t].cand = {n} THEN "rewire" ELSE "twoHop"]
    /\ UNCHANGED <<level, links, marked, enterpoint, maxlevel, link_list_locks, global>>

RewireSelf(t) ==
    LET c == th[t]
    IN  /\ c.pc = "rewire"
        /\ \E n \in c.top :
            /\ LockFree(n)
            /\ \E b \in Heuristic(SetToBag(c.seen), Mcurmax(c.lev)) :
                 links' = [links EXCEPT ![n][c.lev] = b]
            /\ th' = [th EXCEPT ![t] = IF c.top = {n} THEN AfterLayer(c)
                                       ELSE [c EXCEPT !.top = @ \ {n}]]
        /\ UNCHANGED <<level, marked, enterpoint, maxlevel, link_list_locks, global>>

\* Give one neighbour a new list, made of the candidates collected before.
Rewire(t) ==
    LET c == th[t]
    IN  /\ c.pc = "rewire"
        /\ \E n \in c.top :
            /\ LockFree(n)
            /\ \E near \in SUBSET (c.seen \ {n}) :
                /\ Cardinality(near) = Minimum(EfConstruction, Cardinality(c.seen \ {n}))
                /\ \E b \in Heuristic(SetToBag(near), Mcurmax(c.lev)) :
                     links' = [links EXCEPT ![n][c.lev] = b]
            /\ th' = [th EXCEPT ![t] = IF c.top = {n} THEN AfterLayer(c)
                                       ELSE [c EXCEPT !.top = @ \ {n}]]
        /\ UNCHANGED <<level, marked, enterpoint, maxlevel, link_list_locks, global>>

BeginRepair(t) ==
    /\ th[t].pc = "repair"
    /\ IF level[th[t].cur] > th[t].max THEN Fail(t)
       ELSE /\ th' = [th EXCEPT ![t].obj = th[t].ep, ![t].lev = th[t].max,
                                ![t].pc = IF level[th[t].cur] < th[t].max THEN "descend"
                                                                        ELSE "start"]
            /\ UNCHANGED <<link_list_locks, global>>
    /\ UNCHANGED <<level, links, marked, enterpoint, maxlevel>>

ConnectUpdateUnfiltered(t) ==
    /\ SearchDone(t) /\ th[t].upd
    /\ LockFree(th[t].cur)
    /\ \E b \in Candidates(th[t].top, th[t].ep \in marked, th[t].ep) :
         \E selected \in Heuristic(b, M) : WriteOwnList(t, selected)
    /\ UNCHANGED <<level, marked, enterpoint, maxlevel>>

\* The point itself is no candidate; with no candidate the level is left as it
\* is.  Here the entry point's mark is read after the search.
ConnectUpdate(t) ==
    LET c == th[t]
        top == c.top \ {c.cur}
    IN  /\ SearchDone(t) /\ c.upd
        /\ IF top = {} THEN NextLevel(t, c.obj) /\ UNCHANGED <<links, link_list_locks, global>>
           ELSE /\ LockFree(c.cur)
                /\ \E b \in Candidates(top, c.ep \in marked, c.ep) :
                     \E selected \in Heuristic(b, M) : WriteOwnList(t, selected)
        /\ UNCHANGED <<level, marked, enterpoint, maxlevel>>
-----------------------------------------------------------------------------
\* markDelete and unmarkDelete, under the label's operation lock.
FlipMark(n) ==
    /\ n \in Markable
    /\ Unclaimed(n)
    /\ QuietMarks => \A t \in Threads : th[t].pc = "idle"
    /\ marked' = IF n \in marked THEN marked \ {n} ELSE marked \cup {n}
    /\ UNCHANGED <<level, links, enterpoint, maxlevel, link_list_locks, global, th>>

\* A step of a call that has begun.
Proceed(t) ==
    \/ EnterGlobal(t) \/ ReadEnterpoint(t) \/ CopyEnterpoint(t)
    \/ Descend(t) \/ ReadEpDeleted(t)
    \/ StartSearch(t) \/ Expand(t) \/ ConnectInsert(t) \/ LinkNeighbour(t)
    \/ Finish(t) \/ Raise(t)
    \/ UpdateEnterpoint(t) \/ OneHop(t) \/ TwoHop(t) \/ Rewire(t)
    \/ BeginRepair(t) \/ ConnectUpdate(t)

Next ==
    \/ \E t \in Threads :
        \/ Proceed(t)
        \/ \E n \in Nodes : BeginUpdate(t, n) \/ \E lv \in Levels : BeginInsert(t, n, lv)
    \/ \E n \in Nodes : FlipMark(n)

Spec == Init /\ [][Next]_vars

\* The operating system runs every thread that is not waiting for a lock.
FairSpec == Spec /\ \A t \in Threads : WF_vars(Proceed(t))
-----------------------------------------------------------------------------
(* What must hold *)

\* No call ever meets one of the conditions addPoint, updatePoint and
\* mutuallyConnectNewElement throw on: a new element's list is blank until it
\* writes it, no list is too long, no element is linked to itself or on a level
\* it does not have.
NeverThrows == \A t \in Threads : th[t].pc # "failed"

\* A call only reads the list of a node at a level that node has: get_linklist
\* does not check, and beyond the node's level lies foreign memory.
ReadsExistingLevels ==
    \A t \in Threads :
        /\ th[t].pc \in {"descend", "start"} => level[th[t].obj] >= th[t].lev
        /\ th[t].pc \in {"search", "twoHop", "rewire"} =>
             \A n \in th[t].cand \cup th[t].top : level[n] >= th[t].lev

\* Every list fits its memory and holds elements other than the node itself
\* that exist on the list's level.
LinksWellFormed ==
    \A n \in Nodes, l \in Levels :
        /\ BagCardinality(links[n][l]) <= Mcurmax(l)
        /\ \A m \in Neighbours(n, l) : m # n /\ level[m] >= l /\ level[n] >= l

\* No element occurs twice in a list, as checkIntegrity asserts.
NoDuplicateLinks ==
    \A n \in Nodes, l \in Levels :
        \A m \in Neighbours(n, l) : links[n][l][m] = 1

\* Searches start from an element that is fully inserted and tops the hierarchy:
\* whenever no thread is exchanging the entry point, its level is maxlevel_ and
\* no element above it is finished.
EntryPointOnTop ==
    (\A t \in Threads : th[t].pc # "raise") =>
        IF enterpoint = NoNode THEN maxlevel = -1
        ELSE /\ level[enterpoint] = maxlevel
             /\ \A t \in Threads : ~th[t].upd => th[t].cur # enterpoint
             /\ \A n \in Used : level[n] > maxlevel =>
                  \E t \in Threads : th[t].cur = n

\* The hierarchy only grows: maxlevel_ never falls, and a new entry point is
\* above the old one, so a level copied earlier still exists at the entry point
\* read later.
EntryPointClimbs ==
    [][ /\ maxlevel' >= maxlevel
        /\ enterpoint' # enterpoint /\ enterpoint # NoNode =>
             level[enterpoint'] > level[enterpoint] ]_vars

\* As long as no ground-level list can overflow, concurrent insertions lose no
\* element: every set of finished elements that has the entry point but not all
\* of them is left by a link, so a search from the entry point reaches all.
Finished == {n \in Used : \A t \in Threads : ~th[t].upd => th[t].cur # n}

NoElementLost ==
    Cardinality(Used) <= Mcurmax(0) + 1 =>
        \A S \in SUBSET Finished : enterpoint \in S /\ S # Finished =>
            \E n \in S : Neighbours(n, 0) \cap (Finished \ S) # {}

\* Every call returns: no set of threads waits for each other's node locks and
\* the global lock, and every search ends.
CallsReturn == \A t \in Threads : th[t].pc # "idle" ~> th[t].pc = "idle"
=============================================================================

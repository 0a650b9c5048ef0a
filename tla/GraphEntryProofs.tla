-------------------------- MODULE GraphEntryProofs --------------------------
(***************************************************************************)
(* The entry point and the top level, and the steps of a call that write no*)
(* list, for any number of threads, nodes and levels.  Entry point and top *)
(* level are two variables, read one after the other by every call and     *)
(* written one after the other by a node above the top level; what keeps   *)
(* them together is that such a node keeps the global lock, and that while *)
(* it does the maxlevel_ it has read stays true (EInv).                    *)
(***************************************************************************)
EXTENDS GraphInv, TLAPS

\* Steps are left to Zenon, except where SMT is named.
USE Zenon

-----------------------------------------------------------------------------
(* EInv *)

\* A thread that is in no call.
LEMMA IdleFields ==
  ASSUME NEW p, NEW b \in BOOLEAN, NEW c, NEW m, NEW r,
         r = [pc |-> p, upd |-> b, cur |-> c, max |-> m, ep |-> NoNode, epDeleted |-> FALSE,
              obj |-> NoNode, lev |-> -1, seen |-> {}, cand |-> {}, top |-> {},
              sel |-> EmptyBag]
  PROVE  HasFields(r) /\ r.upd \in BOOLEAN
BY DEF HasFields

\* A thread that connects a node, and goes on with it, keeps the invariant.
LEMMA Connects ==
  ASSUME EInv, NEW t \in Threads, Only(t),
         UNCHANGED <<level, enterpoint, maxlevel, global>>,
         th[t].pc \in Connecting, th'[t].pc \in Connecting,
         th'[t].upd = th[t].upd, th'[t].cur = th[t].cur, th'[t].max = th[t].max
  PROVE  EInv'
<1>1. Shape'
  BY DEF EInv, Shape, Only
<1>2. Levelled' /\ HoldsGlobal'
  BY SMT DEF EInv, Only, Levelled, HoldsGlobal, Shape
<1>3. \A u \in Threads : th'[u].pc = "raise" <=> th[u].pc = "raise"
  BY DEF Only, Connecting
<1>4. Raising' /\ Settled'
  BY <1>3 DEF EInv, Only, Raising, Settled, Connecting
<1> QED BY <1>1, <1>2, <1>4 DEF EInv

\* A thread that leaves its call, or fails, gives up its locks.
LEMMA Leaves ==
  ASSUME EInv, NEW t \in Threads, Only(t), Unlock(t),
         UNCHANGED <<level, enterpoint, maxlevel>>,
         th[t].pc \in Connecting, th'[t].pc \in {"idle", "failed"}
  PROVE  EInv'
<1>1. Shape'
  BY DEF EInv, Shape, Only
<1>2. \A u \in Threads : u # t /\ global = u => global' = u
  BY DEF Unlock
<1>3. th'[t].pc \notin Connecting \cup {"global", "raise"} /\ th[t].pc # "raise"
  BY DEF Connecting
<1> USE <1>3
<1>4. Levelled' /\ HoldsGlobal'
  BY <1>2, SMT DEF EInv, Only, Levelled, HoldsGlobal, Shape
<1>5. \A u \in Threads : th'[u].pc = "raise" <=> th[u].pc = "raise"
  BY DEF Only
<1>6. Raising' /\ Settled'
  BY <1>2, <1>5 DEF EInv, Only, Raising, Settled
<1> QED BY <1>1, <1>4, <1>6 DEF EInv

\* An exception in a call that connects a node.
LEMMA FailEInv ==
  ASSUME EInv, NEW t \in Threads, Fail(t), UNCHANGED <<level, enterpoint, maxlevel>>,
         th[t].pc \in Connecting
  PROVE  EInv'
<1>1. th' = [th EXCEPT ![t] = [Idle EXCEPT !.pc = "failed"]] /\ Unlock(t)
  BY DEF Fail
<1>2. PICK r : r = [Idle EXCEPT !.pc = "failed"]
  OBVIOUS
<1>3. r = [pc |-> "failed", upd |-> FALSE, cur |-> NoNode, max |-> -1, ep |-> NoNode,
           epDeleted |-> FALSE, obj |-> NoNode, lev |-> -1, seen |-> {}, cand |-> {},
           top |-> {}, sel |-> EmptyBag]
  BY <1>2 DEF Idle
<1>4. HasFields(r) /\ r.upd \in BOOLEAN /\ r.pc = "failed"
  BY <1>3, IdleFields
<1>5. Only(t) /\ th'[t].pc = "failed"
  BY <1>1, <1>2, <1>4 DEF EInv, Shape, Only
<1> QED BY <1>1, <1>5, Leaves

\* A search begins.
LEMMA StartSearchEInv ==
  ASSUME EInv, NEW t \in Threads, StartSearch(t)
  PROVE  EInv'
<1>1. th'[t] = [th[t] EXCEPT !.pc = "search", !.seen = {th[t].obj},
                        !.cand = {th[t].obj}, !.top = {th[t].obj} \ marked]
  BY DEF EInv, Shape, StartSearch
<1>2. th' = [u \in Threads |-> th'[u]] /\ \A u \in Threads : u # t => th'[u] = th[u]
  BY DEF EInv, Shape, StartSearch
<1>3. th[t].pc \in Connecting /\ UNCHANGED <<level, enterpoint, maxlevel, global>>
  BY DEF StartSearch, Connecting
<1>4. HasFields(th[t]) /\ th[t].upd \in BOOLEAN
  BY DEF EInv, Shape
<1>5. /\ HasFields(th'[t]) /\ th'[t].pc \in Connecting \cup {th[t].pc}
      /\ th'[t].upd = th[t].upd /\ th'[t].cur = th[t].cur /\ th'[t].max = th[t].max
  BY <1>1, <1>4 DEF HasFields, Connecting
<1> QED BY <1>2, <1>3, <1>4, <1>5, Connects DEF Only

\* The mark of the entry point is read.
LEMMA ReadEpDeletedEInv ==
  ASSUME EInv, NEW t \in Threads, ReadEpDeleted(t)
  PROVE  EInv'
<1>1. th'[t] = [th[t] EXCEPT !.pc = "start", !.epDeleted = th[t].ep \in marked,
                        !.lev = Minimum(level[th[t].cur], th[t].max)]
  BY DEF EInv, Shape, ReadEpDeleted
<1>2. th' = [u \in Threads |-> th'[u]] /\ \A u \in Threads : u # t => th'[u] = th[u]
  BY DEF EInv, Shape, ReadEpDeleted
<1>3. th[t].pc \in Connecting /\ UNCHANGED <<level, enterpoint, maxlevel, global>>
  BY DEF ReadEpDeleted, Connecting
<1>4. HasFields(th[t]) /\ th[t].upd \in BOOLEAN
  BY DEF EInv, Shape
<1>5. /\ HasFields(th'[t]) /\ th'[t].pc \in Connecting \cup {th[t].pc}
      /\ th'[t].upd = th[t].upd /\ th'[t].cur = th[t].cur /\ th'[t].max = th[t].max
  BY <1>1, <1>4 DEF HasFields, Connecting
<1> QED BY <1>2, <1>3, <1>4, <1>5, Connects DEF Only

\* A step of the greedy descent.
LEMMA DescendEInv ==
  ASSUME EInv, NEW t \in Threads, Descend(t)
  PROVE  EInv'
<1>1. \/ \E n : th'[t] = [th[t] EXCEPT !.obj = n, !.seen = th[t].seen \cup {th[t].obj}]
      \/ th'[t] = [th[t] EXCEPT !.lev = th[t].lev - 1]
      \/ \E p \in {"start", "epDeleted"} :
            th'[t] = [th[t] EXCEPT !.lev = th[t].lev - 1, !.seen = {}, !.pc = p]
  BY DEF EInv, Shape, Descend
<1>2. th' = [u \in Threads |-> th'[u]] /\ \A u \in Threads : u # t => th'[u] = th[u]
  BY DEF EInv, Shape, Descend
<1>3. th[t].pc \in Connecting /\ UNCHANGED <<level, enterpoint, maxlevel, global>>
  BY DEF Descend, Connecting
<1>4. HasFields(th[t]) /\ th[t].upd \in BOOLEAN
  BY DEF EInv, Shape
<1>5. /\ HasFields(th'[t]) /\ th'[t].pc \in Connecting \cup {th[t].pc}
      /\ th'[t].upd = th[t].upd /\ th'[t].cur = th[t].cur /\ th'[t].max = th[t].max
  <2>1. PICK c, r : c = th[t] /\ r = th'[t]
    BY SMT
  <2>2. HasFields(c)
    BY <1>4, <2>1
  <2>3. ASSUME \E n : r = [c EXCEPT !.obj = n, !.seen = c.seen \cup {c.obj}]
        PROVE  Carries(c, r) /\ r.pc \in Connecting \cup {c.pc}
    BY <2>2, <2>3 DEF HasFields, Carries, Connecting
  <2>4. ASSUME r = [c EXCEPT !.lev = c.lev - 1]
        PROVE  Carries(c, r) /\ r.pc \in Connecting \cup {c.pc}
    BY <2>2, <2>4 DEF HasFields, Carries, Connecting
  <2>5. ASSUME \E p \in {"start", "epDeleted"} : 
              r = [c EXCEPT !.lev = c.lev - 1, !.seen = {}, !.pc = p]
        PROVE  Carries(c, r) /\ r.pc \in Connecting \cup {c.pc}
    BY <2>2, <2>5 DEF HasFields, Carries, Connecting
  <2> QED BY <1>1, <2>1, <2>3, <2>4, <2>5 DEF Carries
<1> QED BY <1>2, <1>3, <1>4, <1>5, Connects DEF Only

\* A candidate is expanded.
LEMMA ExpandEInv ==
  ASSUME EInv, NEW t \in Threads, Expand(t)
  PROVE  EInv'
<1>1. \E a, b, c : th'[t] = [th[t] EXCEPT !.seen = a, !.top = b, !.cand = c]
  <2> DEFINE new(c)   == Neighbours(c, th[t].lev) \ th[t].seen
             found(c) == th[t].top \cup (new(c) \ marked)
  <2>1. PICK c \in th[t].cand : \E top \in SUBSET found(c), near \in SUBSET new(c) :
          th' = [th EXCEPT ![t].seen = @ \cup new(c), ![t].top = top,
                           ![t].cand = (@ \ {c}) \cup near]
    BY DEF Expand
  <2>2. PICK top, near :
          th' = [th EXCEPT ![t].seen = @ \cup new(c), ![t].top = top,
                           ![t].cand = (@ \ {c}) \cup near]
    BY <2>1
  <2>3. th'[t] = [th[t] EXCEPT !.seen = th[t].seen \cup new(c), !.top = top,
                               !.cand = (th[t].cand \ {c}) \cup near]
    BY <2>2 DEF EInv, Shape
  <2> HIDE DEF new
  <2> QED BY <2>3
<1>2. th' = [u \in Threads |-> th'[u]] /\ \A u \in Threads : u # t => th'[u] = th[u]
  BY DEF EInv, Shape, Expand
<1>3. th[t].pc \in Connecting /\ UNCHANGED <<level, enterpoint, maxlevel, global>>
  BY DEF Expand, Connecting
<1>4. HasFields(th[t]) /\ th[t].upd \in BOOLEAN
  BY DEF EInv, Shape
<1>5. /\ HasFields(th'[t]) /\ th'[t].pc \in Connecting \cup {th[t].pc}
      /\ th'[t].upd = th[t].upd /\ th'[t].cur = th[t].cur /\ th'[t].max = th[t].max
  <2>1. PICK c, r : c = th[t] /\ r = th'[t]
    BY SMT
  <2>2. HasFields(c)
    BY <1>4, <2>1
  <2>3. \E x, y, z : r = [c EXCEPT !.seen = x, !.top = y, !.cand = z]
    BY <1>1, <2>1
  <2>4. Carries(c, r) /\ r.pc \in Connecting \cup {c.pc}
    BY <2>2, <2>3 DEF HasFields, Carries, Connecting
  <2> QED BY <2>1, <2>4 DEF Carries
<1> QED BY <1>2, <1>3, <1>4, <1>5, Connects DEF Only

\* What the end of a layer of an update leaves alone.
LEMMA AfterLayerFields ==
  ASSUME NEW c, HasFields(c)
  PROVE  /\ HasFields(AfterLayer(c)) /\ AfterLayer(c).pc \in Connecting
         /\ AfterLayer(c).upd = c.upd /\ AfterLayer(c).cur = c.cur /\ AfterLayer(c).max = c.max
<1>1. PICK r : r = AfterLayer(c)
  OBVIOUS
<1>2. HasFields(r) /\ r.pc \in Connecting /\ r.upd = c.upd /\ r.cur = c.cur /\ r.max = c.max
  BY <1>1 DEF AfterLayer, HasFields, Connecting
<1> QED BY <1>1, <1>2

\* The neighbours of an updated point are read.
LEMMA OneHopEInv ==
  ASSUME EInv, NEW t \in Threads, OneHop(t)
  PROVE  EInv'
<1>1. \/ th'[t] = AfterLayer(th[t])
      \/ \E a, b : th'[t] = [th[t] EXCEPT !.pc = "twoHop", !.seen = a, !.cand = b, !.top = b]
  BY DEF EInv, Shape, OneHop
<1>2. th' = [u \in Threads |-> th'[u]] /\ \A u \in Threads : u # t => th'[u] = th[u]
  BY DEF EInv, Shape, OneHop
<1>3. th[t].pc \in Connecting /\ UNCHANGED <<level, enterpoint, maxlevel, global>>
  BY DEF OneHop, Connecting
<1>4. HasFields(th[t]) /\ th[t].upd \in BOOLEAN
  BY DEF EInv, Shape
<1>5. /\ HasFields(th'[t]) /\ th'[t].pc \in Connecting \cup {th[t].pc}
      /\ th'[t].upd = th[t].upd /\ th'[t].cur = th[t].cur /\ th'[t].max = th[t].max
  <2>1. PICK c, r : c = th[t] /\ r = th'[t]
    BY SMT
  <2>2. HasFields(c)
    BY <1>4, <2>1
  <2>3. ASSUME r = AfterLayer(c)
        PROVE  Carries(c, r) /\ r.pc \in Connecting \cup {c.pc}
    BY <2>2, <2>3, AfterLayerFields DEF Carries
  <2>4. ASSUME \E a, b : r = [c EXCEPT !.pc = "twoHop", !.seen = a, !.cand = b, !.top = b]
        PROVE  Carries(c, r) /\ r.pc \in Connecting \cup {c.pc}
    BY <2>2, <2>4 DEF HasFields, Carries, Connecting
  <2> QED BY <1>1, <2>1, <2>3, <2>4 DEF Carries
<1> QED BY <1>2, <1>3, <1>4, <1>5, Connects DEF Only

\* The neighbours of one of them are read.
LEMMA TwoHopEInv ==
  ASSUME EInv, NEW t \in Threads, TwoHop(t)
  PROVE  EInv'
<1>1. \E a, b : \E p \in {"rewire", "twoHop"} :
         th'[t] = [th[t] EXCEPT !.seen = a, !.cand = b, !.pc = p]
  <2>1. PICK n : th' = [th EXCEPT ![t].seen = @ \cup Neighbours(n, th[t].lev),
                            ![t].cand = @ \ {n},
                            ![t].pc = IF th[t].cand = {n} THEN "rewire" ELSE "twoHop"]
    BY DEF TwoHop
  <2>2. PICK p \in {"rewire", "twoHop"} :
          th'[t] = [th[t] EXCEPT !.seen = th[t].seen \cup Neighbours(n, th[t].lev),
                                 !.cand = th[t].cand \ {n}, !.pc = p]
    BY <2>1 DEF EInv, Shape
  <2> QED BY <2>2
<1>2. th' = [u \in Threads |-> th'[u]] /\ \A u \in Threads : u # t => th'[u] = th[u]
  BY DEF EInv, Shape, TwoHop
<1>3. th[t].pc \in Connecting /\ UNCHANGED <<level, enterpoint, maxlevel, global>>
  BY DEF TwoHop, Connecting
<1>4. HasFields(th[t]) /\ th[t].upd \in BOOLEAN
  BY DEF EInv, Shape
<1>5. /\ HasFields(th'[t]) /\ th'[t].pc \in Connecting \cup {th[t].pc}
      /\ th'[t].upd = th[t].upd /\ th'[t].cur = th[t].cur /\ th'[t].max = th[t].max
  <2>1. PICK c, r : c = th[t] /\ r = th'[t]
    BY SMT
  <2>2. HasFields(c)
    BY <1>4, <2>1
  <2>3. \E a, b : \E p \in {"rewire", "twoHop"} : r = [c EXCEPT !.seen = a, !.cand = b, !.pc = p]
    BY <1>1, <2>1
  <2>4. Carries(c, r) /\ r.pc \in Connecting \cup {c.pc}
    BY <2>2, <2>3 DEF HasFields, Carries, Connecting
  <2> QED BY <2>1, <2>4 DEF Carries
<1> QED BY <1>2, <1>3, <1>4, <1>5, Connects DEF Only

\* One of them gets a new list.
LEMMA RewireEInv ==
  ASSUME EInv, NEW t \in Threads, Rewire(t)
  PROVE  EInv'
<1>1. \/ th'[t] = AfterLayer(th[t])
      \/ \E a : th'[t] = [th[t] EXCEPT !.top = a]
  BY DEF EInv, Shape, Rewire
<1>2. th' = [u \in Threads |-> th'[u]] /\ \A u \in Threads : u # t => th'[u] = th[u]
  BY DEF EInv, Shape, Rewire
<1>3. th[t].pc \in Connecting /\ UNCHANGED <<level, enterpoint, maxlevel, global>>
  BY DEF Rewire, Connecting
<1>4. HasFields(th[t]) /\ th[t].upd \in BOOLEAN
  BY DEF EInv, Shape
<1>5. /\ HasFields(th'[t]) /\ th'[t].pc \in Connecting \cup {th[t].pc}
      /\ th'[t].upd = th[t].upd /\ th'[t].cur = th[t].cur /\ th'[t].max = th[t].max
  <2>1. PICK c, r : c = th[t] /\ r = th'[t]
    BY SMT
  <2>2. HasFields(c)
    BY <1>4, <2>1
  <2>3. ASSUME r = AfterLayer(c)
        PROVE  Carries(c, r) /\ r.pc \in Connecting \cup {c.pc}
    BY <2>2, <2>3, AfterLayerFields DEF Carries
  <2>4. ASSUME \E a : r = [c EXCEPT !.top = a]
        PROVE  Carries(c, r) /\ r.pc \in Connecting \cup {c.pc}
    BY <2>2, <2>4 DEF HasFields, Carries, Connecting
  <2> QED BY <1>1, <2>1, <2>3, <2>4 DEF Carries
<1> QED BY <1>2, <1>3, <1>4, <1>5, Connects DEF Only

\* The call goes on to the level below, or ends.
LEMMA NextLevelEInv ==
  ASSUME EInv, NEW t \in Threads, NEW o, NextLevel(t, o),
         UNCHANGED <<level, enterpoint, maxlevel, global>>, th[t].pc \in Connecting
  PROVE  EInv'
<1>1. \E p \in {"finish", "start"} :
        th'[t] = [th[t] EXCEPT !.pc = p, !.lev = th[t].lev - 1, !.obj = o, !.sel = EmptyBag,
                               !.seen = {}, !.cand = {}, !.top = {}]
  BY DEF EInv, Shape, NextLevel
<1>2. th' = [u \in Threads |-> th'[u]] /\ \A u \in Threads : u # t => th'[u] = th[u]
  BY DEF EInv, Shape, NextLevel
<1>3. HasFields(th[t]) /\ th[t].upd \in BOOLEAN
  BY DEF EInv, Shape
<1>4. /\ HasFields(th'[t]) /\ th'[t].pc \in Connecting
      /\ th'[t].upd = th[t].upd /\ th'[t].cur = th[t].cur /\ th'[t].max = th[t].max
  <2>1. PICK c, r : c = th[t] /\ r = th'[t]
    BY SMT
  <2>2. HasFields(c)
    BY <1>3, <2>1
  <2>3. \E p \in {"finish", "start"} : 
              r = [c EXCEPT !.pc = p, !.lev = c.lev - 1, !.obj = o, !.sel = EmptyBag,
                            !.seen = {}, !.cand = {}, !.top = {}]
    BY <1>1, <2>1
  <2>4. Carries(c, r) /\ r.pc \in Connecting
    BY <2>2, <2>3 DEF HasFields, Carries, Connecting
  <2> QED BY <2>1, <2>4 DEF Carries
<1> QED BY <1>2, <1>3, <1>4, Connects DEF Only

\* The node's own list is written, or the call throws.
LEMMA WriteOwnListEInv ==
  ASSUME EInv, NEW t \in Threads, NEW selected, WriteOwnList(t, selected),
         UNCHANGED <<level, enterpoint, maxlevel>>, th[t].pc \in Connecting
  PROVE  EInv'
<1>1. \/ Fail(t)
      \/ /\ UNCHANGED global
         /\ \E next : \/ NextLevel(t, next)
                      \/ th' = [th EXCEPT ![t] =
                                [@ EXCEPT !.pc = "link", !.sel = selected, !.obj = next,
                                          !.seen = {}, !.cand = {}, !.top = {}]]
  BY DEF WriteOwnList
<1>2. ASSUME NEW next, UNCHANGED global,
             th' = [th EXCEPT ![t] = [@ EXCEPT !.pc = "link", !.sel = selected, !.obj = next,
                                               !.seen = {}, !.cand = {}, !.top = {}]]
      PROVE  EInv'
  <2>1. th'[t] = [th[t] EXCEPT !.pc = "link", !.sel = selected, !.obj = next,
                               !.seen = {}, !.cand = {}, !.top = {}]
    BY <1>2 DEF EInv, Shape
  <2>2. th' = [u \in Threads |-> th'[u]] /\ \A u \in Threads : u # t => th'[u] = th[u]
    BY <1>2 DEF EInv, Shape
  <2>3. HasFields(th[t]) /\ th[t].upd \in BOOLEAN
    BY DEF EInv, Shape
  <2>4. /\ HasFields(th'[t]) /\ th'[t].pc \in Connecting
        /\ th'[t].upd = th[t].upd /\ th'[t].cur = th[t].cur /\ th'[t].max = th[t].max
    <3>1. PICK c, r : c = th[t] /\ r = th'[t]
      BY SMT
    <3>2. HasFields(c)
      BY <2>3, <3>1
    <3>3. r = [c EXCEPT !.pc = "link", !.sel = selected, !.obj = next,
                            !.seen = {}, !.cand = {}, !.top = {}]
      BY <2>1, <3>1
    <3>4. Carries(c, r) /\ r.pc \in Connecting
      BY <3>2, <3>3 DEF HasFields, Carries, Connecting
    <3> QED BY <3>1, <3>4 DEF Carries
  <2> QED BY <1>2, <2>2, <2>3, <2>4, Connects DEF Only
<1> QED BY <1>1, <1>2, FailEInv, NextLevelEInv

\* An insertion or an update writes its own list, or an update leaves a level
\* as it is.
LEMMA ConnectEInv ==
  ASSUME EInv, NEW t \in Threads, ConnectInsert(t) \/ ConnectUpdate(t)
  PROVE  EInv'
<1>1. th[t].pc \in Connecting /\ UNCHANGED <<level, enterpoint, maxlevel>>
  BY DEF ConnectInsert, ConnectUpdate, SearchDone, Connecting
<1>2. \/ \E selected : WriteOwnList(t, selected)
      \/ \E o : NextLevel(t, o) /\ UNCHANGED global
  BY DEF ConnectInsert, ConnectUpdate
<1> QED BY <1>1, <1>2, WriteOwnListEInv, NextLevelEInv

\* A selected neighbour is linked back, or the call throws.
LEMMA LinkNeighbourEInv ==
  ASSUME EInv, NEW t \in Threads, LinkNeighbour(t)
  PROVE  EInv'
<1>1. th[t].pc \in Connecting /\ UNCHANGED <<level, enterpoint, maxlevel>>
  BY DEF LinkNeighbour, Connecting
<1>2. \/ Fail(t)
      \/ UNCHANGED global /\ \E o : NextLevel(t, o)
      \/ UNCHANGED global /\ \E b : th' = [th EXCEPT ![t].sel = b]
  BY DEF LinkNeighbour
<1>3. ASSUME NEW b, UNCHANGED global, th' = [th EXCEPT ![t].sel = b]
      PROVE  EInv'
  <2>1. th'[t] = [th[t] EXCEPT !.sel = b]
    BY <1>3 DEF EInv, Shape
  <2>2. th' = [u \in Threads |-> th'[u]] /\ \A u \in Threads : u # t => th'[u] = th[u]
    BY <1>3 DEF EInv, Shape
  <2>3. HasFields(th[t]) /\ th[t].upd \in BOOLEAN
    BY DEF EInv, Shape
  <2>4. /\ HasFields(th'[t]) /\ th'[t].pc = th[t].pc
        /\ th'[t].upd = th[t].upd /\ th'[t].cur = th[t].cur /\ th'[t].max = th[t].max
    BY <2>1, <2>3 DEF HasFields
  <2> QED BY <1>1, <1>3, <2>2, <2>3, <2>4, Connects DEF Only
<1> QED BY <1>1, <1>2, <1>3, FailEInv, NextLevelEInv

\* The repair of an update begins, or the call throws.
LEMMA BeginRepairEInv ==
  ASSUME EInv, NEW t \in Threads, BeginRepair(t)
  PROVE  EInv'
<1>1. th[t].pc \in Connecting /\ UNCHANGED <<level, enterpoint, maxlevel>>
  BY DEF BeginRepair, Connecting
<1>2. CASE Fail(t)
  BY <1>1, <1>2, FailEInv
<1>3. CASE ~Fail(t)
  <2>1. /\ UNCHANGED global
        /\ th' = [th EXCEPT ![t].obj = th[t].ep, ![t].lev = th[t].max,
                      ![t].pc = IF level[th[t].cur] < th[t].max THEN "descend" ELSE "start"]
    BY <1>3 DEF BeginRepair
  <2>2. \E p \in {"descend", "start"} :
          th'[t] = [th[t] EXCEPT !.obj = th[t].ep, !.lev = th[t].max, !.pc = p]
    BY <2>1 DEF EInv, Shape
  <2>3. th' = [u \in Threads |-> th'[u]] /\ \A u \in Threads : u # t => th'[u] = th[u]
    BY <2>1 DEF EInv, Shape
  <2>4. HasFields(th[t]) /\ th[t].upd \in BOOLEAN
    BY DEF EInv, Shape
  <2>5. /\ HasFields(th'[t]) /\ th'[t].pc \in Connecting
        /\ th'[t].upd = th[t].upd /\ th'[t].cur = th[t].cur /\ th'[t].max = th[t].max
    <3>1. PICK c, r : c = th[t] /\ r = th'[t]
      BY SMT
    <3>2. HasFields(c)
      BY <2>4, <3>1
    <3>3. \E p \in {"descend", "start"} : 
              r = [c EXCEPT !.obj = c.ep, !.lev = c.max, !.pc = p]
      BY <2>2, <3>1
    <3>4. Carries(c, r) /\ r.pc \in Connecting
      BY <3>2, <3>3 DEF HasFields, Carries, Connecting
    <3> QED BY <3>1, <3>4 DEF Carries
  <2> QED BY <1>1, <2>1, <2>3, <2>4, <2>5, Connects DEF Only
<1> QED BY <1>2, <1>3

\* Any number of calls may pass between the reads of an insertion.
LEMMA ReadEnterpointEInv ==
  ASSUME EInv, NEW t \in Threads, ReadEnterpoint(t) \/ CopyEnterpoint(t)
  PROVE  EInv'
<1>1. \/ th'[t] = [th[t] EXCEPT !.pc = "finish"]
      \/ th'[t] = [th[t] EXCEPT !.obj = enterpoint, !.pc = "copy"]
      \/ \E p \in {"descend", "epDeleted"} :
           th'[t] = [th[t] EXCEPT !.ep = enterpoint, !.lev = th[t].max, !.pc = p]
  BY DEF EInv, Shape, ReadEnterpoint, CopyEnterpoint
<1>2. th' = [u \in Threads |-> th'[u]] /\ \A u \in Threads : u # t => th'[u] = th[u]
  BY DEF EInv, Shape, ReadEnterpoint, CopyEnterpoint
<1>3. th[t].pc \in Connecting /\ UNCHANGED <<level, enterpoint, maxlevel, global>>
  BY DEF ReadEnterpoint, CopyEnterpoint, Connecting
<1>4. HasFields(th[t]) /\ th[t].upd \in BOOLEAN
  BY DEF EInv, Shape
<1>5. /\ HasFields(th'[t]) /\ th'[t].pc \in Connecting
      /\ th'[t].upd = th[t].upd /\ th'[t].cur = th[t].cur /\ th'[t].max = th[t].max
  <2>1. PICK c, r : c = th[t] /\ r = th'[t]
    BY SMT
  <2>2. HasFields(c)
    BY <1>4, <2>1
  <2>3. ASSUME r = [c EXCEPT !.pc = "finish"]
        PROVE  Carries(c, r) /\ r.pc \in Connecting
    BY <2>2, <2>3 DEF HasFields, Carries, Connecting
  <2>4. ASSUME r = [c EXCEPT !.obj = enterpoint, !.pc = "copy"]
        PROVE  Carries(c, r) /\ r.pc \in Connecting
    BY <2>2, <2>4 DEF HasFields, Carries, Connecting
  <2>5. ASSUME \E p \in {"descend", "epDeleted"} :
                 r = [c EXCEPT !.ep = enterpoint, !.lev = c.max, !.pc = p]
        PROVE  Carries(c, r) /\ r.pc \in Connecting
    BY <2>2, <2>5 DEF HasFields, Carries, Connecting
  <2> QED BY <1>1, <2>1, <2>3, <2>4, <2>5 DEF Carries
<1> QED BY <1>2, <1>3, <1>4, <1>5, Connects DEF Only

\* A thread that begins or leaves an update has no part in the invariant.
LEMMA Bystands ==
  ASSUME EInv, NEW t \in Threads, Only(t),
         UNCHANGED <<level, enterpoint, maxlevel, global>>,
         th[t].pc # "raise", th'[t].pc = "idle" \/ (th'[t].upd /\ th'[t].pc = "enterpoint")
  PROVE  EInv'
<1>1. Shape'
  BY DEF EInv, Shape, Only
<1>2. th'[t].pc # "raise" /\ th'[t].pc # "global" /\ (th'[t].pc \in Connecting => th'[t].upd)
  BY DEF Connecting
<1>3. Levelled' /\ HoldsGlobal'
  BY <1>2, SMT DEF EInv, Only, Levelled, HoldsGlobal, Shape
<1>4. Raising' /\ Settled'
  BY <1>2 DEF EInv, Only, Raising, Settled
<1> QED BY <1>1, <1>3, <1>4 DEF EInv

\* An update of the only element is over; any other goes to the first layer.
LEMMA UpdateEnterpointEInv ==
  ASSUME EInv, NEW t \in Threads, UpdateEnterpoint(t)
  PROVE  EInv'
<1>1. \/ th'[t] = Idle
      \/ th'[t] = [th[t] EXCEPT !.pc = "oneHop", !.ep = enterpoint, !.lev = 0]
  BY DEF EInv, Shape, UpdateEnterpoint
<1>2. th' = [u \in Threads |-> th'[u]] /\ \A u \in Threads : u # t => th'[u] = th[u]
  BY DEF EInv, Shape, UpdateEnterpoint
<1>3. th[t].pc = "enterpoint" /\ UNCHANGED <<level, enterpoint, maxlevel, global>>
  BY DEF UpdateEnterpoint
<1> USE <1>3
<1>4. HasFields(th[t]) /\ th[t].upd \in BOOLEAN
  BY DEF EInv, Shape
<1>5. CASE th'[t] = Idle
  <2>1. HasFields(th'[t]) /\ th'[t].upd \in BOOLEAN
    BY <1>5, IdleFields DEF Idle
  <2>2. th'[t].pc = "idle"
    BY <1>5, SMT DEF Idle
  <2>3. Only(t) /\ th[t].pc # "raise"
    BY <1>2, <2>1 DEF Only
  <2> QED BY <2>2, <2>3, Bystands
<1>6. CASE th'[t] = [th[t] EXCEPT !.pc = "oneHop", !.ep = enterpoint, !.lev = 0]
  <2>1. /\ HasFields(th'[t]) /\ th'[t].pc \in Connecting
        /\ th'[t].upd = th[t].upd /\ th'[t].cur = th[t].cur /\ th'[t].max = th[t].max
    BY <1>6, <1>4 DEF HasFields, Connecting
  <2>2. th[t].pc \in Connecting
    BY DEF Connecting
  <2> QED BY <1>2, <1>4, <2>1, <2>2, Connects DEF Only
<1> QED BY <1>1, <1>5, <1>6

\* An update begins.
LEMMA BeginUpdateEInv ==
  ASSUME EInv, NEW t \in Threads, NEW n \in Nodes, BeginUpdate(t, n)
  PROVE  EInv'
<1>1. th'[t] = [Idle EXCEPT !.pc = "enterpoint", !.upd = TRUE, !.cur = n, !.max = maxlevel]
  BY DEF EInv, Shape, BeginUpdate
<1>2. th' = [u \in Threads |-> th'[u]] /\ \A u \in Threads : u # t => th'[u] = th[u]
  BY DEF EInv, Shape, BeginUpdate
<1>3. th[t].pc # "raise" /\ UNCHANGED <<level, enterpoint, maxlevel, global>>
  BY DEF BeginUpdate
<1>4. PICK r : r = th'[t]
  BY SMT
<1>5. HasFields(r) /\ r.pc = "enterpoint" /\ r.upd = TRUE
  BY <1>1, <1>4 DEF Idle, HasFields
<1> QED BY <1>2, <1>3, <1>4, <1>5, Bystands DEF Only

\* A fresh node gets its level: it is nobody's node and not the entry point.
LEMMA BeginInsertEInv ==
  ASSUME EInv, NEW t \in Threads, NEW n \in Nodes, NEW lv \in Levels, BeginInsert(t, n, lv)
  PROVE  EInv'
<1>1. th'[t] = [Idle EXCEPT !.pc = "global", !.cur = n]
  BY DEF EInv, Shape, BeginInsert
<1>2. th' = [u \in Threads |-> th'[u]] /\ \A u \in Threads : u # t => th'[u] = th[u]
  BY DEF EInv, Shape, BeginInsert
<1> USE <1>2
<1>3. th[t].pc = "idle" /\ UNCHANGED <<enterpoint, maxlevel, global>>
  BY DEF BeginInsert
<1> USE <1>3
<1>4. HasFields(th'[t]) /\ th'[t].pc = "global" /\ th'[t].upd = FALSE /\ th'[t].cur = n
  <2>1. PICK r : r = th'[t]
    BY SMT
  <2>2. HasFields(r) /\ r.pc = "global" /\ r.upd = FALSE /\ r.cur = n
    BY <1>1, <2>1 DEF Idle, HasFields
  <2> QED BY <2>1, <2>2
<1>5. th'[t].pc = "global" /\ th'[t].upd = FALSE /\ th'[t].cur = n
  BY <1>4
<1> USE <1>5
<1>6. /\ level[n] = -1 /\ level' \in [Nodes -> Levels \cup {-1}] /\ level'[n] = lv
      /\ \A m \in Nodes : level[m] \in Levels => m # n /\ level'[m] = level[m]
  BY SMT DEF BeginInsert, EInv, Shape, Levels
<1> USE <1>6
<1>7. Shape'
  BY <1>4 DEF EInv, Shape
<1>8. Levelled'
  BY SMT DEF EInv, Levelled
<1>9. HoldsGlobal'
  BY SMT DEF EInv, Levelled, HoldsGlobal, Connecting
<1>10. Raising'
  BY SMT DEF EInv, Levelled, Raising
<1>11. Settled'
  BY SMT DEF EInv, Settled, Shape
<1> QED BY <1>7, <1>8, <1>9, <1>10, <1>11 DEF EInv

\* The global lock is free: nobody is above the top level or raises it.
LEMMA EnterGlobalEInv ==
  ASSUME EInv, NEW t \in Threads, EnterGlobal(t)
  PROVE  EInv'
<1>1. th'[t] = [th[t] EXCEPT !.pc = "enterpoint", !.max = maxlevel]
  BY DEF EInv, Shape, EnterGlobal
<1>2. th' = [u \in Threads |-> th'[u]] /\ \A u \in Threads : u # t => th'[u] = th[u]
  BY DEF EInv, Shape, EnterGlobal
<1> USE <1>2
<1>3. HasFields(th[t]) /\ th[t].upd \in BOOLEAN
  BY DEF EInv, Shape
<1>4. /\ HasFields(th'[t]) /\ th'[t].pc = "enterpoint"
      /\ th'[t].upd = th[t].upd /\ th'[t].cur = th[t].cur /\ th'[t].max = maxlevel
  BY <1>1, <1>3 DEF HasFields
<1> USE <1>4
<1>5. /\ UNCHANGED <<level, enterpoint, maxlevel>>
      /\ th[t].pc = "global" /\ global = NoThread /\ NoThread \notin Threads
      /\ global' = IF level[th[t].cur] <= maxlevel THEN NoThread ELSE t
  BY GraphAssumption DEF EnterGlobal
<1> USE <1>5
<1>6. Shape'
  BY <1>3 DEF EInv, Shape
<1>7. Levelled'
  BY DEF EInv, Levelled
<1>8. HoldsGlobal'
  <2> SUFFICES ASSUME NEW u \in Threads, th'[u].upd = FALSE, th'[u].pc \in Connecting
               PROVE  /\ th'[u].max \in Levels \cup {-1} /\ th'[u].max <= maxlevel
                      /\ level[th'[u].cur] > th'[u].max => global' = u /\ th'[u].max = maxlevel
    BY DEF HoldsGlobal
  <2>1. CASE u # t
    BY <2>1 DEF EInv, HoldsGlobal
  <2>2. CASE u = t
    <3>1. level[th[t].cur] \in Levels /\ maxlevel \in Levels \cup {-1}
      BY <2>2 DEF EInv, Levelled, Shape
    <3> QED BY <2>2, <3>1, GraphAssumption, SMT DEF Levels
  <2> QED BY <2>1, <2>2
<1>9. \A u \in Threads : th'[u].pc # "raise" /\ th[u].pc # "raise"
  BY DEF EInv, Raising
<1>10. Raising' /\ Settled'
  BY <1>9 DEF EInv, Raising, Settled
<1> QED BY <1>6, <1>7, <1>8, <1>10 DEF EInv

\* An insertion above the top level that is about to end is alone with the global
\* lock: no other call raises the top level.
LEMMA AboveIsAlone ==
  ASSUME EInv, NEW t \in Threads, th[t].pc = "finish", th[t].upd = FALSE,
         level[th[t].cur] > th[t].max
  PROVE  /\ global = t /\ th[t].cur \in Nodes
         /\ level[th[t].cur] \in Levels /\ level[th[t].cur] > maxlevel
         /\ \A u \in Threads : th[u].pc # "raise"
<1>1. th[t].pc \in Connecting
  BY DEF Connecting
<1>2. global = t /\ th[t].max = maxlevel
  BY <1>1 DEF EInv, HoldsGlobal
<1>3. th[t].cur \in Nodes /\ level[th[t].cur] \in Levels
  BY <1>1 DEF EInv, Levelled
<1> QED BY <1>2, <1>3 DEF EInv, Raising

\* A call ends, or its node becomes the entry point.
LEMMA FinishEInv ==
  ASSUME EInv, NEW t \in Threads, Finish(t)
  PROVE  EInv'
<1>1. th[t].pc = "finish" /\ UNCHANGED <<level, maxlevel>> /\ th[t].upd \in BOOLEAN
  BY DEF Finish, EInv, Shape
<1> USE <1>1
<1>2. CASE ~th[t].upd /\ level[th[t].cur] > th[t].max
  <2>1. /\ enterpoint' = th[t].cur /\ UNCHANGED global
        /\ th' = [th EXCEPT ![t] = [Idle EXCEPT !.pc = "raise", !.cur = th[t].cur]]
    BY <1>2 DEF Finish
  <2>2. th'[t] = [Idle EXCEPT !.pc = "raise", !.cur = th[t].cur]
    BY <2>1 DEF EInv, Shape
  <2>3. th' = [u \in Threads |-> th'[u]] /\ \A u \in Threads : u # t => th'[u] = th[u]
    BY <2>1 DEF EInv, Shape
  <2>4. HasFields(th'[t]) /\ th'[t].upd \in BOOLEAN
    BY <2>2, IdleFields DEF Idle
  <2>5. th'[t].pc = "raise" /\ th'[t].upd = FALSE /\ th'[t].cur = th[t].cur
    BY <2>2, SMT DEF Idle
  <2>6. th[t].upd = FALSE
    BY <1>2
  <2>7. /\ global = t /\ th[t].cur \in Nodes
        /\ level[th[t].cur] \in Levels /\ level[th[t].cur] > maxlevel
        /\ \A u \in Threads : th[u].pc # "raise"
    BY <1>2, <2>6, AboveIsAlone
  <2>8. Shape'
    BY <2>1, <2>3, <2>4, <2>7 DEF EInv, Shape
  <2>9. Levelled'
    BY <2>3, <2>5, <2>7 DEF EInv, Levelled
  <2>10. HoldsGlobal'
    BY <2>1, <2>3, <2>5 DEF EInv, HoldsGlobal, Connecting
  <2>11. Raising'
    BY <2>1, <2>3, <2>5, <2>7 DEF Raising
  <2>12. Settled'
    BY <2>5 DEF Settled
  <2> QED BY <2>8, <2>9, <2>10, <2>11, <2>12 DEF EInv
<1>3. CASE ~(~th[t].upd /\ level[th[t].cur] > th[t].max)
  <2>1. th' = [th EXCEPT ![t] = Idle] /\ Unlock(t) /\ UNCHANGED enterpoint
    BY <1>3 DEF Finish
  <2>2. th'[t] = Idle
    BY <2>1 DEF EInv, Shape
  <2>3. th' = [u \in Threads |-> th'[u]] /\ \A u \in Threads : u # t => th'[u] = th[u]
    BY <2>1 DEF EInv, Shape
  <2>4. HasFields(th'[t]) /\ th'[t].upd \in BOOLEAN
    BY <2>2, IdleFields DEF Idle
  <2>5. th'[t].pc = "idle" /\ th[t].pc \in Connecting
    BY <2>2, SMT DEF Idle, Connecting
  <2>6. Only(t)
    BY <2>3, <2>4 DEF Only
  <2> QED BY <2>1, <2>5, <2>6, Leaves
<1> QED BY <1>2, <1>3

\* maxlevel_ follows the entry point, and the global lock is given up.
LEMMA RaiseEInv ==
  ASSUME EInv, NEW t \in Threads, Raise(t)
  PROVE  EInv'
<1>1. /\ th[t].pc = "raise" /\ UNCHANGED <<level, enterpoint>>
      /\ maxlevel' = level[th[t].cur] /\ Unlock(t) /\ th' = [th EXCEPT ![t] = Idle]
  BY DEF Raise
<1> USE <1>1
<1>2. th'[t] = Idle
  BY DEF EInv, Shape
<1>3. th' = [u \in Threads |-> th'[u]] /\ \A u \in Threads : u # t => th'[u] = th[u]
  BY DEF EInv, Shape
<1> USE <1>3
<1>4. HasFields(th'[t]) /\ th'[t].upd \in BOOLEAN
  BY <1>2, IdleFields DEF Idle
<1>5. th'[t].pc = "idle"
  BY <1>2 DEF Idle
<1> USE <1>5
<1>6. th[t].upd = FALSE /\ global = t /\ enterpoint = th[t].cur /\ level[th[t].cur] > maxlevel
  BY DEF EInv, Raising
<1> USE <1>6
<1>7. th[t].cur \in Nodes /\ level[th[t].cur] \in Levels
  BY DEF EInv, Levelled
<1> USE <1>7
<1>8. Shape'
  BY <1>4 DEF EInv, Shape
<1>9. Levelled'
  BY DEF EInv, Levelled, Connecting
<1>10. HoldsGlobal'
  <2> SUFFICES ASSUME NEW u \in Threads, th'[u].upd = FALSE, th'[u].pc \in Connecting
               PROVE  /\ th'[u].max \in Levels \cup {-1} /\ th'[u].max <= maxlevel'
                      /\ level[th'[u].cur] > th'[u].max => global' = u /\ th'[u].max = maxlevel'
    BY DEF HoldsGlobal
  <2>1. u # t
    BY DEF Connecting
  <2>2. /\ th[u].max \in Levels \cup {-1} /\ th[u].max <= maxlevel
        /\ ~(level[th[u].cur] > th[u].max)
    BY <2>1 DEF EInv, HoldsGlobal
  <2> QED BY <2>1, <2>2, GraphAssumption, SMT DEF Levels, EInv, Shape
<1>11. \A u \in Threads : th'[u].pc # "raise"
  BY DEF EInv, Raising
<1>12. Raising' /\ Settled'
  <2>1. Raising'
    BY <1>11 DEF Raising
  <2>2. enterpoint # NoNode
    BY GraphAssumption
  <2> QED BY <2>1, <2>2 DEF Settled
<1> QED BY <1>8, <1>9, <1>10, <1>12 DEF EInv

\* An index begins with a top node as its entry point, or empty.
LEMMA InitEInv ==
  ASSUME Init
  PROVE  EInv
<1> USE GraphAssumption
<1>1. th = [t \in Threads |-> Idle] /\ level \in [Nodes -> Levels \cup {-1}]
  BY DEF Init
<1> USE <1>1
<1>2. \A t \in Threads : th[t] = Idle
  OBVIOUS
<1>3. HasFields(Idle) /\ Idle.upd \in BOOLEAN
  BY IdleFields DEF Idle
<1>4. Idle.pc = "idle"
  BY DEF Idle
<1>5. \/ enterpoint = NoNode /\ maxlevel = -1
      \/ enterpoint \in Nodes /\ level[enterpoint] \in Levels /\ maxlevel = level[enterpoint]
  <2>1. CASE Seeds = {}
    BY <2>1 DEF Init
  <2>2. CASE Seeds # {}
    <3>1. enterpoint \in Seeds /\ maxlevel = level[enterpoint] /\ Used = Seeds
      BY <2>2 DEF Init
    <3>2. enterpoint \in Nodes /\ level[enterpoint] >= 0
      BY <3>1 DEF Used
    <3> QED BY <3>1, <3>2, SMT DEF Levels
  <2> QED BY <2>1, <2>2
<1>6. Shape
  BY <1>2, <1>3, <1>5 DEF Shape
<1>7. Levelled /\ HoldsGlobal /\ Raising
  BY <1>2, <1>4 DEF Levelled, HoldsGlobal, Raising, Connecting
<1>8. Settled
  BY <1>5 DEF Settled
<1> QED BY <1>6, <1>7, <1>8 DEF EInv

\* Every step keeps the invariant.
LEMMA NextEInv ==
  ASSUME EInv, [Next]_vars
  PROVE  EInv'
<1>1. CASE UNCHANGED vars
  BY <1>1 DEF vars, EInv, Shape, Levelled, HoldsGlobal, Raising, Settled
<1>2. ASSUME NEW n \in Nodes, FlipMark(n)
      PROVE  EInv'
  BY <1>2 DEF FlipMark, EInv, Shape, Levelled, HoldsGlobal, Raising, Settled
<1>3. ASSUME NEW t \in Threads, Proceed(t)
      PROVE  EInv'
  BY <1>3, EnterGlobalEInv, ReadEnterpointEInv, DescendEInv, ReadEpDeletedEInv,
     StartSearchEInv, ExpandEInv, ConnectEInv, LinkNeighbourEInv, FinishEInv, RaiseEInv,
     UpdateEnterpointEInv, OneHopEInv, TwoHopEInv, RewireEInv, BeginRepairEInv
     DEF Proceed
<1> QED BY <1>1, <1>2, <1>3, BeginUpdateEInv, BeginInsertEInv DEF Next

\* Every step climbs: only the two writes of a call above the top level change
\* the entry point and maxlevel_.
LEMMA StepClimbs ==
  ASSUME EInv, [Next]_vars
  PROVE  /\ maxlevel' >= maxlevel
         /\ enterpoint' # enterpoint /\ enterpoint # NoNode =>
              level[enterpoint'] > level[enterpoint]
<1> maxlevel \in Int
  BY GraphAssumption, SMT DEF EInv, Shape, Levels
<1>1. ASSUME NEW t \in Threads, Finish(t)
      PROVE  /\ maxlevel' >= maxlevel
             /\ enterpoint' # enterpoint /\ enterpoint # NoNode =>
                  level[enterpoint'] > level[enterpoint]
  <2>1. maxlevel' = maxlevel /\ th[t].pc = "finish" /\ th[t].upd \in BOOLEAN
    BY <1>1 DEF Finish, EInv, Shape
  <2>2. CASE ~th[t].upd /\ level[th[t].cur] > th[t].max
    <3>1. enterpoint' = th[t].cur
      BY <1>1, <2>2 DEF Finish
    <3>2. th[t].upd = FALSE
      BY <2>1, <2>2
    <3>3. level[th[t].cur] > maxlevel /\ \A u \in Threads : th[u].pc # "raise"
      BY <2>1, <2>2, <3>2, AboveIsAlone
    <3> QED BY <2>1, <3>1, <3>3, SMT DEF EInv, Settled
  <2>3. CASE ~(~th[t].upd /\ level[th[t].cur] > th[t].max)
    <3>1. enterpoint' = enterpoint
      BY <1>1, <2>3 DEF Finish
    <3> QED BY <2>1, <3>1, SMT
  <2> QED BY <2>2, <2>3
<1>2. ASSUME NEW t \in Threads, Raise(t)
      PROVE  maxlevel' >= maxlevel /\ enterpoint' = enterpoint
  <2>1. th[t].pc = "raise" /\ maxlevel' = level[th[t].cur] /\ enterpoint' = enterpoint
    BY <1>2 DEF Raise
  <2>2. th[t].upd = FALSE /\ level[th[t].cur] > maxlevel
    BY <2>1 DEF EInv, Raising
  <2>3. level[th[t].cur] \in Int
    BY <2>1, <2>2, GraphAssumption, SMT DEF EInv, Levelled, Levels
  <2> QED BY <2>1, <2>2, <2>3, SMT
<1>3. ASSUME NEW t \in Threads, Proceed(t), ~Finish(t), ~Raise(t)
      PROVE  maxlevel' = maxlevel /\ enterpoint' = enterpoint
  BY <1>3 DEF Proceed, EnterGlobal, ReadEnterpoint, CopyEnterpoint, Descend, ReadEpDeleted,
     StartSearch, Expand, ConnectInsert, LinkNeighbour, UpdateEnterpoint, OneHop, TwoHop, Rewire,
     BeginRepair, ConnectUpdate
<1>4. ASSUME NEW t \in Threads, NEW n \in Nodes,
             BeginUpdate(t, n) \/ \E lv \in Levels : BeginInsert(t, n, lv)
      PROVE  maxlevel' = maxlevel /\ enterpoint' = enterpoint
  BY <1>4 DEF BeginUpdate, BeginInsert
<1>5. ASSUME NEW n \in Nodes, FlipMark(n)
      PROVE  maxlevel' = maxlevel /\ enterpoint' = enterpoint
  BY <1>5 DEF FlipMark
<1>6. CASE UNCHANGED vars
  BY <1>6, SMT DEF vars
<1>7. ASSUME maxlevel' = maxlevel /\ enterpoint' = enterpoint
      PROVE  maxlevel' >= maxlevel
  BY <1>7, SMT
<1> QED BY <1>1, <1>2, <1>3, <1>4, <1>5, <1>6, <1>7 DEF Next

\* For any number of threads, elements and levels: maxlevel_ never falls, and an
\* entry point is only ever replaced by one of a higher level, whatever the
\* insertions, updates and delete marks that addPoint interleaves.
THEOREM EntryPointAlwaysClimbs == Spec => EntryPointClimbs
<1>1. EInv /\ [Next]_vars =>
        [ /\ maxlevel' >= maxlevel
          /\ enterpoint' # enterpoint /\ enterpoint # NoNode =>
               level[enterpoint'] > level[enterpoint] ]_vars
  BY StepClimbs
<1> QED BY <1>1, InitEInv, NextEInv, PTL DEF Spec, EntryPointClimbs

-----------------------------------------------------------------------------
(* GInv: steps that write no list, and what the writing of one leaves alone *)

\* Levels are small natural numbers.
LEMMA LevelFacts ==
  /\ \A l \in Levels : l \in Int /\ l >= 0 /\ l <= MaxLevel
  /\ \A l \in Int : 0 <= l /\ l <= MaxLevel => l \in Levels
  /\ \A l \in Levels : Mcurmax(l) \in Nat /\ Mcurmax(l) >= M /\ M >= 2
BY GraphAssumption, SMT DEF Levels, Mcurmax

\* The level below one that lies above level b is a level, and not below b.
LEMMA LevelBelow ==
  ASSUME NEW a \in Levels, NEW b \in Levels, NEW d \in Levels \cup {-1}, a - 1 > b, d >= a
  PROVE  a - 1 \in Levels /\ b < a - 1 /\ d >= a - 1
BY GraphAssumption, SMT DEF Levels

\* An element whose lock nobody holds is inserted completely.
LEMMA LockFreeFinished ==
  ASSUME EInv, GInv, NEW n \in Nodes, level[n] >= 0, LockFree(n)
  PROVE  n \in Finished
<1> SUFFICES ASSUME NEW t \in Threads, th[t].upd = FALSE, th[t].cur = n
             PROVE  FALSE
  BY DEF Finished, Used, EInv, Shape
<1>1. RoleOK(th[t])
  BY DEF GInv, CallOK
<1>2. Inserting(th[t])
  BY <1>1, GraphAssumption DEF RoleOK, Updating
<1>3. link_list_locks[n] = t
  BY <1>2 DEF GInv, Locks
<1> QED BY <1>3, GraphAssumption DEF LockFree

\* An element that is being inserted is not finished.
LEMMA InsertedNotFinished ==
  ASSUME NEW t \in Threads, Inserting(th[t])
  PROVE  th[t].cur \notin Finished
BY DEF Inserting, Finished

\* A call that the others do not disturb stays in order.
LEMMA CallKept ==
  ASSUME EInv, EInv', NEW c, c.upd \in BOOLEAN, CallOK(c), Undisturbed(c)
  PROVE  CallOK(c)'
<1> USE LevelFacts
<1>0. level \in [Nodes -> Levels \cup {-1}] /\ maxlevel \in Levels \cup {-1}
      /\ level' \in [Nodes -> Levels \cup {-1}] /\ maxlevel' \in Levels \cup {-1}
  BY DEF EInv, Shape
<1> USE <1>0
<1>1. Used \subseteq Used' /\ Finished \subseteq Used /\ Used \subseteq Nodes
  BY DEF Undisturbed, Used, Finished
<1> USE <1>1
<1>2. \A n \in Nodes : level[n] >= 0 => level'[n] = level[n]
  BY DEF Undisturbed
<1> USE <1>2
<1>3. RoleOK(c)'
  <2>1. CASE c.pc = "idle" /\ c.cur = NoNode /\ c.max = -1
    BY <2>1 DEF RoleOK
  <2>2. CASE Inserting(c) /\ c.cur \in Used /\ c.pc \notin {"oneHop", "twoHop", "rewire", "repair"}
    BY <2>2 DEF RoleOK, Inserting
  <2>3. CASE /\ Updating(c) /\ c.cur \in Finished \ marked /\ c.pc \notin {"copy", "epDeleted"}
             /\ c.max \in Levels /\ level[c.cur] <= c.max
    BY <2>3 DEF RoleOK, Updating, Undisturbed, Used
  <2> QED BY <2>1, <2>2, <2>3 DEF CallOK, RoleOK
<1>4. ReadOK(c)'
  BY SMT DEF CallOK, ReadOK, Undisturbed
<1>5. c.pc # "idle" /\ c.pc # "raise" => c.cur \in Nodes /\ level[c.cur] >= 0
  BY DEF CallOK, RoleOK, Used
<1> USE <1>5
<1>6. PlaceOK(c)'
  <2>1. c.pc = "descend" =>
         /\ c.lev \in Levels /\ level'[c.cur] < c.lev
         /\ c.obj \in Nodes /\ level'[c.obj] >= c.lev
    BY SMT DEF CallOK, PlaceOK
  <2>2. c.pc = "epDeleted" =>
         c.obj \in Nodes /\ level'[c.obj] >= Minimum(level'[c.cur], c.max)
    BY SMT DEF CallOK, PlaceOK, ReadOK, Minimum, Connecting
  <2>3. c.pc \in {"start", "search", "link"} =>
         /\ c.lev \in Levels /\ c.lev <= level'[c.cur] /\ c.lev <= c.max
         /\ c.obj \in Nodes /\ level'[c.obj] >= c.lev
    BY SMT DEF CallOK, PlaceOK
  <2>4. c.pc \in {"oneHop", "twoHop", "rewire"} => c.lev \in Levels /\ c.lev <= level'[c.cur]
    BY DEF CallOK, PlaceOK
  <2>5. c.pc = "copy" => c.max \in Levels /\ c.obj \in Nodes /\ level'[c.obj] >= c.max
    BY SMT DEF CallOK, PlaceOK
  <2> QED BY <2>1, <2>2, <2>3, <2>4, <2>5 DEF PlaceOK
<1>7. SetsOK(c)'
  BY DEF CallOK, SetsOK, Undisturbed, Used
<1>8. SelOK(c)'
  BY DEF CallOK, SelOK, Undisturbed, Used
<1>9. Blank(c)'
  BY DEF CallOK, Blank, Undisturbed, Inserting, Ahead
<1> QED BY <1>3, <1>4, <1>6, <1>7, <1>8, <1>9 DEF CallOK

\* A thread that changes lists only, and stays in its call.
LEMMA FinishedSame ==
  ASSUME NEW t \in Threads, NEW r, Moves(t, r), UNCHANGED level,
         r.upd = th[t].upd, r.cur = th[t].cur
  PROVE  Finished' = Finished
<1>1. \A u \in Threads : th'[u].upd = th[u].upd /\ th'[u].cur = th[u].cur
  BY DEF Moves
<1>2. Used' = Used
  BY DEF Used
<1> QED BY <1>1, <1>2 DEF Finished

\* A step of one call that may write a list keeps the invariant, when the lists and
\* the call itself stay in order and no list of another insertion is written.
LEMMA ListStep ==
  ASSUME EInv, EInv', GInv, NEW t \in Threads, NEW r, Moves(t, r),
         UNCHANGED <<level, marked, enterpoint, maxlevel, link_list_locks, global>>,
         r.upd = th[t].upd, r.cur = th[t].cur,
         th[t].pc \in Connecting, r.pc \in Connecting,
         Lists', CallOK(r)',
         \A u \in Threads : u # t /\ Inserting(th[u]) => links'[th[u].cur] = links[th[u].cur]
  PROVE  GInv'
<1>1. Finished' = Finished
  BY FinishedSame
<1>2. \A u \in Threads : Inserting(th'[u]) <=> Inserting(th[u])
  BY DEF Moves, Inserting, Connecting
<1>3. \A u \in Threads : th'[u].cur = th[u].cur /\ (th'[u].pc = "raise" <=> th[u].pc = "raise")
  BY DEF Moves, Connecting
<1>4. Locks'
  BY <1>2, <1>3, SMT DEF GInv, Locks
<1>5. Tops'
  BY <1>1, <1>2, <1>3, SMT DEF GInv, Tops
<1>6. ASSUME NEW u \in Threads
      PROVE  CallOK(th[u])'
  <2>1. PICK d : d = th'[u]
    OBVIOUS
  <2>2. CASE u # t
    <3>1. d = th[u] /\ CallOK(d) /\ d.upd \in BOOLEAN
      BY <2>1, <2>2 DEF GInv, EInv, Shape, Moves
    <3>2. Updating(d) => d.cur \notin marked'
      BY <3>1 DEF CallOK, RoleOK, Inserting, Updating, Connecting
    <3>3. maxlevel' >= maxlevel
      BY LevelFacts, SMT DEF EInv, Shape
    <3>4. Undisturbed(d)
      BY <2>2, <3>1, <3>2, <3>3, <1>1 DEF Undisturbed
    <3>5. CallOK(d)'
      BY <3>1, <3>4, CallKept, SMT
    <3> QED BY <2>1, <3>5
  <2>3. CASE u = t
    BY <2>3 DEF Moves
  <2> QED BY <2>2, <2>3
<1> QED BY <1>4, <1>5, <1>6 DEF GInv

\* A thread that changes nothing shared, and stays in its call.
LEMMA LocalStep ==
  ASSUME EInv, EInv', GInv, NEW t \in Threads, NEW r, Moves(t, r),
         UNCHANGED <<level, links, marked, enterpoint, maxlevel, link_list_locks, global>>,
         r.upd = th[t].upd, r.cur = th[t].cur,
         th[t].pc \in Connecting, r.pc \in Connecting, CallOK(r)
  PROVE  GInv'
<1>1. Finished' = Finished
  BY FinishedSame
<1>2. Lists'
  BY DEF GInv, Lists, ListOK
<1>3. r.upd \in BOOLEAN /\ maxlevel' >= maxlevel
  BY LevelFacts, SMT DEF EInv, Shape
<1>4. Updating(r) => r.cur \notin marked'
  BY DEF CallOK, RoleOK, Inserting, Updating, Connecting
<1>5. CallOK(r)'
  BY <1>1, <1>3, <1>4, CallKept, SMT DEF Undisturbed
<1> QED BY <1>2, <1>5, ListStep

\* A call that goes on with what it has read keeps its role.
LEMMA StaysInCall ==
  ASSUME NEW c, NEW r, c.upd \in BOOLEAN, CallOK(c), Follows(c, r)
  PROVE  RoleOK(r) /\ ReadOK(r)
<1>1. ReadOK(r)
  BY DEF CallOK, ReadOK, Follows
<1> USE <1>1
<1>2. c.pc # "idle"
  BY DEF Connecting, Follows
<1>3. CASE c.upd = TRUE
  BY <1>2, <1>3 DEF CallOK, RoleOK, Inserting, Updating, Follows
<1>4. CASE c.upd = FALSE
  BY <1>2, <1>4 DEF CallOK, RoleOK, Inserting, Updating, Follows
<1> QED BY <1>3, <1>4

\* The node a call is about.
LEMMA CurFacts ==
  ASSUME EInv, NEW c, CallOK(c), c.pc # "idle"
  PROVE  /\ c.cur \in Nodes /\ level[c.cur] \in Levels /\ c.max \in Levels \cup {-1}
         /\ level \in [Nodes -> Levels \cup {-1}]
<1>1. level \in [Nodes -> Levels \cup {-1}]
  BY DEF EInv, Shape
<1>2. c.cur \in Used
  BY DEF CallOK, RoleOK, Finished
<1> QED BY <1>1, <1>2, LevelFacts, SMT DEF CallOK, ReadOK, Used

\* searchBaseLayer starts from currObj.
LEMMA StartSearchG ==
  ASSUME EInv, EInv', GInv, NEW t \in Threads, StartSearch(t)
  PROVE  GInv'
<1>1. PICK c : c = th[t]
  OBVIOUS
<1> USE <1>1
<1>2. HasFields(c) /\ c.upd \in BOOLEAN /\ CallOK(c) /\ c.pc = "start"
  BY DEF EInv, Shape, GInv, StartSearch
<1> USE <1>2
<1>3. PICK r : r = [c EXCEPT !.pc = "search", !.seen = {c.obj}, !.cand = {c.obj},
                             !.top = {c.obj} \ marked]
  OBVIOUS
<1>4. /\ r.pc = "search" /\ r.upd = c.upd /\ r.cur = c.cur /\ r.max = c.max /\ r.ep = c.ep
      /\ r.epDeleted = c.epDeleted /\ r.obj = c.obj /\ r.lev = c.lev
      /\ r.seen = {c.obj} /\ r.cand = {c.obj} /\ r.top = {c.obj} \ marked
  BY <1>3 DEF HasFields
<1> USE <1>4
<1>5. Moves(t, r)
  BY <1>3 DEF EInv, Shape, StartSearch, Moves
<1>6. RoleOK(r) /\ ReadOK(r)
  <2>1. Follows(c, r)
    BY DEF Follows, Connecting
  <2> QED BY <2>1, StaysInCall, SMT
<1>7. PlaceOK(r)
  BY DEF CallOK, PlaceOK
<1>8. c.obj \in Nodes /\ level[c.obj] >= c.lev /\ c.lev \in Levels
  BY DEF CallOK, PlaceOK
<1>9. SetsOK(r)
  <2>1. c.obj \in Used
    BY <1>8, LevelFacts, SMT DEF Used, EInv, Shape
  <2>2. Markable = {} => marked = {}
    BY DEF GInv, Tops
  <2> QED BY <1>8, <2>1, <2>2 DEF CallOK, SetsOK
<1>10. SelOK(r)
  BY DEF SelOK
<1>11. Blank(r)
  BY DEF CallOK, Blank, Ahead, Inserting, Connecting
<1>12. CallOK(r)
  BY <1>6, <1>7, <1>9, <1>10, <1>11 DEF CallOK
<1>13. UNCHANGED <<level, links, marked, enterpoint, maxlevel, link_list_locks, global>>
  BY DEF StartSearch
<1> QED BY <1>5, <1>12, <1>13, LocalStep DEF Connecting

\* addPoint reads the mark of the entry point once, before the first level.
LEMMA ReadEpDeletedG ==
  ASSUME EInv, EInv', GInv, NEW t \in Threads, ReadEpDeleted(t)
  PROVE  GInv'
<1>1. PICK c : c = th[t]
  OBVIOUS
<1> USE <1>1
<1>2. HasFields(c) /\ c.upd \in BOOLEAN /\ CallOK(c) /\ c.pc = "epDeleted"
  BY DEF EInv, Shape, GInv, ReadEpDeleted
<1> USE <1>2
<1>3. PICK r : r = [c EXCEPT !.pc = "start", !.epDeleted = (c.ep \in marked),
                             !.lev = Minimum(level[c.cur], c.max)]
  OBVIOUS
<1> USE <1>3
<1>4. /\ r.pc = "start" /\ r.upd = c.upd /\ r.cur = c.cur /\ r.max = c.max /\ r.ep = c.ep
      /\ r.obj = c.obj /\ r.lev = Minimum(level[c.cur], c.max)
      /\ r.seen = c.seen /\ r.cand = c.cand /\ r.top = c.top
  BY DEF HasFields
<1> USE <1>4
<1>5. r.epDeleted = (c.ep \in marked)
  BY DEF HasFields
<1>6. Moves(t, r)
  BY DEF EInv, Shape, ReadEpDeleted, Moves
<1>7. RoleOK(r) /\ ReadOK(r)
  <2>1. Follows(c, r)
    BY DEF Follows, Connecting
  <2> QED BY <2>1, StaysInCall, SMT
<1>8. /\ c.max \in Levels /\ c.cur \in Nodes /\ level[c.cur] \in Levels
      /\ c.obj \in Nodes /\ level[c.obj] >= Minimum(level[c.cur], c.max)
  BY CurFacts DEF CallOK, PlaceOK, ReadOK, Connecting
<1>9. PlaceOK(r)
  BY <1>8, LevelFacts, SMT DEF PlaceOK, Minimum
<1>10. SetsOK(r)
  BY <1>5 DEF CallOK, SetsOK, GInv, Tops
<1>11. SelOK(r)
  BY DEF SelOK
<1>12. Blank(r)
  BY SMT DEF CallOK, Blank, Ahead, Inserting, Connecting
<1>13. CallOK(r)
  BY <1>7, <1>9, <1>10, <1>11, <1>12 DEF CallOK
<1>14. UNCHANGED <<level, links, marked, enterpoint, maxlevel, link_list_locks, global>>
  BY DEF ReadEpDeleted
<1> QED BY <1>6, <1>13, <1>14, LocalStep DEF Connecting

\* A step of a call that changes nothing shared.
LEMMA LocalCall ==
  ASSUME EInv, EInv', GInv, NEW t \in Threads, NEW c, c = th[t], NEW r, Moves(t, r),
         UNCHANGED <<level, links, marked, enterpoint, maxlevel, link_list_locks, global>>,
         Follows(c, r), PlaceOK(r), SetsOK(r), SelOK(r), Blank(r)
  PROVE  GInv'
<1>1. c.upd \in BOOLEAN /\ CallOK(c)
  BY DEF EInv, Shape, GInv
<1>2. CallOK(r)
  BY <1>1, StaysInCall, SMT DEF CallOK
<1>3. /\ r.upd = th[t].upd /\ r.cur = th[t].cur
      /\ th[t].pc \in Connecting /\ r.pc \in Connecting
  BY DEF Follows
<1> QED BY <1>2, <1>3, LocalStep

\* The list of a node at a level it has.
LEMMA NeighbourFacts ==
  ASSUME EInv, GInv, NEW n \in Nodes, NEW l \in Levels, NEW m \in Neighbours(n, l)
  PROVE  m \in Used /\ m \in Nodes /\ m # n /\ level[m] >= l /\ level[n] >= l
<1>1. ListOK(n, l, links[n][l])
  BY DEF GInv, Lists
<1>2. m \in Nodes /\ m # n /\ level[m] >= l /\ level[n] >= l
  BY <1>1 DEF ListOK, Neighbours
<1> QED BY <1>2, LevelFacts, SMT DEF Used, EInv, Shape

\* The greedy descent stays on levels that exist: a neighbour on a level has it, and
\* so has, a level lower, the element reached.
LEMMA DescendG ==
  ASSUME EInv, EInv', GInv, NEW t \in Threads, Descend(t)
  PROVE  GInv'
<1> USE LevelFacts
<1>1. PICK c : c = th[t]
  OBVIOUS
<1> USE <1>1
<1>2. HasFields(c) /\ c.upd \in BOOLEAN /\ CallOK(c) /\ c.pc = "descend"
  BY DEF EInv, Shape, GInv, Descend
<1> USE <1>2
<1>3. UNCHANGED <<level, links, marked, enterpoint, maxlevel, link_list_locks, global>>
  BY DEF Descend
<1> USE <1>3
<1>4. \A u \in Threads : u # t => th'[u] = th[u]
  BY DEF EInv, Shape, Descend
<1> USE <1>4
<1>5. \/ \E n \in Neighbours(c.obj, c.lev) :
            th'[t] = [c EXCEPT !.obj = n, !.seen = c.seen \cup {c.obj}]
      \/ c.lev - 1 > level[c.cur] /\ th'[t] = [c EXCEPT !.lev = c.lev - 1]
      \/ /\ ~(c.lev - 1 > level[c.cur])
         /\ \E p : /\ p = IF c.upd THEN "start" ELSE "epDeleted"
                   /\ th'[t] = [c EXCEPT !.lev = c.lev - 1, !.seen = {}, !.pc = p]
  <2>1. th = [u \in Threads |-> th[u]]
    BY DEF EInv, Shape
  <2>2. CASE \E n \in Neighbours(c.obj, c.lev) \ (c.seen \cup {c.obj}) :
               th' = [th EXCEPT ![t].obj = n, ![t].seen = @ \cup {c.obj}]
    BY <2>1, <2>2
  <2>3. CASE th' = [th EXCEPT ![t] =
                      IF c.lev - 1 > level[c.cur] THEN [@ EXCEPT !.lev = c.lev - 1]
                      ELSE [@ EXCEPT !.lev = c.lev - 1, !.seen = {},
                                     !.pc = IF c.upd THEN "start" ELSE "epDeleted"]]
    BY <2>1, <2>3
  <2> QED BY <2>2, <2>3 DEF Descend
<1>6. /\ c.lev \in Levels /\ level[c.cur] < c.lev /\ c.obj \in Nodes /\ level[c.obj] >= c.lev
      /\ c.cur \in Nodes /\ level[c.cur] \in Levels /\ c.max \in Levels
      /\ level \in [Nodes -> Levels \cup {-1}]
  BY CurFacts DEF CallOK, PlaceOK, ReadOK, Connecting
<1> USE <1>6
<1>7. c.seen \cup c.cand \cup c.top \subseteq Used /\ c.obj \in Used
  BY SMT DEF CallOK, SetsOK, Used
<1> USE <1>7
<1>8. Inserting(c) => \A l \in Levels : links[c.cur][l] = EmptyBag
  BY DEF CallOK, Blank, Ahead
<1> USE <1>8
<1>9. ASSUME NEW n \in Neighbours(c.obj, c.lev), NEW r, th'[t] = r,
             r = [c EXCEPT !.obj = n, !.seen = c.seen \cup {c.obj}]
      PROVE  GInv'
  <2>1. /\ r.pc = c.pc /\ r.upd = c.upd /\ r.cur = c.cur /\ r.max = c.max /\ r.ep = c.ep
        /\ r.obj = n /\ r.lev = c.lev /\ r.seen = c.seen \cup {c.obj}
        /\ r.cand = c.cand /\ r.top = c.top
    BY <1>9 DEF HasFields
  <2>2. n \in Nodes /\ level[n] >= c.lev
    BY NeighbourFacts
  <2>3. PlaceOK(r)
    BY <2>1, <2>2 DEF PlaceOK
  <2>4. SetsOK(r) /\ SelOK(r)
    BY <2>1 DEF SetsOK, SelOK
  <2>5. Blank(r)
    BY <2>1 DEF Blank, Inserting, Ahead
  <2>6. Follows(c, r)
    BY <2>1 DEF Follows, Connecting
  <2> QED BY <1>9, <2>3, <2>4, <2>5, <2>6, LocalCall DEF Moves
<1>10. ASSUME c.lev - 1 > level[c.cur], NEW r, th'[t] = r, r = [c EXCEPT !.lev = c.lev - 1]
       PROVE  GInv'
  <2>1. /\ r.pc = c.pc /\ r.upd = c.upd /\ r.cur = c.cur /\ r.max = c.max /\ r.ep = c.ep
        /\ r.obj = c.obj /\ r.lev = c.lev - 1 /\ r.seen = c.seen /\ r.cand = c.cand /\ r.top = c.top
    BY <1>10 DEF HasFields
  <2>0. c.lev - 1 \in Levels /\ level[c.cur] < c.lev - 1 /\ level[c.obj] >= c.lev - 1
    <3>1. level[c.obj] \in Levels \cup {-1}
      BY <1>6
    <3> QED BY <1>6, <1>10, <3>1, LevelBelow
  <2>2. PlaceOK(r)
    BY <2>0, <2>1 DEF PlaceOK
  <2>3. SetsOK(r) /\ SelOK(r)
    BY <2>1 DEF SetsOK, SelOK
  <2>4. Blank(r)
    BY <2>1 DEF Blank, Inserting, Ahead
  <2>5. Follows(c, r)
    BY <2>1 DEF Follows, Connecting
  <2> QED BY <1>10, <2>2, <2>3, <2>4, <2>5, LocalCall DEF Moves
<1>11. ASSUME ~(c.lev - 1 > level[c.cur]), NEW p, p = IF c.upd THEN "start" ELSE "epDeleted",
              NEW r, th'[t] = r, r = [c EXCEPT !.lev = c.lev - 1, !.seen = {}, !.pc = p]
       PROVE  GInv'
  <2>1. /\ r.pc = p /\ r.upd = c.upd /\ r.cur = c.cur /\ r.max = c.max /\ r.ep = c.ep
        /\ r.obj = c.obj /\ r.lev = c.lev - 1 /\ r.seen = {} /\ r.cand = c.cand /\ r.top = c.top
    BY <1>11 DEF HasFields
  <2>2. c.lev - 1 = level[c.cur]
    BY <1>11, SMT
  <2>3. p \in {"start", "epDeleted"} /\ (c.upd = TRUE => p = "start")
        /\ (c.upd = FALSE => p = "epDeleted")
    BY <1>11
  <2>4. PlaceOK(r)
    <3>1. CASE p = "start"
      <4>1. c.upd = TRUE
        BY <2>3, <3>1
      <4>2. level[c.cur] <= c.max
        BY <4>1 DEF CallOK, RoleOK, Inserting
      <4> QED BY <2>1, <2>2, <3>1, <4>2, SMT DEF PlaceOK
    <3>2. CASE p = "epDeleted"
      BY <2>1, <2>2, <3>2, SMT DEF PlaceOK, Minimum
    <3> QED BY <2>3, <3>1, <3>2
  <2>5. SetsOK(r) /\ SelOK(r)
    BY <2>1, <2>3 DEF SetsOK, SelOK
  <2>6. Blank(r)
    BY <2>1 DEF Blank, Inserting, Ahead, Connecting
  <2>7. Follows(c, r)
    BY <2>1, <2>3 DEF Follows, Connecting
  <2> QED BY <1>11, <2>4, <2>5, <2>6, <2>7, LocalCall DEF Moves
<1> QED BY <1>5, <1>9, <1>10, <1>11

\* A layer of an update is done.
LEMMA AfterLayerG ==
  ASSUME EInv, NEW c, HasFields(c), c.upd \in BOOLEAN, CallOK(c),
         c.pc \in {"oneHop", "rewire"}, NEW r, r = AfterLayer(c)
  PROVE  Follows(c, r) /\ PlaceOK(r) /\ SetsOK(r) /\ SelOK(r) /\ Blank(r)
<1>1. c.upd = TRUE
  BY DEF CallOK, RoleOK, Updating
<1>2. c.lev \in Levels /\ c.lev <= level[c.cur] /\ level[c.cur] \in Levels
  BY CurFacts DEF CallOK, PlaceOK
<1>3. /\ r.upd = c.upd /\ r.cur = c.cur /\ r.max = c.max /\ r.ep = c.ep
      /\ r.seen = {} /\ r.cand = {} /\ r.top = {}
      /\ \/ c.lev < level[c.cur] /\ r.pc = "oneHop" /\ r.lev = c.lev + 1
         \/ r.pc = "repair"
  BY DEF AfterLayer, HasFields
<1> USE <1>3
<1>4. Follows(c, r)
  BY <1>1 DEF Follows, Connecting
<1>5. c.lev < level[c.cur] => c.lev + 1 \in Levels /\ c.lev + 1 <= level[c.cur]
  BY <1>2, GraphAssumption, SMT DEF Levels
<1>8. PlaceOK(r)
  BY <1>5 DEF PlaceOK
<1>6. SetsOK(r) /\ SelOK(r)
  BY DEF SetsOK, SelOK
<1>7. Blank(r)
  BY <1>1 DEF Blank, Inserting
<1> QED BY <1>4, <1>6, <1>7, <1>8

\* updatePoint collects the neighbours of the point,
LEMMA OneHopG ==
  ASSUME EInv, EInv', GInv, NEW t \in Threads, OneHop(t)
  PROVE  GInv'
<1>1. PICK c : c = th[t]
  OBVIOUS
<1> USE <1>1
<1>2. HasFields(c) /\ c.upd \in BOOLEAN /\ CallOK(c) /\ c.pc = "oneHop"
  BY DEF EInv, Shape, GInv, OneHop
<1> USE <1>2
<1>3. UNCHANGED <<level, links, marked, enterpoint, maxlevel, link_list_locks, global>>
  BY DEF OneHop
<1>4. PICK hop : hop = Neighbours(c.cur, c.lev)
  OBVIOUS
<1>5. PICK r : /\ r = IF hop = {} THEN AfterLayer(c)
                      ELSE [c EXCEPT !.pc = "twoHop", !.seen = hop \cup {c.cur},
                                     !.cand = hop, !.top = hop]
               /\ th' = [th EXCEPT ![t] = r]
  BY <1>4 DEF OneHop
<1> USE <1>5
<1>6. Moves(t, r)
  BY DEF EInv, Shape, Moves
<1>7. CASE hop = {}
  BY <1>3, <1>6, <1>7, AfterLayerG, LocalCall
<1>8. CASE hop # {}
  <2>1. /\ r.pc = "twoHop" /\ r.upd = c.upd /\ r.cur = c.cur /\ r.max = c.max /\ r.ep = c.ep
        /\ r.obj = c.obj /\ r.lev = c.lev
        /\ r.seen = hop \cup {c.cur} /\ r.cand = hop /\ r.top = hop
    BY <1>8 DEF HasFields
  <2>2. c.lev \in Levels /\ c.lev <= level[c.cur] /\ c.cur \in Nodes /\ c.cur \in Used
    BY CurFacts, LevelFacts DEF CallOK, PlaceOK, Used
  <2>3. \A m \in hop : m \in Used /\ level[m] >= c.lev
    BY <1>4, <2>2, NeighbourFacts
  <2>4. level[c.cur] >= c.lev
    BY <2>2, CurFacts, LevelFacts
  <2>5. SetsOK(r)
    BY <2>1, <2>2, <2>3, <2>4 DEF SetsOK
  <2>6. PlaceOK(r) /\ SelOK(r)
    BY <2>1, <2>2 DEF PlaceOK, SelOK
  <2>7. c.upd = TRUE
    BY DEF CallOK, RoleOK, Updating
  <2>8. Blank(r) /\ Follows(c, r)
    BY <2>1, <2>7 DEF Blank, Inserting, Follows, Connecting
  <2> QED BY <1>3, <1>6, <2>5, <2>6, <2>8, LocalCall
<1> QED BY <1>7, <1>8

\* and the neighbours of these.
LEMMA TwoHopG ==
  ASSUME EInv, EInv', GInv, NEW t \in Threads, TwoHop(t)
  PROVE  GInv'
<1>1. PICK c : c = th[t]
  OBVIOUS
<1> USE <1>1
<1>2. HasFields(c) /\ c.upd \in BOOLEAN /\ CallOK(c) /\ c.pc = "twoHop"
  BY DEF EInv, Shape, GInv, TwoHop
<1> USE <1>2
<1>3. UNCHANGED <<level, links, marked, enterpoint, maxlevel, link_list_locks, global>>
  BY DEF TwoHop
<1>4. PICK n \in c.cand, p \in {"rewire", "twoHop"} :
        th' = [th EXCEPT ![t].seen = @ \cup Neighbours(n, th[t].lev), ![t].cand = @ \ {n},
                         ![t].pc = p]
  BY DEF TwoHop
<1> USE <1>4
<1>5. PICK r : r = [c EXCEPT !.seen = c.seen \cup Neighbours(n, c.lev), !.cand = c.cand \ {n},
                             !.pc = p]
  OBVIOUS
<1>6. Moves(t, r)
  BY <1>5 DEF EInv, Shape, Moves
<1>7. /\ r.pc = p /\ r.upd = c.upd /\ r.cur = c.cur /\ r.max = c.max /\ r.ep = c.ep
      /\ r.obj = c.obj /\ r.lev = c.lev /\ r.seen = c.seen \cup Neighbours(n, c.lev)
      /\ r.cand = c.cand \ {n} /\ r.top = c.top
  BY <1>5 DEF HasFields
<1> USE <1>7
<1>8. /\ c.lev \in Levels /\ c.lev <= level[c.cur] /\ n \in Nodes
      /\ c.seen \cup c.cand \cup c.top \subseteq Used
      /\ \A m \in c.seen \cup c.cand \cup c.top : level[m] >= c.lev
  BY DEF CallOK, PlaceOK, SetsOK, Used
<1> USE <1>8
<1>9. \A m \in Neighbours(n, c.lev) : m \in Used /\ level[m] >= c.lev
  BY NeighbourFacts
<1>10. SetsOK(r)
  BY <1>9 DEF SetsOK
<1>11. PlaceOK(r) /\ SelOK(r)
  BY DEF PlaceOK, SelOK
<1>12. c.upd = TRUE
  BY DEF CallOK, RoleOK, Updating
<1>13. Blank(r) /\ Follows(c, r)
  BY <1>12 DEF Blank, Inserting, Follows, Connecting
<1> QED BY <1>3, <1>6, <1>10, <1>11, <1>13, LocalCall

\* A thread that is in no call.
LEMMA IdleCall ==
  ASSUME EInv
  PROVE  CallOK(Idle)
<1>1. Idle.pc = "idle" /\ Idle.upd = FALSE /\ Idle.cur = NoNode /\ Idle.max = -1
      /\ Idle.seen = {} /\ Idle.cand = {} /\ Idle.top = {}
  BY DEF Idle
<1>2. -1 <= maxlevel
  BY LevelFacts, SMT DEF EInv, Shape
<1>3. RoleOK(Idle) /\ ReadOK(Idle)
  BY <1>1, <1>2 DEF RoleOK, ReadOK, Connecting
<1>4. PlaceOK(Idle) /\ SetsOK(Idle) /\ SelOK(Idle) /\ Blank(Idle)
  BY <1>1 DEF PlaceOK, SetsOK, SelOK, Blank, Inserting, Connecting
<1> QED BY <1>3, <1>4 DEF CallOK

\* The entry point that is read after maxlevel_ has the levels below it.
LEMMA EntryFacts ==
  ASSUME EInv
  PROVE  /\ maxlevel >= 0 => enterpoint # NoNode
         /\ enterpoint # NoNode => enterpoint \in Nodes /\ level[enterpoint] \in Levels
                                   /\ level[enterpoint] >= maxlevel
<1>1. maxlevel \in Levels \cup {-1} /\ (enterpoint # NoNode => enterpoint \in Nodes
                                                 /\ level[enterpoint] \in Levels)
  BY DEF EInv, Shape
<1>2. CASE \A t \in Threads : th[t].pc # "raise"
  BY <1>1, <1>2, LevelFacts, SMT DEF EInv, Settled
<1>3. CASE \E t \in Threads : th[t].pc = "raise"
  <2>1. PICK t \in Threads : th[t].pc = "raise"
    BY <1>3
  <2>2. th[t].upd = FALSE /\ enterpoint = th[t].cur /\ level[th[t].cur] > maxlevel
    BY <2>1 DEF EInv, Raising
  <2>3. th[t].cur \in Nodes
    BY <2>1, <2>2 DEF EInv, Levelled
  <2> QED BY <1>1, <2>2, <2>3, LevelFacts, GraphAssumption, SMT
<1> QED BY <1>2, <1>3

\* addPoint reads enterpoint_node_ after maxlevel_: currObj has that level, ...
LEMMA ReadEnterpointG ==
  ASSUME EInv, EInv', GInv, NEW t \in Threads, ReadEnterpoint(t)
  PROVE  GInv'
<1> USE LevelFacts
<1>1. PICK c : c = th[t]
  OBVIOUS
<1> USE <1>1
<1>2. HasFields(c) /\ c.upd = FALSE /\ CallOK(c) /\ c.pc = "enterpoint" /\ c.pc \in Connecting
  BY DEF EInv, Shape, GInv, ReadEnterpoint, Connecting
<1> USE <1>2
<1>3. UNCHANGED <<level, links, marked, enterpoint, maxlevel, link_list_locks, global>>
  BY DEF ReadEnterpoint
<1>4. PICK r : /\ r = IF enterpoint = NoNode THEN [c EXCEPT !.pc = "finish"]
                      ELSE [c EXCEPT !.obj = enterpoint, !.pc = "copy"]
               /\ Moves(t, r)
  <2>1. PICK r : r = IF enterpoint = NoNode THEN [c EXCEPT !.pc = "finish"]
                     ELSE [c EXCEPT !.obj = enterpoint, !.pc = "copy"]
    OBVIOUS
  <2>2. th' = [th EXCEPT ![t] = r]
    BY <2>1 DEF ReadEnterpoint
  <2> QED BY <2>1, <2>2 DEF EInv, Shape, Moves
<1> USE <1>4
<1>5. /\ c.cur \in Nodes /\ level[c.cur] \in Levels /\ c.max \in Levels \cup {-1} /\ c.max <= maxlevel
      /\ maxlevel \in Levels \cup {-1} /\ c.cur \in Used
  BY CurFacts DEF EInv, Shape, CallOK, ReadOK, RoleOK, Updating
<1> USE <1>5
<1>6. c.seen \cup c.cand \cup c.top \subseteq Used
  BY DEF CallOK, SetsOK
<1>7. \A l \in Levels : links[c.cur][l] = EmptyBag
  BY DEF CallOK, Blank, Ahead, Inserting
<1>8. CASE enterpoint = NoNode
  <2>1. /\ r.pc = "finish" /\ r.upd = FALSE /\ r.cur = c.cur /\ r.max = c.max
        /\ r.seen = c.seen /\ r.cand = c.cand /\ r.top = c.top
    BY <1>8 DEF HasFields
  <2>2. RoleOK(r) /\ ReadOK(r)
    BY <2>1 DEF CallOK, RoleOK, ReadOK, Inserting, Connecting
  <2>3. PlaceOK(r) /\ SetsOK(r) /\ SelOK(r) /\ Blank(r)
    BY <1>6, <1>7, <2>1 DEF PlaceOK, SetsOK, SelOK, Blank, Ahead
  <2> QED BY <1>3, <2>1, <2>2, <2>3, LocalStep DEF CallOK, Connecting
<1>9. CASE enterpoint # NoNode
  <2>1. /\ r.upd = FALSE /\ r.cur = c.cur /\ r.max = c.max
        /\ r.obj = enterpoint /\ r.pc = "copy"
        /\ r.seen = c.seen /\ r.cand = c.cand /\ r.top = c.top
    BY <1>9 DEF HasFields
  <2>2. enterpoint \in Nodes /\ level[enterpoint] \in Levels /\ level[enterpoint] >= maxlevel
    BY <1>9, EntryFacts
  <2>3. c.max \in Levels
    <3>1. SUFFICES ASSUME c.max = -1 PROVE FALSE
      OBVIOUS
    <3>2. global = t /\ maxlevel = -1
      BY <3>1, SMT DEF EInv, HoldsGlobal
    <3>3. \A u \in Threads : th[u].pc # "raise"
      BY <3>2 DEF EInv, Raising
    <3> QED BY <1>9, <2>2, <3>2, <3>3, SMT DEF EInv, Settled
  <2>4. RoleOK(r)
    BY <2>1, SMT DEF RoleOK, Inserting, Connecting
  <2>5. ReadOK(r)
    BY <2>1, <2>3, SMT DEF ReadOK
  <2>6. PlaceOK(r)
    BY <2>1, <2>2, <2>3, SMT DEF PlaceOK
  <2>7. SetsOK(r) /\ SelOK(r) /\ Blank(r) /\ r.pc \in Connecting
    BY <1>6, <1>7, <2>1, SMT DEF SetsOK, SelOK, Blank, Ahead, Connecting
  <2> QED BY <1>3, <2>1, <2>4, <2>5, <2>6, <2>7, LocalStep DEF CallOK
<1> QED BY <1>8, <1>9

\* ... and so has enterpoint_copy, read after it.
LEMMA CopyEnterpointG ==
  ASSUME EInv, EInv', GInv, NEW t \in Threads, CopyEnterpoint(t)
  PROVE  GInv'
<1> USE LevelFacts
<1>1. PICK c : c = th[t]
  OBVIOUS
<1> USE <1>1
<1>2. /\ HasFields(c) /\ c.upd \in BOOLEAN /\ CallOK(c) /\ c.pc = "copy"
      /\ c.pc \in Connecting
  BY DEF EInv, Shape, GInv, CopyEnterpoint, Connecting
<1> USE <1>2
<1>3. UNCHANGED <<level, links, marked, enterpoint, maxlevel, link_list_locks, global>>
  BY DEF CopyEnterpoint
<1>4. PICK r : /\ r = [c EXCEPT !.ep = enterpoint, !.lev = c.max,
                               !.pc = IF level[c.cur] < c.max THEN "descend" ELSE "epDeleted"]
               /\ Moves(t, r)
  <2>1. PICK r : r = [c EXCEPT !.ep = enterpoint, !.lev = c.max,
                               !.pc = IF level[c.cur] < c.max THEN "descend" ELSE "epDeleted"]
    OBVIOUS
  <2>2. th' = [th EXCEPT ![t] = r]
    BY <2>1 DEF CopyEnterpoint
  <2> QED BY <2>1, <2>2 DEF EInv, Shape, Moves
<1>5. /\ c.max \in Levels /\ c.max <= maxlevel /\ maxlevel \in Levels \cup {-1}
      /\ c.obj \in Nodes /\ level[c.obj] >= c.max
  BY DEF EInv, Shape, CallOK, ReadOK, PlaceOK
<1>6. c.upd = FALSE /\ c.cur \in Nodes /\ level[c.cur] \in Levels /\ c.cur \in Used
  BY CurFacts DEF CallOK, RoleOK, Inserting, Updating
<1>7. c.seen \cup c.cand \cup c.top \subseteq Used
  BY DEF CallOK, SetsOK
<1>8. \A l \in Levels : links[c.cur][l] = EmptyBag
  BY <1>6 DEF CallOK, Blank, Ahead, Inserting
<1>9. /\ r.upd = FALSE /\ r.cur = c.cur /\ r.max = c.max /\ r.lev = c.max
      /\ r.ep = enterpoint /\ r.obj = c.obj
      /\ r.pc = IF level[c.cur] < c.max THEN "descend" ELSE "epDeleted"
      /\ r.seen = c.seen /\ r.cand = c.cand /\ r.top = c.top
  BY <1>4, <1>6 DEF HasFields
<1>10. enterpoint \in Nodes /\ level[enterpoint] \in Levels /\ level[enterpoint] >= maxlevel
  BY <1>5, EntryFacts, SMT
<1>11. RoleOK(r)
  BY <1>6, <1>9, SMT DEF RoleOK, Inserting, Connecting
<1>12. ReadOK(r)
  BY <1>5, <1>9, <1>10, SMT DEF ReadOK
<1>13. PlaceOK(r)
  BY <1>5, <1>6, <1>9, SMT DEF PlaceOK, Minimum
<1>14. SetsOK(r) /\ SelOK(r) /\ Blank(r) /\ r.pc \in Connecting
  BY <1>7, <1>8, <1>9, SMT DEF SetsOK, SelOK, Blank, Ahead, Connecting
<1> QED BY <1>3, <1>4, <1>6, <1>9, <1>11, <1>12, <1>13, <1>14, LocalStep DEF CallOK

\* The two actions of an update that read the entry point and go on from it.
LEMMA BeginRepairG ==
  ASSUME EInv, EInv', GInv, NEW t \in Threads, BeginRepair(t)
  PROVE  GInv'
<1>1. PICK c : c = th[t]
  OBVIOUS
<1> USE <1>1
<1>2. HasFields(c) /\ c.upd \in BOOLEAN /\ CallOK(c) /\ c.pc = "repair"
  BY DEF EInv, Shape, GInv, BeginRepair
<1> USE <1>2
<1>3. c.upd = TRUE /\ level[c.cur] <= c.max /\ c.max \in Levels
  BY DEF CallOK, RoleOK, Updating
<1> USE <1>3
<1>4. /\ level[c.cur] \in Levels /\ c.ep \in Nodes /\ level[c.ep] >= c.max
      /\ c.seen \cup c.cand \cup c.top \subseteq Used
  BY CurFacts DEF CallOK, ReadOK, SetsOK, Connecting
<1> USE <1>4
<1>5. PICK r : r = [c EXCEPT !.obj = c.ep, !.lev = c.max,
                             !.pc = IF level[c.cur] < c.max THEN "descend" ELSE "start"]
  OBVIOUS
<1>6. ~(level[c.cur] > c.max)
  BY LevelFacts, SMT
<1>7. /\ th' = [th EXCEPT ![t].obj = c.ep, ![t].lev = c.max,
                          ![t].pc = IF level[c.cur] < c.max THEN "descend" ELSE "start"]
      /\ UNCHANGED <<level, links, marked, enterpoint, maxlevel, link_list_locks, global>>
  BY <1>6 DEF BeginRepair
<1>8. Moves(t, r)
  BY <1>5, <1>7 DEF EInv, Shape, Moves
<1>9. /\ r.upd = c.upd /\ r.cur = c.cur /\ r.max = c.max /\ r.ep = c.ep /\ r.obj = c.ep
      /\ r.lev = c.max /\ r.pc = IF level[c.cur] < c.max THEN "descend" ELSE "start"
      /\ r.seen = c.seen /\ r.cand = c.cand /\ r.top = c.top
  BY <1>5 DEF HasFields
<1>10. PlaceOK(r)
  BY <1>9, LevelFacts, SMT DEF PlaceOK
<1>11. SetsOK(r) /\ SelOK(r) /\ Blank(r) /\ Follows(c, r)
  BY <1>9 DEF SetsOK, SelOK, Blank, Inserting, Follows, Connecting
<1> QED BY <1>7, <1>8, <1>10, <1>11, LocalCall

\* A thread that leaves an update.
LEMMA UpdateEnds ==
  ASSUME EInv, EInv', GInv, NEW t \in Threads, Moves(t, Idle), Updating(th[t]),
         UNCHANGED <<level, links, marked, enterpoint, maxlevel, link_list_locks, global>>
  PROVE  GInv'
<1>1. Idle.pc = "idle" /\ Idle.upd = FALSE /\ Idle.cur = NoNode /\ Idle.max = -1
      /\ Idle.seen = {} /\ Idle.cand = {} /\ Idle.top = {}
  BY DEF Idle
<1> USE <1>1
<1>2. Used' = Used /\ Used \subseteq Nodes
  BY DEF Used
<1>3. Finished' = Finished
  <2>1. \A u \in Threads, n \in Used :
          (~th'[u].upd => th'[u].cur # n) <=> (~th[u].upd => th[u].cur # n)
    BY <1>2, GraphAssumption DEF Moves, Updating
  <2> QED BY <1>2, <2>1 DEF Finished
<1> USE <1>3
<1>4. \A u \in Threads : /\ Inserting(th'[u]) <=> Inserting(th[u])
                         /\ Inserting(th[u]) => th'[u].cur = th[u].cur
                         /\ th'[u].pc = "raise" <=> th[u].pc = "raise"
  BY DEF Moves, Inserting, Updating, Connecting
<1>5. Lists' /\ Locks' /\ Tops'
  <2>1. Lists'
    BY DEF GInv, Lists, ListOK
  <2>2. Locks'
    BY <1>4, SMT DEF GInv, Locks
  <2>3. Tops'
    BY <1>4, SMT DEF GInv, Tops
  <2> QED BY <2>1, <2>2, <2>3
<1>6. ASSUME NEW u \in Threads
      PROVE  CallOK(th[u])'
  <2>1. PICK d : d = th'[u]
    OBVIOUS
  <2>2. CASE u # t
    <3>1. d = th[u] /\ CallOK(d) /\ d.upd \in BOOLEAN
      BY <2>1, <2>2 DEF GInv, EInv, Shape, Moves
    <3>2. Updating(d) => d.cur \notin marked'
      BY <3>1 DEF CallOK, RoleOK, Inserting, Updating, Connecting
    <3>3. maxlevel' >= maxlevel
      BY LevelFacts, SMT DEF EInv, Shape
    <3>4. CallOK(d)'
      BY <3>1, <3>2, <3>3, CallKept, SMT DEF Undisturbed
    <3> QED BY <2>1, <3>4
  <2>3. CASE u = t
    <3>1. d = Idle
      BY <2>1, <2>3 DEF Moves
    <3>2. CallOK(d) /\ ~Updating(d) /\ ~Inserting(d)
      BY <3>1, IdleCall DEF Updating, Inserting, Connecting
    <3>5. d.upd \in BOOLEAN /\ maxlevel' >= maxlevel
      BY <2>1, LevelFacts, SMT DEF EInv, Shape
    <3>3. Undisturbed(d)
      BY <3>2, <3>5 DEF Undisturbed
    <3>4. CallOK(d)'
      BY <3>2, <3>3, <3>5, CallKept, SMT
    <3> QED BY <2>1, <3>4
  <2> QED BY <2>2, <2>3
<1> QED BY <1>5, <1>6 DEF GInv

\* updatePoint reads enterpoint_node_ after maxlevel_, without the global lock.
LEMMA UpdateEnterpointG ==
  ASSUME EInv, EInv', GInv, NEW t \in Threads, UpdateEnterpoint(t)
  PROVE  GInv'
<1> USE LevelFacts
<1>1. PICK c : c = th[t]
  OBVIOUS
<1> USE <1>1
<1>2. /\ HasFields(c) /\ c.upd = TRUE /\ CallOK(c) /\ c.pc = "enterpoint"
      /\ Updating(c) /\ c.pc \in Connecting
  BY DEF EInv, Shape, GInv, UpdateEnterpoint, Updating, Connecting
<1> USE <1>2
<1>3. UNCHANGED <<level, links, marked, enterpoint, maxlevel, link_list_locks, global>>
  BY DEF UpdateEnterpoint
<1>4. PICK r : r = [c EXCEPT !.pc = "oneHop", !.ep = enterpoint, !.lev = 0]
  OBVIOUS
<1>5. th' = [th EXCEPT ![t] = Idle] \/ th' = [th EXCEPT ![t] = r]
  BY <1>4 DEF UpdateEnterpoint
<1>6. CASE th' = [th EXCEPT ![t] = Idle]
  BY <1>3, <1>6, UpdateEnds DEF EInv, Shape, Moves
<1>7. CASE th' = [th EXCEPT ![t] = r]
  <2>1. /\ r.pc = "oneHop" /\ r.upd = TRUE /\ r.cur = c.cur /\ r.max = c.max /\ r.lev = 0
        /\ r.ep = enterpoint /\ r.seen = c.seen /\ r.cand = c.cand /\ r.top = c.top
    BY <1>4 DEF HasFields
  <2>2. /\ c.max \in Levels /\ c.max <= maxlevel /\ maxlevel \in Levels \cup {-1}
        /\ level[c.cur] \in Levels /\ c.cur \in Finished \ marked /\ level[c.cur] <= c.max
        /\ c.seen \cup c.cand \cup c.top \subseteq Used
    BY CurFacts DEF EInv, Shape, CallOK, ReadOK, RoleOK, SetsOK, Inserting
  <2>3. RoleOK(r) /\ ReadOK(r)
    <3>1. enterpoint \in Nodes /\ level[enterpoint] \in Levels /\ level[enterpoint] >= maxlevel
      BY <2>2, EntryFacts, SMT
    <3>2. level[enterpoint] >= c.max
      BY <2>2, <3>1, SMT
    <3> QED BY <2>1, <2>2, <3>1, <3>2 DEF RoleOK, ReadOK, Updating, Connecting
  <2>4. 0 \in Levels /\ 0 <= level[c.cur]
    BY <2>2, GraphAssumption, SMT DEF Levels
  <2>5. PlaceOK(r) /\ SetsOK(r)
    BY <2>1, <2>2, <2>4 DEF PlaceOK, SetsOK
  <2>6. SelOK(r) /\ Blank(r) /\ r.pc \in Connecting
    BY <2>1 DEF SelOK, Blank, Inserting, Connecting
  <2>7. Moves(t, r)
    BY <1>7 DEF EInv, Shape, Moves
  <2> QED BY <1>3, <2>1, <2>3, <2>5, <2>6, <2>7, LocalStep DEF CallOK
<1> QED BY <1>5, <1>6, <1>7

\* The other calls go on as before.
LEMMA OthersKept ==
  ASSUME EInv, EInv', GInv, NEW t \in Threads, NEW r, Moves(t, r), CallOK(r)',
         \A n \in Nodes : level[n] >= 0 => level'[n] = level[n],
         Finished \subseteq Finished', maxlevel' >= maxlevel, UNCHANGED marked,
         \A u \in Threads : u # t /\ Inserting(th[u]) => links'[th[u].cur] = links[th[u].cur]
  PROVE  \A u \in Threads : CallOK(th[u])'
<1> SUFFICES ASSUME NEW u \in Threads PROVE CallOK(th[u])'
  OBVIOUS
<1>1. PICK d : d = th'[u]
  OBVIOUS
<1>2. CASE u = t
  BY <1>2 DEF Moves
<1>3. CASE u # t
  <2>1. d = th[u] /\ CallOK(d) /\ d.upd \in BOOLEAN
    BY <1>1, <1>3 DEF GInv, EInv, Shape, Moves
  <2>2. Updating(d) => d.cur \notin marked'
    BY <2>1 DEF CallOK, RoleOK, Inserting, Updating, Connecting
  <2>3. Undisturbed(d)
    BY <1>3, <2>1, <2>2 DEF Undisturbed
  <2>4. CallOK(d)'
    BY <2>1, <2>3, CallKept, SMT
  <2> QED BY <1>1, <2>4
<1> QED BY <1>2, <1>3

\* A thread moves on, no list and no level changes, the same elements are being
\* inserted by the same threads.
LEMMA PhaseStep ==
  ASSUME EInv, EInv', GInv, NEW t \in Threads, NEW r, Moves(t, r), CallOK(r)',
         UNCHANGED <<level, links, marked, maxlevel, link_list_locks>>,
         global' \in Threads \cup {NoThread},
         Inserting(r) <=> Inserting(th[t]), Inserting(r) => r.cur = th[t].cur,
         th[t].pc # "raise",
         r.pc = "raise" \/ UNCHANGED enterpoint,
         Finished' = Finished
  PROVE  GInv'
<1>1. \A u \in Threads : /\ Inserting(th'[u]) <=> Inserting(th[u])
                         /\ Inserting(th'[u]) => th'[u].cur = th[u].cur
  BY DEF Moves
<1> USE <1>1
<1>2. Lists'
  BY DEF GInv, Lists, ListOK
<1>3. Locks'
  <2>1. \A u \in Threads : Inserting(th'[u]) => link_list_locks'[th'[u].cur] = u
    BY DEF GInv, Locks
  <2>2. \A u \in Threads, m \in Nodes : link_list_locks'[m] = u => Inserting(th'[u]) /\ th'[u].cur = m
    BY SMT DEF GInv, Locks
  <2> QED BY <2>1, <2>2 DEF GInv, Locks, Inserting
<1>4. Tops'
  <2>1. enterpoint' # NoNode /\ (\A u \in Threads : th'[u].pc # "raise") => enterpoint' \in Finished'
    BY DEF GInv, Tops, Moves
  <2>2. \A m \in Nodes : level'[m] > maxlevel' => \E u \in Threads : Inserting(th'[u]) /\ th'[u].cur = m
    BY DEF GInv, Tops
  <2> QED BY <2>1, <2>2 DEF GInv, Tops, Inserting
<1>5. \A u \in Threads : CallOK(th[u])'
  <2>1. maxlevel' >= maxlevel
    BY LevelFacts, SMT DEF EInv, Shape
  <2> QED BY <2>1, OthersKept
<1> QED BY <1>2, <1>3, <1>4, <1>5 DEF GInv

\* addPoint passes the global lock.
LEMMA EnterGlobalG ==
  ASSUME EInv, EInv', GInv, NEW t \in Threads, EnterGlobal(t)
  PROVE  GInv'
<1>1. PICK c : c = th[t]
  OBVIOUS
<1> USE <1>1
<1>2. HasFields(c) /\ c.upd \in BOOLEAN /\ CallOK(c) /\ c.pc = "global"
  BY DEF EInv, Shape, GInv, EnterGlobal
<1> USE <1>2
<1>3. Inserting(c) /\ c.upd = FALSE /\ c.cur \in Used
  BY DEF CallOK, RoleOK, Inserting, Updating, Connecting
<1> USE <1>3
<1>4. PICK r : r = [c EXCEPT !.pc = "enterpoint", !.max = maxlevel]
  OBVIOUS
<1>5. /\ r.pc = "enterpoint" /\ r.upd = FALSE /\ r.cur = c.cur /\ r.max = maxlevel
      /\ r.seen = c.seen /\ r.cand = c.cand /\ r.top = c.top
  BY <1>4 DEF HasFields
<1> USE <1>5
<1>6. Moves(t, r)
  BY <1>4 DEF EInv, Shape, Moves, EnterGlobal
<1>7. /\ UNCHANGED <<level, links, marked, enterpoint, maxlevel, link_list_locks>>
      /\ global' \in Threads \cup {NoThread}
  BY DEF EnterGlobal
<1> USE <1>7
<1>8. Used' = Used /\ Finished' = Finished
  BY <1>6, FinishedSame DEF Used
<1> USE <1>8
<1>9. maxlevel \in Levels \cup {-1} /\ maxlevel <= maxlevel
  BY LevelFacts, SMT DEF EInv, Shape
<1>10. CallOK(r)'
  <2>1. RoleOK(r)' /\ ReadOK(r)'
    BY <1>9 DEF RoleOK, ReadOK, Inserting, Connecting
  <2>2. PlaceOK(r)' /\ SetsOK(r)' /\ SelOK(r)'
    BY DEF CallOK, PlaceOK, SetsOK, SelOK
  <2>3. Blank(r)'
    BY DEF CallOK, Blank, Ahead
  <2> QED BY <2>1, <2>2, <2>3 DEF CallOK
<1>11. Inserting(r)
  BY DEF Inserting, Connecting
<1> QED BY <1>6, <1>10, <1>11, PhaseStep

\* updatePoint begins on a finished live point.
LEMMA BeginUpdateG ==
  ASSUME EInv, EInv', GInv, NEW t \in Threads, NEW n \in Nodes, BeginUpdate(t, n)
  PROVE  GInv'
<1>1. PICK r : r = [Idle EXCEPT !.pc = "enterpoint", !.upd = TRUE, !.cur = n, !.max = maxlevel]
  OBVIOUS
<1>2. /\ r.pc = "enterpoint" /\ r.upd = TRUE /\ r.cur = n /\ r.max = maxlevel
      /\ r.seen = {} /\ r.cand = {} /\ r.top = {}
  BY <1>1 DEF Idle
<1> USE <1>2
<1>3. /\ th[t].pc = "idle" /\ Unclaimed(n) /\ n \notin marked /\ th' = [th EXCEPT ![t] = r]
      /\ UNCHANGED <<level, links, marked, enterpoint, maxlevel, link_list_locks, global>>
  BY <1>1 DEF BeginUpdate
<1> USE <1>3
<1>4. Moves(t, r)
  BY DEF EInv, Shape, Moves
<1> USE <1>4
<1>5. n \in Finished /\ level[n] \in Levels /\ maxlevel \in Levels \cup {-1} /\ ~(level[n] > maxlevel)
  <2>1. n \in Finished /\ level[n] >= 0
    BY DEF Unclaimed, Finished, Used
  <2>2. level[n] \in Levels /\ maxlevel \in Levels \cup {-1}
    BY <2>1, LevelFacts, SMT DEF EInv, Shape
  <2> QED BY <2>1, <2>2 DEF GInv, Tops, Unclaimed
<1>6. level[n] <= maxlevel /\ maxlevel \in Levels /\ maxlevel <= maxlevel
  BY <1>5, LevelFacts, SMT
<1>7. th[t].cur = NoNode
  BY DEF GInv, CallOK, RoleOK, Inserting, Updating, Connecting
<1>8. Used' = Used /\ Finished' = Finished
  <2>1. Used' = Used /\ Used \subseteq Nodes
    BY DEF Used
  <2>2. ASSUME NEW m \in Used
        PROVE  (\A u \in Threads : ~th'[u].upd => th'[u].cur # m)
                 <=> (\A u \in Threads : ~th[u].upd => th[u].cur # m)
    <3>1. (~th'[t].upd => th'[t].cur # m) /\ (~th[t].upd => th[t].cur # m)
      BY <1>7, <2>1, GraphAssumption DEF Moves
    <3> QED BY <3>1 DEF Moves
  <2> QED BY <2>1, <2>2 DEF Finished
<1>9. CallOK(r)'
  <2>1. RoleOK(r)' /\ ReadOK(r)'
    BY <1>5, <1>6, <1>8 DEF RoleOK, ReadOK, Updating, Connecting
  <2>2. PlaceOK(r)' /\ SetsOK(r)' /\ SelOK(r)' /\ Blank(r)'
    BY DEF PlaceOK, SetsOK, SelOK, Blank, Inserting
  <2> QED BY <2>1, <2>2 DEF CallOK
<1>10. ~Inserting(r) /\ ~Inserting(th[t])
  BY DEF Inserting, Connecting
<1>11. global' \in Threads \cup {NoThread} /\ th[t].pc # "raise"
  BY DEF GInv, Locks
<1> QED BY <1>8, <1>9, <1>10, <1>11, PhaseStep

\* The lock of a node has one holder, so two threads insert different nodes.
LEMMA OneInserter ==
  ASSUME GInv, NEW t \in Threads, NEW u \in Threads, Inserting(th[t]), Inserting(th[u]),
         th[t].cur = th[u].cur
  PROVE  t = u
BY DEF GInv, Locks

\* A thread leaves its call and gives up its locks; maxlevel_ may have risen.
LEMMA CallEnds ==
  ASSUME EInv, EInv', GInv, NEW t \in Threads, Moves(t, Idle), Unlock(t),
         UNCHANGED <<level, links, marked, enterpoint>>, maxlevel' >= maxlevel,
         Inserting(th[t]) => level[th[t].cur] <= maxlevel',
         th[t].pc \in {"finish", "raise"}
  PROVE  GInv'
<1> USE GraphAssumption
<1> USE LevelFacts
<1>1. Idle.pc = "idle" /\ Idle.upd = FALSE /\ Idle.cur = NoNode
  BY DEF Idle
<1>2. /\ \A u \in Threads : u # t => th'[u] = th[u]
      /\ th'[t].pc = "idle" /\ ~th'[t].upd /\ th'[t].cur = NoNode
      /\ ~Inserting(th'[t]) /\ ~Inserting(Idle) /\ ~Updating(Idle)
  BY <1>1 DEF Moves, Inserting, Updating, Connecting
<1> USE <1>2
<1>3. Used' = Used /\ Used \subseteq Nodes /\ maxlevel \in Levels \cup {-1} /\ level \in [Nodes -> Levels \cup {-1}]
  BY DEF Used, EInv, Shape
<1> USE <1>3
<1>4. Finished \subseteq Finished'
  <2>1. \A n \in Used, u \in Threads : (~th[u].upd => th[u].cur # n) => (~th'[u].upd => th'[u].cur # n)
    OBVIOUS
  <2> QED BY <2>1 DEF Finished
<1> USE <1>4
<1>5. Lists'
  BY SMT DEF GInv, Lists, ListOK
<1>6. Locks'
  <2>1. /\ link_list_locks' = [n \in Nodes |-> IF link_list_locks[n] = t THEN NoThread
                                                ELSE link_list_locks[n]]
        /\ global' \in Threads \cup {NoThread}
    BY DEF Unlock, GInv, Locks
  <2>2. link_list_locks' \in [Nodes -> Threads \cup {NoThread}]
    BY <2>1 DEF GInv, Locks
  <2>3. \A u \in Threads : Inserting(th'[u]) => link_list_locks'[th'[u].cur] = u
    <3>1. \A u \in Threads : Inserting(th[u]) => th[u].cur \in Nodes
      BY DEF EInv, Levelled, Inserting
    <3> QED BY <2>1, <3>1 DEF GInv, Locks
  <2>4. \A u \in Threads, m \in Nodes : link_list_locks'[m] = u => Inserting(th'[u]) /\ th'[u].cur = m
    BY <2>1, SMT DEF GInv, Locks
  <2> QED BY <2>1, <2>2, <2>3, <2>4 DEF Locks, Inserting
<1>7. Tops'
  <2>1. enterpoint' # NoNode /\ (\A u \in Threads : th'[u].pc # "raise") => enterpoint' \in Finished'
    <3> SUFFICES ASSUME enterpoint # NoNode, \A u \in Threads : th'[u].pc # "raise"
                 PROVE  enterpoint \in Finished'
      OBVIOUS
    <3>1. CASE th[t].pc # "raise"
      BY <3>1, SMT DEF GInv, Tops
    <3>2. CASE th[t].pc = "raise"
      <4>1. enterpoint = th[t].cur /\ th[t].upd = FALSE /\ Inserting(th[t])
        BY <3>2 DEF EInv, Raising, Inserting
      <4>2. enterpoint \in Used
        BY <4>1 DEF EInv, Levelled, Inserting, Used
      <4>3. ASSUME NEW u \in Threads, ~th'[u].upd PROVE th'[u].cur # enterpoint
        <5>1. CASE u = t
          BY <4>2, <5>1
        <5>2. CASE u # t
          <6>1. th'[u] = th[u] /\ CallOK(th[u]) /\ ~th[u].upd
            BY <4>3, <5>2 DEF GInv
          <6>2. th[u].cur = NoNode \/ Inserting(th[u])
            BY <6>1 DEF CallOK, RoleOK, Updating
          <6> QED BY <4>1, <4>2, <5>2, <6>1, <6>2, OneInserter
        <5> QED BY <5>1, <5>2
      <4> QED BY <4>2, <4>3 DEF Finished
    <3> QED BY <3>1, <3>2
  <2>2. \A m \in Nodes : level[m] > maxlevel' => \E u \in Threads : Inserting(th'[u]) /\ th'[u].cur = m
    <3> SUFFICES ASSUME NEW m \in Nodes, level[m] > maxlevel'
                 PROVE  \E u \in Threads : Inserting(th'[u]) /\ th'[u].cur = m
      OBVIOUS
    <3>1. level[m] > maxlevel /\ maxlevel' \in Levels \cup {-1}
      BY SMT DEF EInv, Shape
    <3>2. PICK u \in Threads : Inserting(th[u]) /\ th[u].cur = m
      BY <3>1 DEF GInv, Tops
    <3>3. u # t
      BY <3>1, <3>2, SMT
    <3> QED BY <3>2, <3>3
  <2> QED BY <2>1, <2>2 DEF GInv, Tops, Inserting
<1>8. \A u \in Threads : CallOK(th[u])'
  <2>1. PICK d : d = Idle
    OBVIOUS
  <2>2. d.upd \in BOOLEAN
    BY <2>1 DEF EInv, Shape, Moves
  <2>3. CallOK(d) /\ Undisturbed(d)
    BY <2>1, IdleCall DEF Undisturbed
  <2>4. CallOK(d)'
    BY <2>2, <2>3, CallKept, SMT
  <2> QED BY <2>1, <2>4, OthersKept
<1> QED BY <1>5, <1>6, <1>7, <1>8 DEF GInv

\* addPoint ends, or writes enterpoint_node_;
LEMMA FinishG ==
  ASSUME EInv, EInv', GInv, NEW t \in Threads, Finish(t)
  PROVE  GInv'
<1> USE LevelFacts
<1>1. PICK c : c = th[t]
  OBVIOUS
<1> USE <1>1
<1>2. /\ c.upd \in BOOLEAN /\ CallOK(c) /\ c.pc = "finish" /\ c.pc \in Connecting
      /\ maxlevel \in Levels \cup {-1} /\ UNCHANGED <<level, links, marked, maxlevel>>
  BY DEF EInv, Shape, GInv, Finish, Connecting
<1> USE <1>2
<1>3. CASE ~c.upd /\ level[c.cur] > c.max
  <2>1. PICK r : r = [Idle EXCEPT !.pc = "raise", !.cur = c.cur]
    OBVIOUS
  <2>2. /\ r.pc = "raise" /\ r.upd = FALSE /\ r.cur = c.cur /\ r.max = -1
        /\ r.seen = {} /\ r.cand = {} /\ r.top = {}
    BY <2>1 DEF Idle
  <2>3. th' = [th EXCEPT ![t] = r] /\ UNCHANGED <<link_list_locks, global>>
    BY <1>3, <2>1 DEF Finish
  <2>4. Moves(t, r)
    BY <2>3 DEF EInv, Shape, Moves
  <2>5. c.upd = FALSE /\ Inserting(c) /\ Inserting(r) /\ c.cur \in Used
    BY <1>3, <2>2 DEF CallOK, RoleOK, Inserting, Updating
  <2>6. Used' = Used /\ Finished' = Finished
    BY <2>2, <2>4, <2>5, FinishedSame DEF Used
  <2>7. CallOK(r)'
    <3>1. RoleOK(r)' /\ ReadOK(r)'
      BY <2>2, <2>5, <2>6, SMT DEF RoleOK, ReadOK, Inserting, Connecting
    <3>2. PlaceOK(r)' /\ SetsOK(r)' /\ SelOK(r)' /\ Blank(r)'
      BY <2>2 DEF PlaceOK, SetsOK, SelOK, Blank, Ahead
    <3> QED BY <3>1, <3>2 DEF CallOK
  <2>8. global' \in Threads \cup {NoThread} /\ th[t].pc # "raise"
    BY <2>3 DEF GInv, Locks
  <2> QED BY <2>2, <2>3, <2>4, <2>5, <2>6, <2>7, <2>8, PhaseStep
<1>4. CASE ~(~c.upd /\ level[c.cur] > c.max)
  <2>1. th' = [th EXCEPT ![t] = Idle] /\ Unlock(t) /\ UNCHANGED enterpoint
    BY <1>4 DEF Finish
  <2>2. Moves(t, Idle)
    BY <2>1 DEF EInv, Shape, Moves
  <2>3. Inserting(c) => level[c.cur] <= maxlevel
    <3>1. level[c.cur] \in Levels /\ c.max \in Levels \cup {-1} /\ c.max <= maxlevel
      BY CurFacts DEF CallOK, ReadOK
    <3> QED BY <1>4, <3>1, SMT DEF Inserting
  <2>4. maxlevel' >= maxlevel
    BY SMT
  <2> QED BY <2>1, <2>2, <2>3, <2>4, CallEnds
<1> QED BY <1>3, <1>4

\* then it writes maxlevel_ and ends.
LEMMA RaiseG ==
  ASSUME EInv, EInv', GInv, NEW t \in Threads, Raise(t)
  PROVE  GInv'
<1>1. /\ th[t].pc = "raise" /\ maxlevel' = level[th[t].cur] /\ Unlock(t)
      /\ UNCHANGED <<level, links, marked, enterpoint>>
  BY DEF Raise
<1> USE <1>1
<1>2. Moves(t, Idle)
  BY DEF EInv, Shape, Moves, Raise
<1>3. level[th[t].cur] > maxlevel /\ level[th[t].cur] \in Levels /\ maxlevel \in Levels \cup {-1}
  BY DEF EInv, Raising, Levelled, Shape
<1>4. maxlevel' >= maxlevel /\ level[th[t].cur] <= maxlevel'
  BY <1>3, LevelFacts, SMT
<1> QED BY <1>2, <1>4, CallEnds

\* markDelete and unmarkDelete change the mark of a finished point nobody works on.
LEMMA FlipMarkG ==
  ASSUME EInv, EInv', GInv, NEW n \in Nodes, FlipMark(n)
  PROVE  GInv'
<1>1. /\ Unclaimed(n) /\ marked' \subseteq marked \cup {n}
      /\ UNCHANGED <<level, links, enterpoint, maxlevel, link_list_locks, global, th>>
  BY DEF FlipMark
<1> USE <1>1
<1>6. marked' \subseteq Finished /\ marked' \subseteq Markable
  <2>1. n \in Finished /\ n \in Markable
    BY DEF FlipMark, Unclaimed, Finished
  <2> QED BY <2>1 DEF GInv, Tops
<1>2. n \in Finished /\ Finished' = Finished
  BY DEF Unclaimed, Finished, Used
<1>3. Lists' /\ Locks'
  BY SMT DEF GInv, Lists, ListOK, Locks, Inserting
<1>4. Tops'
  BY <1>2, <1>6 DEF GInv, Tops, Inserting
<1>5. ASSUME NEW u \in Threads
      PROVE  CallOK(th[u])'
  <2>1. PICK d : d = th[u]
    OBVIOUS
  <2>2. d.upd \in BOOLEAN /\ CallOK(d) /\ d.cur # n /\ maxlevel' >= maxlevel
    BY <2>1, LevelFacts, SMT DEF EInv, Shape, GInv, Unclaimed
  <2>3. Undisturbed(d)
    BY <1>2, <2>2 DEF Undisturbed, CallOK, RoleOK, Inserting, Updating, Connecting
  <2>4. CallOK(d)'
    BY <2>2, <2>3, CallKept, SMT
  <2> QED BY <2>1, <2>4
<1> QED BY <1>3, <1>4, <1>5 DEF GInv

\* Writing a proper list leaves all lists proper.
LEMMA ListWrite ==
  ASSUME Lists, NEW n \in Nodes, NEW l \in Levels, NEW b, ListOK(n, l, b), Writes(n, l, b), UNCHANGED level
  PROVE  /\ Lists'
         /\ \A m \in Nodes : m # n => links'[m] = links[m]
         /\ links'[n][l] = b /\ \A k \in Levels : k # l => links'[n][k] = links[n][k]
<1>1. links' = [m \in Nodes |-> IF m = n THEN [k \in Levels |-> IF k = l THEN b ELSE links[n][k]]
                                ELSE links[m]]
  BY DEF Lists, Writes
<1> USE <1>1
<1>2. links' = [m \in Nodes |-> [k \in Levels |-> links'[m][k]]]
  BY DEF Lists
<1>3. ASSUME NEW m \in Nodes, NEW k \in Levels
      PROVE  ListOK(m, k, links[m][k])'
  <2>1. PICK a : a = links'[m][k]
    OBVIOUS
  <2>2. ListOK(m, k, a)
    BY <2>1 DEF Lists
  <2>3. ListOK(m, k, a)'
    BY <2>2 DEF ListOK
  <2> QED BY <2>1, <2>3
<1> QED BY <1>2, <1>3 DEF Lists

\* A step of a call that writes lists.
LEMMA ListCall ==
  ASSUME EInv, EInv', GInv, NEW t \in Threads, NEW c, c = th[t], NEW r, Moves(t, r),
         UNCHANGED <<level, marked, enterpoint, maxlevel, link_list_locks, global>>,
         Follows(c, r), PlaceOK(r), SetsOK(r), SelOK(r), Blank(r)', Lists',
         \A u \in Threads : u # t /\ Inserting(th[u]) => links'[th[u].cur] = links[th[u].cur]
  PROVE  GInv'
<1>1. c.upd \in BOOLEAN /\ CallOK(c)
  BY DEF EInv, Shape, GInv
<1>2. RoleOK(r) /\ ReadOK(r)
  BY <1>1, StaysInCall, SMT
<1>3. /\ r.upd = th[t].upd /\ r.cur = th[t].cur
      /\ th[t].pc \in Connecting /\ r.pc \in Connecting
  BY DEF Follows
<1>4. Used' = Used /\ Finished' = Finished
  BY <1>3, FinishedSame DEF Used
<1>5. RoleOK(r)'
  BY <1>2, <1>4 DEF RoleOK, Inserting, Updating
<1>6. ReadOK(r)' /\ PlaceOK(r)'
  BY <1>2 DEF ReadOK, PlaceOK
<1>7. SetsOK(r)' /\ SelOK(r)'
  BY <1>4 DEF SetsOK, SelOK
<1>8. CallOK(r)'
  BY <1>5, <1>6, <1>7 DEF CallOK
<1> QED BY <1>3, <1>8, ListStep

\* A call that goes down a level, or is done.
LEMMA NextLevelCall ==
  ASSUME EInv, NEW c, HasFields(c), c.upd \in BOOLEAN, CallOK(c), c.pc \in {"search", "link"},
         NEW obj \in Nodes, level[obj] >= c.lev, NEW r, r = LevelDone(c, obj)
  PROVE  /\ Follows(c, r) /\ PlaceOK(r) /\ SetsOK(r) /\ SelOK(r)
         /\ \A l \in Ahead(r) : l \in Levels /\ l < c.lev
<1>1. /\ r.upd = c.upd /\ r.cur = c.cur /\ r.max = c.max /\ r.ep = c.ep /\ r.epDeleted = c.epDeleted
      /\ r.obj = obj /\ r.lev = c.lev - 1 /\ r.pc = IF c.lev = 0 THEN "finish" ELSE "start"
      /\ r.seen = {} /\ r.cand = {} /\ r.top = {}
  BY DEF HasFields, LevelDone
<1> USE <1>1
<1>2. /\ c.lev \in Levels /\ c.lev <= level[c.cur] /\ c.lev <= c.max
      /\ level[c.cur] \in Levels /\ c.max \in Levels \cup {-1} /\ level[obj] \in Levels \cup {-1}
  BY CurFacts DEF CallOK, PlaceOK
<1>3. Follows(c, r)
  BY DEF Follows, Connecting
<1>4. c.lev # 0 => /\ c.lev - 1 \in Levels /\ c.lev - 1 <= level[c.cur] /\ c.lev - 1 <= c.max
                   /\ level[obj] >= c.lev - 1
  BY <1>2, GraphAssumption, SMT DEF Levels
<1>5. PlaceOK(r)
  BY <1>4 DEF PlaceOK
<1>6. SetsOK(r)
  BY DEF CallOK, SetsOK
<1>7. SelOK(r)
  BY DEF SelOK
<1>8. \A l \in Ahead(r) : l \in Levels /\ l < c.lev
  BY <1>2, LevelFacts, SMT DEF Ahead
<1> QED BY <1>3, <1>5, <1>6, <1>7, <1>8

\* A call that has chosen neighbours meets no error and writes its own list.
LEMMA OwnListWritten ==
  ASSUME EInv, GInv, NEW t \in Threads, th[t].pc = "search", NEW s, s # EmptyBag,
         \A n \in BagToSet(s) : n \in Nodes /\ level[n] >= th[t].lev, WriteOwnList(t, s)
  PROVE  \E next, r : Writing(t, s, next, r)
<1>1. PICK c : c = th[t]
  OBVIOUS
<1>2. /\ c.upd \in BOOLEAN /\ CallOK(c) /\ c.pc = "search"
      /\ c.lev \in Levels /\ level \in [Nodes -> Levels \cup {-1}]
  BY <1>1 DEF EInv, Shape, GInv, CallOK, PlaceOK
<1>3. c.upd = FALSE => links[c.cur][c.lev] = EmptyBag
  BY <1>2, LevelFacts, SMT DEF CallOK, Blank, Ahead, Inserting, Connecting
<1>4. ~(\/ ~c.upd /\ links[c.cur][c.lev] # EmptyBag
        \/ \E n \in BagToSet(s) : c.lev > level[n])
  BY <1>1, <1>2, <1>3, LevelFacts, SMT
<1>5. /\ Writes(c.cur, c.lev, s)
      /\ \E next \in BagToSet(s) :
           th' = [th EXCEPT ![t] = [c EXCEPT !.pc = "link", !.sel = s, !.obj = next,
                                        !.seen = {}, !.cand = {}, !.top = {}]]
      /\ UNCHANGED <<link_list_locks, global>>
  BY <1>1, <1>4 DEF WriteOwnList, Writes
<1>6. PICK next, r :
        /\ next \in BagToSet(s)
        /\ r = [c EXCEPT !.pc = "link", !.sel = s, !.obj = next,
                         !.seen = {}, !.cand = {}, !.top = {}]
        /\ th' = [th EXCEPT ![t] = r]
  BY <1>5
<1>7. Moves(t, r)
  BY <1>6 DEF EInv, Shape, Moves
<1> QED BY <1>1, <1>5, <1>6, <1>7 DEF Writing

\* The elements a finished search hands over.
LEMMA SearchTop ==
  ASSUME EInv, GInv, NEW t \in Threads, SearchDone(t)
  PROVE  /\ th[t].top \subseteq Finished /\ th[t].top \subseteq Used
         /\ \A n \in th[t].top : level[n] >= th[t].lev
<1>1. CallOK(th[t]) /\ th[t].pc = "search"
  BY DEF GInv, SearchDone
<1>2. th[t].cand \cap th[t].top = {}
  BY DEF SearchDone
<1> QED BY <1>1, <1>2 DEF CallOK, SetsOK

\* What the invariant means.
LEMMA GInvMeans ==
  ASSUME EInv, GInv
  PROVE  TypeOK /\ NeverThrows /\ ReadsExistingLevels /\ LinksWellFormed /\ EntryPointOnTop
<1>1. \A t \in Threads : CallOK(th[t]) /\ RoleOK(th[t])
  BY DEF GInv, CallOK
<1> USE <1>1
<1>2. NeverThrows
  BY DEF NeverThrows, RoleOK, Inserting, Updating, Connecting
<1>3. ReadsExistingLevels
  BY DEF ReadsExistingLevels, CallOK, PlaceOK, SetsOK
<1>4. LinksWellFormed
  BY DEF LinksWellFormed, GInv, Lists, ListOK, Neighbours
<1>5. (\A t \in Threads : th[t].pc # "raise") /\ enterpoint # NoNode => enterpoint \in Finished
  BY DEF GInv, Tops
<1>6. EntryPointOnTop
  <2> SUFFICES ASSUME \A t \in Threads : th[t].pc # "raise", enterpoint # NoNode
               PROVE  /\ level[enterpoint] = maxlevel
                      /\ \A t \in Threads : ~th[t].upd => th[t].cur # enterpoint
                      /\ \A n \in Used : level[n] > maxlevel => \E t \in Threads : th[t].cur = n
    BY DEF EntryPointOnTop, EInv, Settled
  <2>1. level[enterpoint] = maxlevel
    BY DEF EInv, Settled
  <2>2. \A t \in Threads : ~th[t].upd => th[t].cur # enterpoint
    BY <1>5 DEF Finished
  <2>3. \A n \in Used : level[n] > maxlevel => \E t \in Threads : th[t].cur = n
    BY DEF Used, GInv, Tops
  <2> QED BY <2>1, <2>2, <2>3
<1>7. TypeOK
  <2>1. /\ level \in [Nodes -> Levels \cup {-1}] /\ maxlevel \in Levels \cup {-1}
        /\ enterpoint \in Used \cup {NoNode}
    BY LevelFacts DEF EInv, Shape, Used
  <2>2. /\ DOMAIN links = Nodes /\ \A n \in Nodes : DOMAIN links[n] = Levels
    BY DEF GInv, Lists
  <2>3. \A n \in Nodes, l \in Levels : IsABag(links[n][l]) /\ Neighbours(n, l) \subseteq Used
    <3> TAKE n \in Nodes, l \in Levels
    <3>1. IsABag(links[n][l])
      BY DEF GInv, Lists, ListOK, FiniteBag
    <3> QED BY <3>1, NeighbourFacts
  <2>4. /\ marked \subseteq Used /\ link_list_locks \in [Nodes -> Threads \cup {NoThread}]
        /\ global \in Threads \cup {NoThread}
    BY DEF GInv, Tops, Locks, Finished
  <2>5. ASSUME NEW t \in Threads
        PROVE  /\ th[t].pc \in {"idle", "failed", "global", "enterpoint", "copy", "descend",
                          "epDeleted", "start", "search", "link", "finish", "raise", "oneHop",
                          "twoHop", "rewire", "repair"}
               /\ th[t].cur \in Used \cup {NoNode}
               /\ th[t].max \in Levels \cup {-1}
               /\ th[t].seen \cup th[t].cand \cup th[t].top \subseteq Used
    <3>1. th[t].max \in Levels \cup {-1} /\ th[t].seen \cup th[t].cand \cup th[t].top \subseteq Used
      BY DEF CallOK, ReadOK, SetsOK
    <3> QED BY <3>1 DEF RoleOK, Inserting, Updating, Connecting, Finished
  <2> QED BY <2>1, <2>2, <2>3, <2>4, <2>5 DEF TypeOK
<1> QED BY <1>2, <1>3, <1>4, <1>6, <1>7

-----------------------------------------------------------------------------
(* DInv and CInv: insertions that write no list, and end *)

\* A step of a thread that writes no list, and ends no call.
LEMMA QuietStep ==
  ASSUME DInv, CInv, NEW t \in Threads, NEW r, Moves(t, r),
         UNCHANGED <<level, links, marked, maxlevel>>,
         \A u \in Threads : u # t /\ global = u => global' = u,
         r.upd = FALSE, r.cur = th[t].cur, NewOK(r),
         Small => AnchorOK(t, r)'
  PROVE  DInv' /\ CInv'
<1>1. Used' = Used /\ Finished' = Finished
  BY FinishedSame DEF Used, DInv
<1>2. \A u \in Threads : th'[u].upd = FALSE /\ NewOK(th'[u])
  BY DEF DInv, Moves
<1>3. DInv'
  BY <1>2 DEF DInv, NoDuplicateLinks, Neighbours, NewOK, Inserting, Ahead
<1>4. ASSUME Small, NEW u \in Threads, u # t
      PROVE  AnchorOK(u, th[u])'
  <2>1. PICK d : d = th[u] /\ d = th'[u] /\ AnchorOK(u, d)
    BY <1>4 DEF CInv, Moves
  <2>2. AnchorOK(u, d)'
    BY <1>1, <1>4, <2>1 DEF AnchorOK, Anchored, First
  <2> QED BY <2>1, <2>2
<1>5. CInv'
  <2>1. Small => Connected'
    BY <1>1 DEF CInv, Connected, Neighbours
  <2>2. Small' <=> Small
    BY <1>1 DEF Small, Mcurmax
  <2>3. Small => AnchorOK(t, th[t])'
    BY DEF Moves
  <2> QED BY <1>4, <2>1, <2>2, <2>3 DEF CInv
<1> QED BY <1>3, <1>5

\* addPoint passes the global lock.
LEMMA EnterGlobalC ==
  ASSUME EInv, GInv, DInv, CInv, NEW t \in Threads, EnterGlobal(t)
  PROVE  DInv' /\ CInv'
<1>1. PICK c, r : c = th[t] /\ r = [c EXCEPT !.pc = "enterpoint", !.max = maxlevel]
  OBVIOUS
<1>2. HasFields(c) /\ c.upd = FALSE /\ NewOK(c) /\ c.pc = "global"
  BY <1>1 DEF EInv, Shape, DInv, EnterGlobal
<1>3. r.pc = "enterpoint" /\ r.upd = FALSE /\ r.cur = c.cur
  BY <1>1, <1>2 DEF HasFields
<1>4. Moves(t, r)
  BY <1>1 DEF EInv, Shape, Moves, EnterGlobal
<1>5. /\ UNCHANGED <<level, links, marked, maxlevel>>
      /\ \A u \in Threads : u # t /\ global = u => global' = u
  BY GraphAssumption DEF EnterGlobal
<1>6. NewOK(r)
  BY <1>2, <1>3 DEF NewOK, Inserting, Ahead, Connecting
<1>7. AnchorOK(t, r)'
  BY <1>3 DEF AnchorOK
<1> QED BY <1>1, <1>3, <1>4, <1>5, <1>6, <1>7, QuietStep

\* The first element finds no entry point.
LEMMA ReadEnterpointC ==
  ASSUME EInv, GInv, DInv, CInv, NEW t \in Threads, ReadEnterpoint(t)
  PROVE  DInv' /\ CInv'
<1>1. PICK c, r :
        /\ c = th[t]
        /\ r = IF enterpoint = NoNode THEN [c EXCEPT !.pc = "finish"]
               ELSE [c EXCEPT !.obj = enterpoint, !.pc = "copy"]
  OBVIOUS
<1>2. HasFields(c) /\ c.upd = FALSE /\ NewOK(c) /\ c.pc = "enterpoint" /\ Inserting(c)
  BY <1>1 DEF EInv, Shape, DInv, ReadEnterpoint, Inserting, Connecting
<1>3. /\ r.upd = FALSE /\ r.cur = c.cur
      /\ \/ enterpoint = NoNode /\ r.pc = "finish"
         \/ r.pc = "copy"
  BY <1>1, <1>2 DEF HasFields
<1>4. th' = [th EXCEPT ![t] = r] /\ UNCHANGED <<level, links, marked, enterpoint, maxlevel, global>>
  BY <1>1 DEF ReadEnterpoint
<1>5. Moves(t, r)
  BY <1>4 DEF EInv, Shape, Moves
<1>6. NewOK(r)
  BY <1>2, <1>3 DEF NewOK, Ahead
<1>7. enterpoint = NoNode => First(t)
  <2> SUFFICES ASSUME enterpoint = NoNode PROVE First(t)
    OBVIOUS
  <2>1. maxlevel = -1
    <3>1. \A u \in Threads : th[u].pc # "raise"
      BY GraphAssumption DEF EInv, Raising, Levelled
    <3> QED BY <3>1 DEF EInv, Settled
  <2>2. global = t
    BY <1>1, <1>2, <2>1, LevelFacts, SMT DEF EInv, HoldsGlobal, Levelled, Inserting, Connecting
  <2>3. Finished = {}
    <3> SUFFICES ASSUME NEW n \in Finished PROVE FALSE
      OBVIOUS
    <3>1. n \in Nodes /\ level[n] > maxlevel
      BY <2>1, LevelFacts, SMT DEF Finished, Used, EInv, Shape
    <3> QED BY <3>1, InsertedNotFinished, SMT DEF GInv, Tops
  <2> QED BY <2>1, <2>2, <2>3 DEF First
<1>8. First(t) => First(t)'
  BY <1>1, <1>2, <1>3, <1>4, <1>5, FinishedSame DEF First
<1>9. AnchorOK(t, r)'
  BY <1>3, <1>7, <1>8 DEF AnchorOK
<1> QED BY <1>1, <1>3, <1>4, <1>5, <1>6, <1>9, QuietStep

\* Reading the entry point again writes no list, ...
LEMMA CopyEnterpointC ==
  ASSUME EInv, GInv, DInv, CInv, NEW t \in Threads, CopyEnterpoint(t)
  PROVE  DInv' /\ CInv'
<1>1. PICK c, r :
        /\ c = th[t]
        /\ r = [c EXCEPT !.ep = enterpoint, !.lev = c.max,
                        !.pc = IF level[c.cur] < c.max THEN "descend" ELSE "epDeleted"]
  OBVIOUS
<1>2. HasFields(c) /\ c.upd = FALSE /\ NewOK(c) /\ c.pc = "copy" /\ Inserting(c)
  BY <1>1 DEF EInv, Shape, DInv, CopyEnterpoint, Inserting, Connecting
<1>3. r.upd = FALSE /\ r.cur = c.cur /\ r.pc \in {"descend", "epDeleted"}
  BY <1>1, <1>2 DEF HasFields
<1>4. th' = [th EXCEPT ![t] = r] /\ UNCHANGED <<level, links, marked, enterpoint, maxlevel, global>>
  BY <1>1 DEF CopyEnterpoint
<1>5. Moves(t, r)
  BY <1>4 DEF EInv, Shape, Moves
<1>6. NewOK(r)
  BY <1>2, <1>3 DEF NewOK, Ahead
<1>7. AnchorOK(t, r)'
  BY <1>3 DEF AnchorOK
<1> QED BY <1>1, <1>3, <1>4, <1>5, <1>6, <1>7, QuietStep

\* ... and nor does the greedy descent.
LEMMA DescendC ==
  ASSUME EInv, GInv, DInv, CInv, NEW t \in Threads, Descend(t)
  PROVE  DInv' /\ CInv'
<1>1. PICK c, r : c = th[t] /\ r = th'[t]
  OBVIOUS
<1>2. HasFields(c) /\ c.upd = FALSE /\ NewOK(c) /\ c.pc = "descend" /\ Inserting(c)
  BY <1>1 DEF EInv, Shape, DInv, Descend, Inserting, Connecting
<1>3. \/ \E n : r = [c EXCEPT !.obj = n, !.seen = c.seen \cup {c.obj}]
      \/ r = [c EXCEPT !.lev = c.lev - 1]
      \/ r = [c EXCEPT !.lev = c.lev - 1, !.seen = {}, !.pc = "epDeleted"]
  BY <1>1, <1>2 DEF EInv, Shape, Descend
<1>4. r.upd = FALSE /\ r.cur = c.cur /\ r.pc \in {"descend", "epDeleted"}
  BY <1>2, <1>3 DEF HasFields
<1>5. Moves(t, r) /\ UNCHANGED <<level, links, marked, maxlevel, global>>
  BY <1>1 DEF EInv, Shape, Moves, Descend
<1>6. NewOK(r)
  BY <1>2, <1>4 DEF NewOK, Ahead
<1>7. AnchorOK(t, r)'
  BY <1>4 DEF AnchorOK
<1> QED BY <1>1, <1>4, <1>5, <1>6, <1>7, QuietStep

\* addPoint reads the mark of the entry point.
LEMMA ReadEpDeletedC ==
  ASSUME EInv, GInv, DInv, CInv, NEW t \in Threads, ReadEpDeleted(t)
  PROVE  DInv' /\ CInv'
<1>1. PICK c, r : /\ c = th[t]
                  /\ r = [c EXCEPT !.pc = "start", !.epDeleted = c.ep \in marked,
                                   !.lev = Minimum(level[c.cur], c.max)]
  OBVIOUS
<1>2. HasFields(c) /\ c.upd = FALSE /\ NewOK(c) /\ c.pc = "epDeleted" /\ Inserting(c)
  BY <1>1 DEF EInv, Shape, DInv, ReadEpDeleted, Inserting, Connecting
<1>3. r.upd = FALSE /\ r.cur = c.cur /\ r.pc = "start" /\ r.ep = c.ep
  BY <1>1, <1>2 DEF HasFields
<1>4. r.epDeleted => r.ep \in marked
  BY <1>1, <1>2, <1>3 DEF HasFields
<1>5. Moves(t, r) /\ UNCHANGED <<level, links, marked, maxlevel, global>>
  BY <1>1 DEF EInv, Shape, Moves, ReadEpDeleted
<1>6. NewOK(r)
  BY <1>2, <1>3, <1>4 DEF NewOK, Ahead
<1>7. AnchorOK(t, r)'
  BY <1>3 DEF AnchorOK
<1> QED BY <1>1, <1>3, <1>5, <1>6, <1>7, QuietStep

\* searchBaseLayer starts from currObj,
LEMMA StartSearchC ==
  ASSUME EInv, GInv, DInv, CInv, NEW t \in Threads, StartSearch(t)
  PROVE  DInv' /\ CInv'
<1>1. PICK c, r : /\ c = th[t]
                  /\ r = [c EXCEPT !.pc = "search", !.seen = {c.obj}, !.cand = {c.obj},
                                   !.top = {c.obj} \ marked]
  OBVIOUS
<1>2. HasFields(c) /\ c.upd = FALSE /\ NewOK(c) /\ c.pc = "start" /\ Inserting(c)
  BY <1>1 DEF EInv, Shape, DInv, StartSearch, Inserting, Connecting
<1>3. /\ r.upd = FALSE /\ r.cur = c.cur /\ r.pc = "search" /\ r.ep = c.ep /\ r.lev = c.lev
      /\ r.epDeleted = c.epDeleted /\ r.top = {c.obj} \ marked
  BY <1>1, <1>2 DEF HasFields
<1>4. Moves(t, r) /\ UNCHANGED <<level, links, marked, maxlevel, global>>
  BY <1>1 DEF EInv, Shape, Moves, StartSearch
<1>5. NewOK(r)
  BY <1>2, <1>3 DEF NewOK, Ahead
<1>6. AnchorOK(t, r)'
  BY <1>3 DEF AnchorOK
<1> QED BY <1>1, <1>3, <1>4, <1>5, <1>6, QuietStep

\* and lets only live elements into top_candidates.
LEMMA ExpandC ==
  ASSUME EInv, GInv, DInv, CInv, NEW t \in Threads, Expand(t)
  PROVE  DInv' /\ CInv'
<1>1. PICK c : c = th[t]
  OBVIOUS
<1>2. HasFields(c) /\ c.upd = FALSE /\ NewOK(c) /\ c.pc = "search" /\ Inserting(c)
  BY <1>1 DEF EInv, Shape, DInv, Expand, Inserting, Connecting
<1>3. PICK seen, top, cand : /\ \A n \in top : n \in c.top \/ n \notin marked
                             /\ th' = [th EXCEPT ![t].seen = seen, ![t].top = top, ![t].cand = cand]
  <2>1. PICK n \in th[t].cand :
          /\ LockFree(n)
          /\ LET new   == Neighbours(n, th[t].lev) \ th[t].seen
                 found == th[t].top \cup (new \ marked)
             IN  \E top \in SUBSET found, near \in SUBSET new :
                  /\ Cardinality(top) = Minimum(EfConstruction, Cardinality(found))
                  /\ top \cap new \subseteq near
                  /\ Cardinality(found) < EfConstruction => near = new
                  /\ th' = [th EXCEPT ![t].seen = @ \cup new, ![t].top = top,
                                      ![t].cand = (@ \ {n}) \cup near]
    BY DEF Expand
  <2>2. PICK new : new = Neighbours(n, th[t].lev) \ th[t].seen
    OBVIOUS
  <2>3. PICK top \in SUBSET (th[t].top \cup (new \ marked)), near \in SUBSET new :
          th' = [th EXCEPT ![t].seen = @ \cup new, ![t].top = top, ![t].cand = (@ \ {n}) \cup near]
    BY <2>1, <2>2
  <2>4. \A m \in top : m \in c.top \/ m \notin marked
    BY <1>1, <2>3
  <2> QED BY <2>3, <2>4
<1>4. PICK r : r = [c EXCEPT !.seen = seen, !.top = top, !.cand = cand]
  OBVIOUS
<1>5. /\ r.upd = FALSE /\ r.cur = c.cur /\ r.pc = "search" /\ r.ep = c.ep /\ r.lev = c.lev
      /\ r.epDeleted = c.epDeleted /\ r.top = top
  BY <1>2, <1>4 DEF HasFields
<1>6. Moves(t, r) /\ UNCHANGED <<level, links, marked, maxlevel, global>>
  BY <1>1, <1>3, <1>4 DEF EInv, Shape, Moves, Expand
<1>7. NewOK(r)
  BY <1>2, <1>3, <1>5 DEF NewOK, Ahead, Inserting
<1>8. AnchorOK(t, r)'
  BY <1>5 DEF AnchorOK
<1> QED BY <1>1, <1>5, <1>6, <1>7, <1>8, QuietStep

\* An element that becomes finished is linked to the others.
LEMMA ConnectedGrows ==
  ASSUME NEW x, Connected, Anchored(x) \/ Finished = {}
  PROVE  \A S \in SUBSET (Finished \cup {x}) : S # {} /\ S # Finished \cup {x} =>
             \E n \in S : Neighbours(n, 0) \cap ((Finished \cup {x}) \ S) # {}
<1> DEFINE N == Finished \cup {x}
<1> SUFFICES ASSUME NEW S \in SUBSET N, S # {}, S # N
             PROVE  \E n \in S : Neighbours(n, 0) \cap (N \ S) # {}
  OBVIOUS
<1>1. Finished # {}
  OBVIOUS
<1>2. PICK m \in Finished : m \in Neighbours(x, 0) /\ x \in Neighbours(m, 0)
  BY <1>1 DEF Anchored, Neighbours, BagToSet
<1>3. CASE S \cap Finished = {}
  BY <1>2, <1>3
<1>4. CASE S \cap Finished = Finished
  BY <1>2, <1>4
<1>5. CASE S \cap Finished # {} /\ S \cap Finished # Finished
  <2>1. PICK n \in S \cap Finished : Neighbours(n, 0) \cap (Finished \ (S \cap Finished)) # {}
    BY <1>5 DEF Connected
  <2> QED BY <2>1
<1> QED BY <1>3, <1>4, <1>5

\* An insertion that ends leaves an element linked to a finished one in both ways.
LEMMA CallEndsC ==
  ASSUME EInv, GInv, DInv, CInv, NEW t \in Threads, Moves(t, Idle), Unlock(t),
         UNCHANGED <<level, links, marked>>, maxlevel' = maxlevel \/ global = t,
         th[t].pc \in {"finish", "raise"}
  PROVE  DInv' /\ CInv'
<1>1. /\ Idle.pc = "idle" /\ Idle.upd = FALSE /\ Idle.cur = NoNode
      /\ \A u \in Threads : u # t => th'[u] = th[u]
      /\ \A u \in Threads : u # t /\ global = u => global' = u
  BY DEF Idle, Moves, Unlock
<1>2. PICK c : c = th[t] /\ c.upd = FALSE /\ Inserting(c) /\ c.cur \in Used
  BY DEF DInv, Inserting, Connecting, GInv, CallOK, RoleOK, Updating
<1>3. Used' = Used /\ Finished' = Finished \cup {c.cur}
  <2>1. Used' = Used /\ Used \subseteq Nodes
    BY DEF Used
  <2>2. ASSUME NEW n \in Used
        PROVE  (\A u \in Threads : ~th'[u].upd => th'[u].cur # n)
                 <=> (\A u \in Threads : ~th[u].upd => th[u].cur # n) \/ n = c.cur
    <3>1. ~th'[t].upd /\ th'[t].cur # n
      BY <1>1, <2>1, GraphAssumption DEF Moves
    <3>2. CASE n = c.cur
      <4>1. ASSUME NEW u \in Threads, u # t PROVE th[u].cur # n
        <5>1. th[u].cur = NoNode \/ Inserting(th[u])
          BY DEF GInv, CallOK, RoleOK, Updating, DInv
        <5> QED BY <1>2, <2>1, <3>2, <4>1, <5>1, OneInserter, GraphAssumption
      <4> QED BY <1>1, <3>1, <3>2, <4>1
    <3>3. CASE n # c.cur
      BY <1>1, <1>2, <3>1, <3>3
    <3> QED BY <3>2, <3>3
  <2>3. \A n \in Used : n \in Finished' <=> n \in Finished \/ n = c.cur
    BY <2>1, <2>2 DEF Finished
  <2>4. Finished \subseteq Used /\ Finished' \subseteq Used
    BY <2>1 DEF Finished
  <2> QED BY <1>2, <2>1, <2>3, <2>4
<1>4. NewOK(Idle)
  BY <1>1 DEF NewOK, Inserting, Connecting
<1>5. DInv'
  <2>1. \A u \in Threads : th'[u].upd = FALSE /\ NewOK(th'[u])
    BY <1>1, <1>4 DEF DInv, Moves
  <2> QED BY <2>1 DEF DInv, NoDuplicateLinks, Neighbours, NewOK, Inserting, Ahead
<1>6. CInv'
  <2>1. Small' <=> Small
    BY <1>3 DEF Small, Mcurmax
  <2> SUFFICES ASSUME Small
               PROVE  Connected' /\ \A u \in Threads : AnchorOK(u, th[u])'
    BY <2>1 DEF CInv
  <2>2. Connected /\ (Anchored(c.cur) \/ Finished = {})
    BY <1>2 DEF CInv, AnchorOK, First
  <2>3. Connected'
    <3>1. \A S \in SUBSET (Finished \cup {c.cur}) : S # {} /\ S # Finished \cup {c.cur} =>
             \E n \in S : Neighbours(n, 0) \cap ((Finished \cup {c.cur}) \ S) # {}
      BY <2>2, ConnectedGrows
    <3>2. \A n : Neighbours(n, 0)' = Neighbours(n, 0)
      BY DEF Neighbours
    <3> QED BY <1>3, <3>1, <3>2 DEF Connected
  <2>4. ASSUME NEW u \in Threads PROVE AnchorOK(u, th[u])'
    <3>1. PICK d : d = th'[u]
      OBVIOUS
    <3>2. CASE u = t
      <4>1. AnchorOK(u, d)'
        BY <1>1, <3>1, <3>2 DEF AnchorOK, Moves
      <4> QED BY <3>1, <4>1
    <3>3. CASE u # t
      <4>1. d = th[u] /\ AnchorOK(u, d)
        BY <1>1, <3>1, <3>3 DEF CInv
      <4>2. ~First(u)
        <5>1. maxlevel = -1 => global = t
          BY <1>2, LevelFacts, SMT DEF EInv, HoldsGlobal, Raising, Levelled, Connecting, Inserting
        <5> QED BY <3>3, <5>1 DEF First
      <4>3. AnchorOK(u, d)'
        BY <1>3, <4>1, <4>2 DEF AnchorOK, Anchored
      <4> QED BY <3>1, <4>3
    <3> QED BY <3>2, <3>3
  <2> QED BY <2>3, <2>4
<1> QED BY <1>5, <1>6

\* addPoint ends, or writes enterpoint_node_;
LEMMA FinishC ==
  ASSUME EInv, GInv, DInv, CInv, NEW t \in Threads, Finish(t)
  PROVE  DInv' /\ CInv'
<1>1. PICK c : c = th[t] /\ c.upd = FALSE /\ c.pc = "finish"
  BY DEF DInv, Finish
<1>2. UNCHANGED <<level, links, marked, maxlevel>>
  BY DEF Finish
<1>3. CASE ~c.upd /\ level[c.cur] > c.max
  <2>1. PICK r : r = [Idle EXCEPT !.pc = "raise", !.cur = c.cur]
    OBVIOUS
  <2>2. r.pc = "raise" /\ r.upd = FALSE /\ r.cur = c.cur
    BY <2>1 DEF Idle
  <2>3. th' = [th EXCEPT ![t] = r] /\ UNCHANGED global
    BY <1>1, <1>3, <2>1 DEF Finish
  <2>4. Moves(t, r)
    BY <2>3 DEF EInv, Shape, Moves
  <2>5. NewOK(r)
    BY <2>2 DEF NewOK, Ahead
  <2>6. Finished' = Finished
    BY <1>1, <1>2, <2>2, <2>4, FinishedSame
  <2>7. Small => AnchorOK(t, r)
    BY <1>1, <2>2 DEF CInv, AnchorOK
  <2>8. Small => AnchorOK(t, r)'
    BY <1>2, <2>3, <2>6, <2>7 DEF AnchorOK, Anchored, First
  <2> QED BY <1>1, <1>2, <2>2, <2>3, <2>4, <2>5, <2>8, QuietStep
<1>4. CASE ~(~c.upd /\ level[c.cur] > c.max)
  <2>1. th' = [th EXCEPT ![t] = Idle] /\ Unlock(t)
    BY <1>1, <1>4 DEF Finish
  <2>2. Moves(t, Idle)
    BY <2>1 DEF EInv, Shape, Moves
  <2> QED BY <1>1, <1>2, <2>1, <2>2, CallEndsC
<1> QED BY <1>3, <1>4

\* then it writes maxlevel_ and ends.
LEMMA RaiseC ==
  ASSUME EInv, GInv, DInv, CInv, NEW t \in Threads, Raise(t)
  PROVE  DInv' /\ CInv'
<1>1. th[t].pc = "raise" /\ Unlock(t) /\ UNCHANGED <<level, links, marked>> /\ global = t
  BY DEF Raise, EInv, Raising
<1>2. Moves(t, Idle)
  BY DEF EInv, Shape, Moves, Raise
<1> QED BY <1>1, <1>2, CallEndsC

\* Marks change only while every thread is idle.
LEMMA FlipMarkC ==
  ASSUME QuietMarks \/ Markable = {}, EInv, GInv, DInv, CInv, NEW n \in Nodes, FlipMark(n)
  PROVE  DInv' /\ CInv'
<1>1. /\ \A t \in Threads : th[t].pc = "idle"
      /\ UNCHANGED <<level, links, maxlevel, global, th>>
  BY DEF FlipMark
<1>2. Used' = Used /\ Finished' = Finished
  BY <1>1 DEF Used, Finished
<1>3. DInv'
  BY <1>1 DEF DInv, NoDuplicateLinks, Neighbours, NewOK, Inserting, Connecting
<1>4. CInv'
  BY <1>1, <1>2 DEF CInv, Small, Mcurmax, Connected, Neighbours, AnchorOK
<1> QED BY <1>3, <1>4

\* A step of an insertion that writes one list, and loses no link on the ground
\* level while lists cannot overflow.
LEMMA ListStepC ==
  ASSUME EInv, GInv, DInv, CInv, NEW t \in Threads, Inserting(th[t]), NEW r, Moves(t, r),
         NEW n \in Nodes, NEW l \in Levels, NEW b, Writes(n, l, b),
         UNCHANGED <<level, marked, maxlevel, global>>,
         r.upd = FALSE, r.cur = th[t].cur, NewOK(r)', Small => AnchorOK(t, r)',
         \A m \in DOMAIN b : b[m] = 1,
         DOMAIN b \subseteq DOMAIN links[n][l] \cup Finished \cup {th[t].cur},
         Small /\ l = 0 => DOMAIN links[n][0] \subseteq DOMAIN b
  PROVE  DInv' /\ CInv'
<1>1. \A m \in Nodes, k \in Levels : links'[m][k] = IF m = n /\ k = l THEN b ELSE links[m][k]
  BY DEF GInv, Lists, Writes
<1>2. Used' = Used /\ Finished' = Finished
  BY FinishedSame DEF Used, DInv
<1>3. NoDuplicateLinks'
  BY <1>1, SMT DEF DInv, NoDuplicateLinks, Neighbours, BagToSet
<1>4. ASSUME NEW u \in Threads, u # t PROVE (th[u].upd = FALSE /\ NewOK(th[u]))'
  <2>1. PICK d : d = th[u] /\ d = th'[u] /\ d.upd = FALSE /\ NewOK(d) /\ CallOK(d)
    BY <1>4 DEF DInv, GInv, Moves
  <2>2. Inserting(d) => \A m \in Nodes, k \in Levels :
                          d.cur \in DOMAIN links'[m][k] => d.cur \in DOMAIN links[m][k]
    <3> SUFFICES ASSUME Inserting(d)
                 PROVE  \A m \in Nodes, k \in Levels :
                          d.cur \in DOMAIN links'[m][k] => d.cur \in DOMAIN links[m][k]
      OBVIOUS
    <3>1. d.cur \notin Finished /\ d.cur # th[t].cur
      BY <1>4, <2>1, InsertedNotFinished, OneInserter
    <3> QED BY <1>1, <3>1
  <2>3. d.pc = "link" => Inserting(d) /\ d.lev \in Levels /\ DOMAIN d.sel \subseteq Nodes
    BY <2>1 DEF CallOK, PlaceOK, SelOK, Finished, Used, BagToSet, Inserting, Connecting
  <2>4. NewOK(d)'
    BY <2>1, <2>2, <2>3 DEF NewOK, Ahead, Inserting
  <2> QED BY <2>1, <2>4
<1>5. DInv'
  BY <1>3, <1>4 DEF DInv, Moves
<1>6. CInv'
  <2>1. Small' <=> Small
    BY <1>2 DEF Small, Mcurmax
  <2> SUFFICES ASSUME Small
               PROVE  Connected' /\ \A u \in Threads : AnchorOK(u, th[u])'
    BY <2>1 DEF CInv
  <2>2. 0 \in Levels /\ Finished \subseteq Nodes
    BY GraphAssumption, SMT DEF Levels, Finished, Used
  <2>3. \A m \in Nodes : DOMAIN links[m][0] \subseteq DOMAIN links'[m][0]
    BY <1>1, <2>2
  <2>4. Connected'
    BY <1>2, <2>2, <2>3 DEF CInv, Connected, Neighbours, BagToSet
  <2>5. ASSUME NEW u \in Threads, u # t PROVE AnchorOK(u, th[u])'
    <3>1. PICK d : d = th[u] /\ d = th'[u] /\ AnchorOK(u, d) /\ CallOK(d) /\ d.upd = FALSE
      BY <2>5 DEF CInv, DInv, GInv, Moves
    <3>2. d.pc \in {"link", "finish", "raise"} => d.cur \in Nodes
      BY <3>1, CurFacts
    <3>3. AnchorOK(u, d)'
      BY <1>2, <2>2, <2>3, <3>1, <3>2 DEF AnchorOK, Anchored, First
    <3> QED BY <3>1, <3>3
  <2> QED BY <2>4, <2>5 DEF Moves
<1> QED BY <1>5, <1>6

\* At the start every element is linked to every other of its level.
LEMMA InitC ==
  ASSUME Init
  PROVE  DInv /\ CInv
<1>1. /\ Used = Seeds /\ th = [t \in Threads |-> Idle]
      /\ links = [n \in Nodes |-> [l \in Levels |->
                   SetToBag({m \in Seeds \ {n} : level[m] >= l /\ level[n] >= l})]]
  BY DEF Init
<1>2. Idle.upd = FALSE /\ Idle.pc = "idle" /\ Idle.cur = NoNode
  BY DEF Idle
<1>3. DInv
  BY <1>1, <1>2 DEF DInv, NoDuplicateLinks, Neighbours, BagToSet, SetToBag, NewOK, Inserting, Connecting
<1>4. Finished = Seeds /\ 0 \in Levels
  BY <1>1, <1>2, GraphAssumption, SMT DEF Finished, Levels
<1>5. \A n \in Seeds : Neighbours(n, 0) = Seeds \ {n}
  BY <1>1, <1>4, GraphAssumption DEF Neighbours, BagToSet, SetToBag, Used
<1>6. Connected
  BY <1>4, <1>5, SMT DEF Connected
<1>7. \A t \in Threads : AnchorOK(t, th[t])
  BY <1>1, <1>2 DEF AnchorOK
<1> QED BY <1>3, <1>6, <1>7 DEF CInv

\* As long as no ground-level list can overflow, no set of finished elements is cut
\* off from the entry point.
LEMMA CInvMeans ==
  ASSUME DInv, CInv
  PROVE  NoDuplicateLinks /\ NoElementLost
BY DEF DInv, CInv, Connected, Small, NoElementLost
=============================================================================

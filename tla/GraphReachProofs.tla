-------------------------- MODULE GraphReachProofs --------------------------
(***************************************************************************)
(* Insertions alone, without updates: no list has an element twice (DInv), *)
(* and while no ground-level list can overflow the finished elements hang  *)
(* together (CInv), whatever the insertions that run at the same time.     *)
(***************************************************************************)
EXTENDS GraphLinkProofs

\* Steps are left to Zenon, except where SMT is named.
USE Zenon

\* A new element is in no list yet.
LEMMA BeginInsertC ==
  ASSUME EInv, GInv, DInv, CInv, NEW t \in Threads, NEW n \in Nodes, NEW lv \in Levels,
         BeginInsert(t, n, lv)
  PROVE  DInv' /\ CInv'
<1>1. PICK r : r = [Idle EXCEPT !.pc = "global", !.cur = n]
  OBVIOUS
<1>2. r.pc = "global" /\ r.upd = FALSE /\ r.cur = n
  BY <1>1 DEF Idle
<1>3. /\ th[t].pc = "idle" /\ level[n] = -1 /\ level' = [level EXCEPT ![n] = lv]
      /\ links' = [links EXCEPT ![n] = [l \in Levels |-> EmptyBag]]
      /\ th' = [th EXCEPT ![t] = r] /\ UNCHANGED <<marked, maxlevel, global>>
  BY <1>1 DEF BeginInsert
<1>4. Moves(t, r)
  BY <1>3 DEF EInv, Shape, Moves
<1>5. \A m \in Nodes, l \in Levels : links'[m][l] = IF m = n THEN EmptyBag ELSE links[m][l]
  BY <1>3 DEF GInv, Lists
<1>6. DOMAIN EmptyBag = {}
  BY DEF EmptyBag, SetToBag
<1>7. \A m \in Nodes, l \in Levels : DOMAIN links'[m][l] \subseteq DOMAIN links[m][l]
  BY <1>5, <1>6
<1>8. \A m \in Nodes, l \in Levels : n \notin DOMAIN links[m][l]
  BY <1>3, NeighbourFacts, SMT DEF Used, Neighbours, BagToSet
<1>9. DInv'
  <2>1. NoDuplicateLinks'
    BY <1>5, <1>6, SMT DEF DInv, NoDuplicateLinks, Neighbours, BagToSet
  <2>2. ASSUME NEW u \in Threads PROVE (th[u].upd = FALSE /\ NewOK(th[u]))'
    <3>1. PICK d : d = th'[u]
      OBVIOUS
    <3>2. CASE u = t
      <4>1. d.upd = FALSE /\ NewOK(d)'
        BY <1>2, <1>4, <1>7, <1>8, <3>1, <3>2 DEF NewOK, Moves, Ahead
      <4> QED BY <3>1, <4>1
    <3>3. CASE u # t
      <4>1. d = th[u] /\ d.upd = FALSE /\ NewOK(d) /\ CallOK(d)
        BY <1>4, <3>1, <3>3 DEF DInv, Moves, GInv
      <4>2. d.pc = "link" => d.lev \in Levels /\ DOMAIN d.sel \subseteq Nodes
        BY <4>1 DEF CallOK, PlaceOK, SelOK, Finished, Used, BagToSet
      <4>3. NewOK(d)'
        BY <1>3, <1>7, <4>1, <4>2 DEF NewOK, Ahead, Inserting
      <4> QED BY <3>1, <4>1, <4>3
    <3> QED BY <3>2, <3>3
  <2> QED BY <2>1, <2>2 DEF DInv
<1>10. Used' = Used \cup {n} /\ Finished' = Finished /\ Used \subseteq Nodes \ {n}
  <2>1. Used' = Used \cup {n} /\ Used \subseteq Nodes \ {n}
    BY <1>3, LevelFacts, SMT DEF Used, EInv, Shape
  <2>2. th[t].cur = NoNode
    BY <1>3 DEF GInv, CallOK, RoleOK, Inserting, Updating, Connecting
  <2>3. ASSUME NEW m \in Used
        PROVE  (\A u \in Threads : ~th'[u].upd => th'[u].cur # m)
                 <=> (\A u \in Threads : ~th[u].upd => th[u].cur # m)
    <3>1. th'[t].cur # m /\ th[t].cur # m
      BY <1>2, <1>4, <2>1, <2>2, GraphAssumption DEF Moves
    <3> QED BY <1>4, <3>1 DEF Moves
  <2>4. n \notin Finished'
    BY <1>2, <1>4, <2>1 DEF Finished, Moves
  <2> QED BY <2>1, <2>3, <2>4 DEF Finished
<1>11. CInv'
  <2>1. Small' => Small
    <3>1. IsFiniteSet(Used) /\ Cardinality(Used) \in Nat /\ Cardinality(Used') = Cardinality(Used) + 1
      BY <1>10, FiniteNodes, FS_AddElement, FS_CardinalityType
    <3>2. Mcurmax(0) \in Nat
      BY LevelFacts, GraphAssumption, SMT DEF Levels
    <3> QED BY <3>1, <3>2, SMT DEF Small, Mcurmax
  <2> SUFFICES ASSUME Small
               PROVE  Connected' /\ \A u \in Threads : AnchorOK(u, th[u])'
    BY <2>1 DEF CInv
  <2>2. \A m \in Used : links'[m] = links[m] /\ 0 \in Levels
    BY <1>3, <1>10, GraphAssumption, SMT DEF GInv, Lists, Levels
  <2>3. Finished \subseteq Used
    BY DEF Finished
  <2>4. Connected'
    BY <1>10, <2>2, <2>3 DEF CInv, Connected, Neighbours
  <2>5. ASSUME NEW u \in Threads PROVE AnchorOK(u, th[u])'
    <3>1. PICK d : d = th'[u]
      OBVIOUS
    <3>2. CASE u = t
      <4>1. AnchorOK(u, d)'
        BY <1>2, <1>4, <3>1, <3>2 DEF AnchorOK, Moves
      <4> QED BY <3>1, <4>1
    <3>3. CASE u # t
      <4>1. d = th[u] /\ AnchorOK(u, d) /\ CallOK(d) /\ d.upd = FALSE
        BY <1>4, <3>1, <3>3 DEF CInv, Moves, GInv, DInv
      <4>2. d.pc \in {"link", "finish", "raise"} => d.cur \in Used
        BY <4>1 DEF CallOK, RoleOK, Updating
      <4>3. AnchorOK(u, d)'
        BY <1>3, <1>10, <2>2, <2>3, <4>1, <4>2 DEF AnchorOK, Anchored, First
      <4> QED BY <3>1, <4>3
    <3> QED BY <3>2, <3>3
  <2> QED BY <2>4, <2>5
<1> QED BY <1>9, <1>11

\* What adding one element to a bag does.
LEMMA BagAdded ==
  ASSUME NEW b, FiniteBag(b), NEW x
  PROVE  Added(b, x, b (+) SetToBag({x}))
<1>1. PICK c : c = b (+) SetToBag({x})
  OBVIOUS
<1>2. FiniteBag(c) /\ DOMAIN c = DOMAIN b \cup {x}
  BY <1>1, BagAdd
<1>3. \A e \in DOMAIN b : e # x => c[e] = b[e]
  BY <1>1, BagAdd
<1>4. x \notin DOMAIN b => c[x] = 1
  BY <1>1, BagAdd
<1> QED BY <1>1, <1>2, <1>3, <1>4 DEF Added

\* Each candidate is handed over once: a deleted entry point is not among what the
\* search found.
LEMMA CandidateOnes ==
  ASSUME NEW top, IsFiniteSet(top), NEW e \in BOOLEAN, NEW ep, e => ep \notin top,
         NEW b \in Candidates(top, e, ep)
  PROVE  \A n \in DOMAIN b : b[n] = 1
<1>1. PICK s : s = SetToBag(top) /\ FiniteBag(s) /\ DOMAIN s = top /\ \A n \in top : s[n] = 1
  BY BagOfSet
<1>2. CASE ~e
  BY <1>1, <1>2, SMT DEF Candidates
<1>3. CASE e
  <2>1. PICK a : a = s (+) SetToBag({ep})
    OBVIOUS
  <2>2. FiniteBag(a) /\ \A n \in DOMAIN a : a[n] = 1
    <3>1. /\ FiniteBag(a) /\ DOMAIN a = top \cup {ep}
          /\ \A n \in top : n # ep => a[n] = s[n]
          /\ ep \notin top => a[ep] = 1
      <4>1. Added(s, ep, a)
        BY <1>1, <2>1, BagAdded
      <4> QED BY <1>1, <4>1 DEF Added
    <3> QED BY <1>1, <1>3, <3>1
  <2>3. b = a \/ \E n : b = a (-) SetToBag({n})
    BY <1>1, <1>3, <2>1 DEF Candidates, WithEntryPoint
  <2>4. FiniteBag(b) /\ \A n \in DOMAIN b : n \in DOMAIN a /\ b[n] <= a[n]
    <3>1. CASE b = a
      BY <2>2, <3>1, SMT
    <3>2. CASE \E n : b = a (-) SetToBag({n})
      <4>1. PICK n : b = a (-) SetToBag({n})
        BY <3>2
      <4>2. /\ FiniteBag(a (-) SetToBag({n})) /\ DOMAIN (a (-) SetToBag({n})) \subseteq DOMAIN a
            /\ \A m \in DOMAIN (a (-) SetToBag({n})) : (a (-) SetToBag({n}))[m] <= a[m]
        BY <2>2, BagRemove
      <4> QED BY <4>1, <4>2
    <3> QED BY <2>3, <3>1, <3>2
  <2> QED BY <2>2, <2>4, BagSizeNat, SMT
<1> QED BY <1>2, <1>3

\* mutuallyConnectNewElement writes the list of the new element.
LEMMA ConnectInsertC ==
  ASSUME EInv, GInv, LiveCandidate, DInv, CInv, NEW t \in Threads, ConnectInsert(t)
  PROVE  DInv' /\ CInv'
<1>1. PICK c : c = th[t]
  OBVIOUS
<1>2. /\ HasFields(c) /\ c.upd = FALSE /\ CallOK(c) /\ NewOK(c) /\ c.pc = "search"
      /\ SearchDone(t) /\ Inserting(c)
  BY <1>1 DEF EInv, Shape, GInv, DInv, ConnectInsert, SearchDone, Inserting, Connecting
<1>3. /\ c.lev \in Levels /\ c.cur \in Nodes /\ c.lev \in Ahead(c) /\ Finished \subseteq Nodes
      /\ c.top \subseteq Used /\ IsFiniteSet(c.top) /\ links[c.cur][c.lev] = EmptyBag
  BY <1>2, CurFacts, FiniteNodes, LevelFacts, SMT DEF CallOK, PlaceOK, SetsOK, Blank, Ahead, Finished, Used
<1>4. PICK e, b, s : Selects(t, e, b, s)
  BY ConnectInsertSelects
<1>5. /\ WriteOwnList(t, s) /\ FiniteBag(s) /\ s # EmptyBag /\ BagCardinality(s) <= M
      /\ \A n \in DOMAIN s : n \in Finished /\ n # c.cur /\ level[n] >= c.lev
  BY <1>1, <1>4 DEF Selects, BagToSet
<1>6. \A n \in DOMAIN s : s[n] = 1
  <2>1. e => c.ep \notin c.top
    BY <1>1, <1>2, <1>4 DEF Selects, NewOK
  <2>2. \A n \in DOMAIN b : b[n] = 1
    BY <1>1, <1>3, <1>4, <2>1, CandidateOnes, SMT DEF Selects
  <2>3. \A n \in DOMAIN s : n \in DOMAIN b /\ s[n] <= b[n]
    BY <1>4 DEF Selects
  <2> QED BY <1>5, <2>2, <2>3, BagSizeNat, SMT
<1>7. UNCHANGED <<level, marked, enterpoint, maxlevel>>
  BY DEF ConnectInsert
<1>8. PICK next, r : Writing(t, s, next, r)
  <2>1. th[t].pc = "search" /\ \A n \in BagToSet(s) : n \in Nodes /\ level[n] >= th[t].lev
    BY <1>1, <1>2, <1>3, <1>5 DEF BagToSet
  <2> QED BY <1>5, <2>1, OwnListWritten
<1>9. /\ next \in DOMAIN s /\ r = [c EXCEPT !.pc = "link", !.sel = s, !.obj = next,
                                             !.seen = {}, !.cand = {}, !.top = {}]
      /\ Moves(t, r) /\ Writes(c.cur, c.lev, s) /\ UNCHANGED global
  BY <1>1, <1>8 DEF Writing, BagToSet
<1>10. /\ r.pc = "link" /\ r.upd = FALSE /\ r.cur = c.cur /\ r.ep = c.ep /\ r.lev = c.lev
       /\ r.epDeleted = c.epDeleted /\ r.obj = next /\ r.sel = s
  BY <1>2, <1>9 DEF HasFields
<1>11. \A m \in Nodes, k \in Levels : links'[m][k] = IF m = c.cur /\ k = c.lev THEN s ELSE links[m][k]
  BY <1>9, SMT DEF GInv, Lists, Writes
<1>12. NewOK(r)'
  <2>1. \A l \in Ahead(r) : l \in Ahead(c) /\ l \in Levels /\ l # c.lev
    BY <1>2, <1>3, <1>10, LevelFacts, SMT DEF Ahead
  <2>2. \A l \in Ahead(r), n \in Nodes : r.cur \notin DOMAIN links'[n][l]
    BY <1>2, <1>10, <1>11, <2>1 DEF NewOK
  <2>3. \A n \in DOMAIN s : c.cur \notin DOMAIN links'[n][c.lev]
    BY <1>2, <1>3, <1>5, <1>11, SMT DEF NewOK
  <2> QED BY <1>2, <1>6, <1>7, <1>10, <2>2, <2>3 DEF NewOK, Ahead
<1>13. Finished' = Finished
  BY <1>1, <1>2, <1>7, <1>9, <1>10, FinishedSame
<1>14. AnchorOK(t, r)'
  BY <1>3, <1>5, <1>9, <1>10, <1>11, <1>13, SMT DEF AnchorOK
<1>15. DOMAIN links[c.cur][c.lev] = {}
  BY <1>3 DEF EmptyBag, SetToBag
<1>16. /\ DOMAIN s \subseteq DOMAIN links[c.cur][c.lev] \cup Finished \cup {th[t].cur}
       /\ Small /\ c.lev = 0 => DOMAIN links[c.cur][0] \subseteq DOMAIN s
  BY <1>5, <1>15
<1>17. Inserting(th[t]) /\ r.cur = th[t].cur /\ UNCHANGED <<level, marked, maxlevel, global>>
  BY <1>1, <1>2, <1>7, <1>9, <1>10
<1>18. Moves(t, r) /\ r.upd = FALSE /\ (Small => AnchorOK(t, r)')
  BY <1>9, <1>10, <1>14
<1> QED BY <1>3, <1>6, <1>9, <1>12, <1>16, <1>17, <1>18, ListStepC

\* A neighbour that cannot overflow keeps its links and gets the new one.
LEMMA LinkBackGrows ==
  ASSUME EInv, GInv, DInv, NEW c, c.upd = FALSE, c.cur \in Used, NEW n \in Used, n # c.cur,
         c.lev \in Levels, c.cur \notin DOMAIN links[n][c.lev], NEW b \in LinkBack(c, n)
  PROVE  /\ \A m \in DOMAIN b : b[m] = 1
         /\ DOMAIN b \subseteq DOMAIN links[n][c.lev] \cup {c.cur}
         /\ Small /\ c.lev = 0 => DOMAIN b = DOMAIN links[n][0] \cup {c.cur}
<1>1. PICK old, new : old = links[n][c.lev] /\ new = old (+) SetToBag({c.cur})
  OBVIOUS
<1>2. n \in Nodes /\ FiniteBag(old) /\ \A m \in DOMAIN old : old[m] = 1
  BY <1>1, SMT DEF Used, GInv, Lists, ListOK, DInv, NoDuplicateLinks, Neighbours, BagToSet
<1>3. FiniteBag(new) /\ DOMAIN new = DOMAIN old \cup {c.cur} /\ \A m \in DOMAIN new : new[m] = 1
  <2>1. /\ FiniteBag(new) /\ DOMAIN new = DOMAIN old \cup {c.cur}
        /\ \A m \in DOMAIN old : m # c.cur => new[m] = old[m]
        /\ c.cur \notin DOMAIN old => new[c.cur] = 1
    <3>1. Added(old, c.cur, new)
      BY <1>1, <1>2, BagAdded
    <3> QED BY <3>1 DEF Added
  <2> QED BY <1>1, <1>2, <2>1
<1>4. /\ BagCardinality(old) < Mcurmax(c.lev) => b = new
      /\ b = new \/ b \in Heuristic(new, Mcurmax(c.lev))
  BY <1>1 DEF LinkBack
<1>5. /\ \A m \in DOMAIN b : b[m] = 1
      /\ DOMAIN b \subseteq DOMAIN new
  <2>1. Mcurmax(c.lev) \in Nat
    BY LevelFacts
  <2>2. FiniteBag(b) /\ DOMAIN b \subseteq DOMAIN new /\ \A m \in DOMAIN b : b[m] <= new[m]
    BY <1>3, <1>4, <2>1, HeuristicBags, BagSizeNat
  <2> QED BY <1>3, <2>2, BagSizeNat, SMT
<1>6. ASSUME Small, c.lev = 0 PROVE BagCardinality(old) < Mcurmax(c.lev)
  <2>1. DOMAIN old \subseteq (Used \ {n}) \ {c.cur}
    BY <1>1, <1>2, NeighbourFacts DEF Neighbours, BagToSet
  <2>2. /\ IsFiniteSet(Used) /\ Cardinality(Used) \in Nat
        /\ Cardinality(Used \ {n}) = Cardinality(Used) - 1 /\ IsFiniteSet(Used \ {n})
        /\ Cardinality((Used \ {n}) \ {c.cur}) = Cardinality(Used \ {n}) - 1
        /\ IsFiniteSet((Used \ {n}) \ {c.cur})
    BY FiniteNodes, FS_RemoveElement, FS_CardinalityType
  <2>3. /\ Cardinality(DOMAIN old) <= Cardinality((Used \ {n}) \ {c.cur})
        /\ Cardinality(DOMAIN old) \in Nat
    BY <2>1, <2>2, FS_Subset, FS_CardinalityType
  <2>4. BagCardinality(old) = Cardinality(DOMAIN old)
    BY <1>2, BagOfOnes
  <2>5. Mcurmax(0) \in Nat /\ Cardinality(Used) <= Mcurmax(0) + 1
    BY <1>6, LevelFacts, GraphAssumption DEF Small, Levels
  <2> QED BY <1>6, <2>2, <2>3, <2>4, <2>5, SMT
<1> QED BY <1>1, <1>3, <1>4, <1>5, <1>6

\* mutuallyConnectNewElement gives a chosen neighbour its new list.
LEMMA LinkNeighbourC ==
  ASSUME EInv, GInv, DInv, CInv, NEW t \in Threads, LinkNeighbour(t)
  PROVE  DInv' /\ CInv'
<1>1. PICK c : c = th[t]
  OBVIOUS
<1>2. /\ HasFields(c) /\ c.upd = FALSE /\ CallOK(c) /\ NewOK(c) /\ c.pc = "link" /\ Inserting(c)
      /\ (Small => AnchorOK(t, c))
  BY <1>1 DEF EInv, Shape, GInv, DInv, CInv, LinkNeighbour, Inserting, Connecting
<1>3. PICK n, b, rest, r : Linking(t, n, b, rest, r)
  BY NeighbourLinked
<1>4. /\ n \in DOMAIN c.sel /\ n \in Finished /\ n \in Used /\ n \in Nodes /\ n # c.cur
      /\ b \in LinkBack(c, n) /\ Writes(n, c.lev, b) /\ rest = c.sel (-) SetToBag({n})
      /\ r = IF rest = EmptyBag THEN LevelDone(c, c.obj) ELSE [c EXCEPT !.sel = rest]
      /\ Moves(t, r) /\ UNCHANGED <<level, marked, maxlevel, global>>
  BY <1>1, <1>3 DEF Linking, BagToSet, Finished, Used
<1>5. /\ c.lev \in Levels /\ c.cur \in Nodes /\ c.cur \in Used /\ c.obj \in Nodes
      /\ level[c.obj] >= c.lev /\ FiniteBag(c.sel)
      /\ DOMAIN c.sel \subseteq Finished /\ Finished \subseteq Nodes
  BY <1>2, CurFacts DEF CallOK, PlaceOK, SelOK, RoleOK, Updating, Finished, Used, BagToSet
<1>6. /\ \A m \in DOMAIN b : b[m] = 1
      /\ DOMAIN b \subseteq DOMAIN links[n][c.lev] \cup {c.cur}
      /\ Small /\ c.lev = 0 => DOMAIN b = DOMAIN links[n][0] \cup {c.cur}
  BY <1>2, <1>4, <1>5, LinkBackGrows DEF NewOK
<1>7. /\ FiniteBag(rest) /\ DOMAIN rest \subseteq DOMAIN c.sel \ {n}
      /\ DOMAIN c.sel \subseteq DOMAIN rest \cup {n} /\ \A m \in DOMAIN rest : rest[m] = 1
  <2>1. \A m \in DOMAIN c.sel : c.sel[m] = 1
    BY <1>2 DEF NewOK
  <2>2. /\ FiniteBag(rest) /\ DOMAIN rest \subseteq DOMAIN c.sel /\ n \notin DOMAIN rest
        /\ DOMAIN c.sel \subseteq DOMAIN rest \cup {n} /\ \A m \in DOMAIN rest : rest[m] <= c.sel[m]
    BY <1>4, <1>5, <2>1, BagRemove
  <2> QED BY <2>1, <2>2, BagSizeNat, SMT
<1>8. /\ r.upd = FALSE /\ r.cur = c.cur /\ r.ep = c.ep /\ r.epDeleted = c.epDeleted /\ r.obj = c.obj
      /\ \/ rest = EmptyBag /\ r.pc = IF c.lev = 0 THEN "finish" ELSE "start"
         \/ rest # EmptyBag /\ r.pc = "link" /\ r.lev = c.lev /\ r.sel = rest
  BY <1>2, <1>4 DEF HasFields, LevelDone
<1>9. \A m \in Nodes, k \in Levels : links'[m][k] = IF m = n /\ k = c.lev THEN b ELSE links[m][k]
  BY <1>4, SMT DEF GInv, Lists, Writes
<1>10. NewOK(r)'
  <2>1. \A l \in Ahead(r) : l \in Levels /\ l < c.lev
    <3>1. CASE rest = EmptyBag
      BY <1>2, <1>4, <1>5, <3>1, NextLevelCall
    <3>2. CASE rest # EmptyBag
      BY <1>8, <3>2 DEF Ahead
    <3> QED BY <3>1, <3>2
  <2>2. \A l \in Ahead(r) : l \in Ahead(c) /\ l \in Levels /\ l # c.lev
    BY <1>2, <1>5, <2>1, LevelFacts, SMT DEF Ahead
  <2>3. \A l \in Ahead(r), m \in Nodes : r.cur \notin DOMAIN links'[m][l]
    BY <1>2, <1>8, <1>9, <2>2 DEF NewOK
  <2>4. \A m \in DOMAIN rest : c.cur \notin DOMAIN links'[m][c.lev]
    BY <1>2, <1>5, <1>7, <1>9, SMT DEF NewOK
  <2>5. Ahead(r)' = Ahead(r)
    BY DEF Ahead
  <2>6. r.pc = "link" => \A m \in DOMAIN r.sel : r.sel[m] = 1 /\ r.cur \notin DOMAIN links'[m][r.lev]
    BY <1>7, <1>8, <2>4
  <2>7. r.pc # "search" /\ (r.epDeleted => r.ep \in marked')
    BY <1>2, <1>4, <1>8, SMT DEF NewOK
  <2> QED BY <2>3, <2>5, <2>6, <2>7 DEF NewOK
<1>11. Small => AnchorOK(t, r)'
  <2> SUFFICES ASSUME Small PROVE AnchorOK(t, r)'
    OBVIOUS
  <2>1. Finished' = Finished
    BY <1>1, <1>2, <1>4, <1>8, FinishedSame
  <2>2. CASE c.lev # 0
    BY <1>8, <2>2 DEF AnchorOK
  <2>3. CASE c.lev = 0
    <3>1. /\ c.obj \in Finished /\ c.obj \in Nodes /\ c.obj \in DOMAIN links'[c.cur][0]
          /\ c.obj \in DOMAIN c.sel \/ c.cur \in DOMAIN links[c.obj][0]
      BY <1>2, <1>4, <1>5, <1>9, <2>3 DEF AnchorOK
    <3>2. c.obj \in DOMAIN rest \/ c.cur \in DOMAIN links'[c.obj][0]
      BY <1>5, <1>6, <1>7, <1>9, <2>3, <3>1
    <3>3. rest = EmptyBag => DOMAIN rest = {}
      BY DEF EmptyBag, SetToBag
    <3> QED BY <1>8, <2>1, <2>3, <3>1, <3>2, <3>3 DEF AnchorOK, Anchored
  <2> QED BY <2>2, <2>3
<1>12. Small /\ c.lev = 0 => DOMAIN links[n][0] \subseteq DOMAIN b
  BY <1>6
<1>13. Inserting(th[t]) /\ r.cur = th[t].cur /\ UNCHANGED <<level, marked, maxlevel, global>>
  BY <1>1, <1>2, <1>4, <1>8
<1>14. DOMAIN b \subseteq DOMAIN links[n][c.lev] \cup Finished \cup {th[t].cur}
  BY <1>1, <1>6
<1> QED BY <1>4, <1>5, <1>6, <1>8, <1>10, <1>11, <1>12, <1>13, <1>14, ListStepC

-----------------------------------------------------------------------------

\* Every step keeps lists free of duplicates and the ground level connected.
LEMMA NextC ==
  ASSUME Updatable = {}, QuietMarks \/ Markable = {},
         EInv, GInv, LiveCandidate, DInv, CInv, [Next]_vars
  PROVE  DInv' /\ CInv'
<1>1. CASE UNCHANGED vars
  <2>1. UNCHANGED <<level, links, marked, enterpoint, maxlevel, link_list_locks, global, th>>
    BY <1>1 DEF vars
  <2>2. Used' = Used /\ Finished' = Finished
    BY <2>1 DEF Used, Finished
  <2>3. DInv'
    BY <2>1 DEF DInv, NoDuplicateLinks, Neighbours, NewOK, Inserting, Ahead
  <2>4. CInv'
    BY <2>1, <2>2 DEF CInv, Small, Mcurmax, Connected, Neighbours, AnchorOK, Anchored, First
  <2> QED BY <2>3, <2>4
<1>2. ASSUME NEW t \in Threads, Proceed(t)
      PROVE  DInv' /\ CInv'
  <2>1. th[t].upd = FALSE /\ th[t].pc \notin {"oneHop", "twoHop", "rewire", "repair"}
    BY DEF DInv, GInv, CallOK, RoleOK, Updating
  <2>2. ~UpdateEnterpoint(t) /\ ~ConnectUpdate(t) /\ ~OneHop(t) /\ ~TwoHop(t) /\ ~Rewire(t)
        /\ ~BeginRepair(t)
    BY <2>1 DEF UpdateEnterpoint, ConnectUpdate, OneHop, TwoHop, Rewire, BeginRepair
  <2> QED BY <1>2, <2>2, EnterGlobalC, ReadEnterpointC, CopyEnterpointC, DescendC,
             ReadEpDeletedC, StartSearchC, ExpandC, ConnectInsertC, LinkNeighbourC, FinishC, RaiseC DEF Proceed
<1>3. ASSUME NEW t \in Threads, NEW n \in Nodes PROVE ~BeginUpdate(t, n)
  BY DEF BeginUpdate
<1>4. ASSUME NEW n \in Nodes, FlipMark(n)
      PROVE  DInv' /\ CInv'
  BY <1>4, FlipMarkC DEF FlipMark
<1> QED BY <1>1, <1>2, <1>3, <1>4, BeginInsertC DEF Next

-----------------------------------------------------------------------------

\* Insertions running at the same time give no list a duplicate, and while the
\* ground-level lists cannot overflow they lose no element: provided that points are
\* not updated, that they are marked only between other calls, and that no insertion
\* is left without a candidate.
THEOREM InsertionsLoseNothing ==
  ASSUME Updatable = {}, QuietMarks \/ Markable = {}
  PROVE  Spec /\ []LiveCandidate => [](NoDuplicateLinks /\ NoElementLost)
<1>1. Init => EInv /\ GInv /\ DInv /\ CInv
  BY InitEInv, InitG, InitC
<1>2. EInv /\ GInv /\ DInv /\ CInv /\ LiveCandidate /\ [Next]_vars =>
        EInv' /\ GInv' /\ DInv' /\ CInv'
  BY NextEInv, NextG, NextC
<1>3. DInv /\ CInv => NoDuplicateLinks /\ NoElementLost
  BY CInvMeans
<1> QED BY <1>1, <1>2, <1>3, PTL DEF Spec

\* Where nothing is ever marked either, there is nothing to provide for.
THEOREM PlainInsertionsLoseNothing ==
  ASSUME Updatable = {}, Markable = {}
  PROVE  Spec => [](NoDuplicateLinks /\ NoElementLost)
<1>1. GInv => LiveCandidate
  BY DEF GInv, CallOK, SetsOK, LiveCandidate, SearchDone
<1>2. Init => EInv /\ GInv /\ DInv /\ CInv
  BY InitEInv, InitG, InitC
<1>3. EInv /\ GInv /\ DInv /\ CInv /\ [Next]_vars => EInv' /\ GInv' /\ DInv' /\ CInv'
  BY <1>1, NextEInv, NextG, NextC
<1>4. DInv /\ CInv => NoDuplicateLinks /\ NoElementLost
  BY CInvMeans
<1> QED BY <1>2, <1>3, <1>4, PTL DEF Spec
=============================================================================

--------------------------- MODULE GraphLinkProofs --------------------------
(***************************************************************************)
(* The lists of the graph, for any number of threads, nodes and levels: the*)
(* steps that write them keep GInv, and what GInv means.  A list is a bag; *)
(* the facts about bags come first.                                        *)
(***************************************************************************)
EXTENDS GraphEntryProofs, FiniteSetTheorems

\* Steps are left to Zenon, except where SMT is named.
USE Zenon

-----------------------------------------------------------------------------
(* Bags *)

\* An element has as many copies as the bag says.
LEMMA CopiesOfOne ==
  ASSUME NEW e, NEW k \in Nat
  PROVE  IsFiniteSet({e} \X (1 .. k)) /\ Cardinality({e} \X (1 .. k)) = k
<1>1. IsFiniteSet(1 .. k) /\ Cardinality(1 .. k) = k
  <2>1. 1 \in Int /\ k \in Int
    BY SMT
  <2> QED BY <2>1, FS_Interval, SMT
<1>2. IsFiniteSet({e}) /\ Cardinality({e}) = 1
  BY FS_Singleton
<1>3. /\ IsFiniteSet({e} \X (1 .. k))
      /\ Cardinality({e} \X (1 .. k)) = Cardinality({e}) * Cardinality(1 .. k)
  BY <1>1, <1>2, FS_Product
<1> QED BY <1>1, <1>2, <1>3, SMT

\* A bag has finitely many copies.
LEMMA CopiesFinite ==
  ASSUME NEW b, NEW S, IsFiniteSet(S), \A e \in S : b[e] \in Nat
  PROVE  IsFiniteSet(Copies(b, S)) /\ Cardinality(Copies(b, S)) \in Nat
<1>1. IsFiniteSet({{e} \X (1 .. b[e]) : e \in S})
  <2> DEFINE f == [e \in S |-> {e} \X (1 .. b[e])]
             R == {{e} \X (1 .. b[e]) : e \in S}
  <2>1. f \in Surjection(S, R)
    BY DEF Surjection
  <2> QED BY <2>1, FS_Surjection
<1>2. ASSUME NEW e \in S PROVE IsFiniteSet({e} \X (1 .. b[e]))
  <2>1. PICK k \in Nat : k = b[e]
    OBVIOUS
  <2> QED BY <2>1, CopiesOfOne
<1>3. \A T \in {{e} \X (1 .. b[e]) : e \in S} : IsFiniteSet(T)
  BY <1>2
<1> QED BY <1>1, <1>3, FS_UNION, FS_CardinalityType DEF Copies

\* The size of a bag is a number, no less than the number of copies of an element.
LEMMA BagSizeNat ==
  ASSUME NEW b, FiniteBag(b)
  PROVE  /\ BagCardinality(b) \in Nat
         /\ b = EmptyBag => BagCardinality(b) = 0
         /\ b # EmptyBag => BagCardinality(b) >= 1 /\ DOMAIN b # {}
         /\ \A e \in DOMAIN b : b[e] \in Nat /\ b[e] >= 1 /\ b[e] <= BagCardinality(b)
<1>1. \A e \in DOMAIN b : b[e] \in Nat /\ b[e] >= 1
  BY SMT DEF FiniteBag, IsABag
<1>2. IsFiniteSet(Copies(b, DOMAIN b)) /\ Cardinality(Copies(b, DOMAIN b)) \in Nat
  BY <1>1, CopiesFinite DEF FiniteBag
<1>3. ASSUME NEW e \in DOMAIN b
      PROVE  b[e] <= BagCardinality(b)
  <2>1. PICK k \in Nat : k = b[e]
    BY <1>1
  <2>2. {e} \X (1 .. k) \in SUBSET Copies(b, DOMAIN b)
    BY <2>1 DEF Copies
  <2>3. Cardinality({e} \X (1 .. k)) <= Cardinality(Copies(b, DOMAIN b))
    BY <1>2, <2>2, FS_Subset
  <2> QED BY <2>1, <2>3, CopiesOfOne DEF BagCardinality
<1>4. b = EmptyBag <=> DOMAIN b = {}
  BY DEF FiniteBag, IsABag, EmptyBag, SetToBag
<1>5. b = EmptyBag => Copies(b, DOMAIN b) = {}
  BY <1>4 DEF Copies
<1>6. b = EmptyBag => BagCardinality(b) = 0
  BY <1>5, FS_EmptySet DEF BagCardinality
<1>7. BagCardinality(b) \in Nat
  BY <1>2 DEF BagCardinality
<1>8. b # EmptyBag => BagCardinality(b) >= 1 /\ DOMAIN b # {}
  BY <1>1, <1>3, <1>4, <1>7, SMT
<1> QED BY <1>1, <1>3, <1>6, <1>7, <1>8

\* One more copy of x.
LEMMA BagAdd ==
  ASSUME NEW b, FiniteBag(b), NEW x
  PROVE  LET c == b (+) SetToBag({x})
         IN  /\ FiniteBag(c) /\ DOMAIN c = DOMAIN b \cup {x}
             /\ BagCardinality(c) = BagCardinality(b) + 1
             /\ \A e \in DOMAIN b : e # x => c[e] = b[e]
             /\ x \notin DOMAIN b => c[x] = 1
<1> DEFINE c == b (+) SetToBag({x})
           k == IF x \in DOMAIN b THEN b[x] ELSE 0
<1>1. k \in Nat /\ \A e \in DOMAIN b : b[e] \in Nat /\ b[e] > 0
  BY DEF FiniteBag, IsABag
<1>2. /\ DOMAIN c = DOMAIN b \cup {x} /\ c[x] = k + 1
      /\ \A e \in DOMAIN b : e # x => c[e] = b[e]
      /\ c = [e \in DOMAIN c |-> c[e]]
  <2>1. c = [e \in DOMAIN b \cup {x} |-> (IF e \in DOMAIN b THEN b[e] ELSE 0)
                                          + (IF e \in {x} THEN 1 ELSE 0)]
    BY DEF SetToBag, (+)
  <2> HIDE DEF c
  <2> QED BY <1>1, <2>1, SMT
<1> HIDE DEF c
<1>3. IsABag(c)
  BY <1>1, <1>2, SMT DEF IsABag
<1>4. IsFiniteSet(DOMAIN c)
  BY <1>2, FS_AddElement, SMT DEF FiniteBag
<1>5. Copies(c, DOMAIN c) = Copies(b, DOMAIN b) \cup {<<x, k + 1>>}
  <2>1. Copies(c, DOMAIN c) \subseteq Copies(b, DOMAIN b) \cup {<<x, k + 1>>}
    BY <1>1, <1>2, SMT DEF Copies
  <2>2. Copies(b, DOMAIN b) \subseteq Copies(c, DOMAIN c)
    BY <1>1, <1>2, SMT DEF Copies
  <2>3. <<x, k + 1>> \in Copies(c, DOMAIN c)
    BY <1>1, <1>2, SMT DEF Copies
  <2> QED BY <2>1, <2>2, <2>3
<1>6. <<x, k + 1>> \notin Copies(b, DOMAIN b)
  BY <1>1, SMT DEF Copies
<1>7. IsFiniteSet(Copies(b, DOMAIN b)) /\ Cardinality(Copies(b, DOMAIN b)) \in Nat
  BY <1>1, CopiesFinite DEF FiniteBag
<1>8. Cardinality(Copies(b, DOMAIN b) \cup {<<x, k + 1>>}) = Cardinality(Copies(b, DOMAIN b)) + 1
  BY <1>6, <1>7, FS_AddElement
<1>9. BagCardinality(c) = BagCardinality(b) + 1
  BY <1>5, <1>8 DEF BagCardinality
<1>10. x \notin DOMAIN b => c[x] = 1
  BY <1>2, SMT
<1>11. FiniteBag(c)
  BY <1>3, <1>4 DEF FiniteBag
<1> QED BY <1>2, <1>9, <1>10, <1>11 DEF c

\* A bag without repetitions is as large as the set of its elements.
LEMMA BagOfOnes ==
  ASSUME NEW b, FiniteBag(b), \A e \in DOMAIN b : b[e] = 1
  PROVE  BagCardinality(b) = Cardinality(DOMAIN b)
<1> DEFINE C == Copies(b, DOMAIN b)
           f == [e \in DOMAIN b |-> <<e, 1>>]
<1>1. f \in Bijection(DOMAIN b, C)
  <2>1. f \in [DOMAIN b -> C] /\ \A y \in C : \E e \in DOMAIN b : y = <<e, 1>>
    BY SMT DEF Copies
  <2> QED BY <2>1 DEF Bijection, Injection, Surjection, IsInjective
<1>2. Cardinality(C) = Cardinality(DOMAIN b)
  BY <1>1, FS_Bijection DEF FiniteBag, ExistsBijection
<1> QED BY <1>2 DEF BagCardinality

\* Each element of a set once.
LEMMA BagOfSet ==
  ASSUME NEW S, IsFiniteSet(S)
  PROVE  LET b == SetToBag(S)
         IN  /\ FiniteBag(b) /\ DOMAIN b = S /\ \A e \in S : b[e] = 1
             /\ BagCardinality(b) = Cardinality(S)
<1> DEFINE b == SetToBag(S)
<1>1. FiniteBag(b) /\ DOMAIN b = S /\ \A e \in S : b[e] = 1
  BY SMT DEF FiniteBag, IsABag, SetToBag
<1> HIDE DEF b
<1>2. BagCardinality(b) = Cardinality(S)
  BY <1>1, BagOfOnes
<1> QED BY <1>1, <1>2 DEF b

\* One copy of x less.
LEMMA BagRemove ==
  ASSUME NEW b, FiniteBag(b), NEW x
  PROVE  LET c == b (-) SetToBag({x})
         IN  /\ FiniteBag(c) /\ DOMAIN c \subseteq DOMAIN b /\ DOMAIN b \subseteq DOMAIN c \cup {x}
             /\ \A e \in DOMAIN c : c[e] <= b[e]
             /\ x \in DOMAIN b /\ b[x] = 1 => x \notin DOMAIN c
<1> DEFINE c == b (-) SetToBag({x})
<1>1. \A e \in DOMAIN b : b[e] \in Nat /\ b[e] > 0
  BY DEF FiniteBag, IsABag
<1>2. c = [e \in {d \in DOMAIN b : (IF d = x THEN b[d] - 1 ELSE b[d]) > 0} |->
             IF e = x THEN b[e] - 1 ELSE b[e]]
  BY DEF (-), SetToBag
<1> HIDE DEF c
<1>3. /\ DOMAIN c \subseteq DOMAIN b /\ DOMAIN b \subseteq DOMAIN c \cup {x}
      /\ \A e \in DOMAIN c : c[e] <= b[e]
      /\ x \in DOMAIN b /\ b[x] = 1 => x \notin DOMAIN c
  BY <1>1, <1>2, SMT
<1>4. IsABag(c)
  BY <1>1, <1>2, SMT DEF IsABag
<1>5. IsFiniteSet(DOMAIN c)
  BY <1>3, FS_Subset DEF FiniteBag
<1> QED BY <1>3, <1>4, <1>5 DEF FiniteBag, c

\* A sub-bag has no other elements, and no more copies of them.
LEMMA SubBagSound ==
  ASSUME NEW b, FiniteBag(b), NEW s \in SubBag(b)
  PROVE  FiniteBag(s) /\ DOMAIN s \subseteq DOMAIN b /\ \A e \in DOMAIN s : s[e] <= b[e]
<1>1. PICK D \in SUBSET DOMAIN b :
        s \in [D -> UNION {1 .. b[e] : e \in D}] /\ \A e \in DOMAIN s : s[e] <= b[e]
  BY DEF SubBag
<1>2. \A e \in DOMAIN b : b[e] \in Nat
  BY DEF FiniteBag, IsABag
<1>3. s \in [D -> {n \in Nat : n > 0}] /\ DOMAIN s = D
  BY <1>1, <1>2, SMT
<1>4. IsABag(s)
  BY <1>3 DEF IsABag
<1>5. IsFiniteSet(DOMAIN s)
  BY <1>3, FS_Subset DEF FiniteBag
<1> QED BY <1>1, <1>3, <1>4, <1>5 DEF FiniteBag

-----------------------------------------------------------------------------
(* GInv: steps that write a list *)

\* Sets of elements are finite, and lists are bags.
LEMMA FiniteNodes ==
  ASSUME NEW S \in SUBSET Used
  PROVE  IsFiniteSet(S)
BY FS_Subset, GraphAssumption DEF Used

\* searchBaseLayer takes a candidate whose lock is free, so one inserted completely.
LEMMA ExpandG ==
  ASSUME EInv, EInv', GInv, NEW t \in Threads, Expand(t)
  PROVE  GInv'
<1>1. PICK c : c = th[t]
  OBVIOUS
<1> USE <1>1
<1>2. HasFields(c) /\ c.upd \in BOOLEAN /\ CallOK(c) /\ c.pc = "search"
  BY DEF EInv, Shape, GInv, Expand
<1> USE <1>2
<1>3. UNCHANGED <<level, links, marked, enterpoint, maxlevel, link_list_locks, global>>
  BY DEF Expand
<1>4. PICK n, new, top, near :
        /\ n \in c.cand /\ LockFree(n) /\ new \subseteq Neighbours(n, c.lev)
        /\ top \subseteq c.top \cup new /\ near \subseteq new /\ top \cap new \subseteq near
        /\ new \cap c.seen = {} /\ (c.top # {} => top # {})
        /\ th' = [th EXCEPT ![t].seen = @ \cup new, ![t].top = top,
                            ![t].cand = (@ \ {n}) \cup near]
  <2>1. PICK n \in c.cand :
          /\ LockFree(n)
          /\ LET new   == Neighbours(n, th[t].lev) \ th[t].seen
                 found == th[t].top \cup (new \ marked)
             IN  \E top \in SUBSET found, near \in SUBSET new :
                  /\ Cardinality(top) = Minimum(EfConstruction, Cardinality(found))
                  /\ top \cap new \subseteq near
                  /\ Cardinality(found) < EfConstruction => near = new
                  /\ th' = [th EXCEPT ![t].seen = @ \cup new, ![t].top = top,
                                      ![t].cand = (@ \ {n}) \cup near]
    BY DEF Expand
  <2>2. PICK new : new = Neighbours(n, th[t].lev) \ th[t].seen
    OBVIOUS
  <2>9. PICK found : found = th[t].top \cup (new \ marked)
    OBVIOUS
  <2>3. PICK top \in SUBSET found, near \in SUBSET new :
                  /\ Cardinality(top) = Minimum(EfConstruction, Cardinality(found))
                  /\ top \cap new \subseteq near
                  /\ th' = [th EXCEPT ![t].seen = @ \cup new, ![t].top = top,
                                      ![t].cand = (@ \ {n}) \cup near]
    BY <2>1, <2>2, <2>9
  <2>4. top \subseteq c.top \cup new /\ new \subseteq Neighbours(n, c.lev) /\ new \cap c.seen = {}
    BY <2>2, <2>3, <2>9
  <2>5. c.top # {} => top # {}
    <3> SUFFICES ASSUME c.top # {} PROVE top # {}
      OBVIOUS
    <3>1. c.lev \in Levels /\ c.top \subseteq Used /\ c.cand \subseteq Used
      BY DEF CallOK, PlaceOK, SetsOK
    <3>2. found \subseteq Used /\ found # {}
      BY <2>2, <2>9, <3>1, NeighbourFacts DEF Used
    <3>3. Cardinality(found) \in Nat /\ Cardinality(found) # 0
      BY <3>2, FiniteNodes, FS_EmptySet, FS_CardinalityType
    <3>4. Cardinality(top) # 0
      BY <2>3, <3>3, GraphAssumption, SMT DEF Minimum
    <3> QED BY <3>4, FS_EmptySet
  <2> QED BY <2>1, <2>3, <2>4, <2>5
<1> USE <1>4
<1>5. PICK r : r = [c EXCEPT !.seen = c.seen \cup new, !.top = top, !.cand = (c.cand \ {n}) \cup near]
  OBVIOUS
<1>6. Moves(t, r)
  BY <1>5 DEF EInv, Shape, Moves
<1>7. /\ r.pc = "search" /\ r.upd = c.upd /\ r.cur = c.cur /\ r.max = c.max /\ r.ep = c.ep
      /\ r.epDeleted = c.epDeleted /\ r.obj = c.obj /\ r.lev = c.lev
      /\ r.seen = c.seen \cup new /\ r.cand = (c.cand \ {n}) \cup near /\ r.top = top
  BY <1>5 DEF HasFields
<1> USE <1>7
<1>8. /\ c.lev \in Levels /\ n \in Used /\ n \in Nodes /\ level[n] >= c.lev
      /\ c.seen \cup c.cand \cup c.top \subseteq Used
      /\ \A m \in c.seen \cup c.cand \cup c.top : level[m] >= c.lev
  BY DEF CallOK, PlaceOK, SetsOK, Used
<1> USE <1>8
<1>9. \A m \in new : m \in Used /\ level[m] >= c.lev
  BY NeighbourFacts
<1>10. n \in Finished
  BY LockFreeFinished DEF Used
<1>11. top \ ((c.cand \ {n}) \cup near) \subseteq Finished
  BY <1>10 DEF CallOK, SetsOK
<1>12. SetsOK(r)
  BY <1>9, <1>11 DEF CallOK, SetsOK
<1>13. PlaceOK(r) /\ SelOK(r)
  BY DEF CallOK, PlaceOK, SelOK
<1>14. Blank(r)
  BY DEF CallOK, Blank, Inserting, Ahead
<1>15. Follows(c, r)
  BY DEF Follows, Connecting
<1> QED BY <1>3, <1>6, <1>12, <1>13, <1>14, <1>15, LocalCall

\* The candidates of a search that found something.
LEMMA CandidateBags ==
  ASSUME NEW top, IsFiniteSet(top), NEW e \in BOOLEAN, NEW ep,
         NEW b \in Candidates(top, e, ep), top # {} \/ e
  PROVE  /\ FiniteBag(b) /\ b # EmptyBag
         /\ \A n \in DOMAIN b : n \in top \/ (e /\ n = ep)
<1>1. PICK s : s = SetToBag(top) /\ FiniteBag(s) /\ DOMAIN s = top
               /\ BagCardinality(s) = Cardinality(top)
  BY BagOfSet
<1> USE <1>1
<1>2. CASE ~e
  BY <1>2 DEF Candidates, EmptyBag, SetToBag
<1>3. CASE e
  <2>1. PICK a : a = s (+) SetToBag({ep})
    OBVIOUS
  <2>2. /\ FiniteBag(a) /\ DOMAIN a = top \cup {ep}
        /\ BagCardinality(a) = BagCardinality(s) + 1
    BY <2>1, BagAdd
  <2>3. b \in WithEntryPoint(top, ep)
    BY <1>3 DEF Candidates
  <2>4. CASE BagCardinality(a) <= EfConstruction
    <3>1. b = a
      BY <2>1, <2>3, <2>4 DEF WithEntryPoint
    <3> QED BY <1>3, <2>2, <3>1, BagSizeNat, SMT
  <2>5. CASE ~(BagCardinality(a) <= EfConstruction)
    <3>1. PICK n : b = a (-) SetToBag({n})
      BY <2>1, <2>3, <2>5 DEF WithEntryPoint
    <3>2. FiniteBag(b) /\ DOMAIN b \subseteq DOMAIN a /\ DOMAIN a \subseteq DOMAIN b \cup {n}
      BY <2>2, <3>1, BagRemove
    <3>3. ~(top \subseteq {n})
      <4>1. Cardinality(top) \in Nat /\ Cardinality(top) >= 2
        BY <2>2, <2>5, FS_CardinalityType, GraphAssumption, SMT
      <4>2. IsFiniteSet({n}) /\ Cardinality({n}) = 1
        BY FS_Singleton
      <4> QED BY <4>1, <4>2, FS_Subset, SMT
    <3>4. DOMAIN b # {}
      BY <2>2, <3>2, <3>3
    <3> QED BY <1>3, <2>2, <3>2, <3>4, BagSizeNat, SMT
  <2> QED BY <2>4, <2>5
<1> QED BY <1>2, <1>3

\* What getNeighborsByHeuristic2 keeps.
LEMMA HeuristicBags ==
  ASSUME NEW b, FiniteBag(b), NEW m \in Nat, NEW s \in Heuristic(b, m)
  PROVE  /\ FiniteBag(s) /\ DOMAIN s \subseteq DOMAIN b /\ BagCardinality(s) <= m
         /\ b # EmptyBag => s # EmptyBag
         /\ \A n \in DOMAIN s : s[n] <= b[n]
<1>1. CASE BagCardinality(b) < m
  BY <1>1, BagSizeNat, SMT DEF Heuristic
<1>2. CASE ~(BagCardinality(b) < m)
  <2>1. s \in SubBag(b) /\ BagCardinality(s) \in 1 .. m
    BY <1>2 DEF Heuristic
  <2>2. FiniteBag(s) /\ DOMAIN s \subseteq DOMAIN b /\ \A n \in DOMAIN s : s[n] <= b[n]
    BY <2>1, SubBagSound
  <2> QED BY <2>1, <2>2, BagSizeNat, SMT
<1> QED BY <1>1, <1>2

\* A call writes the list of its own node.
LEMMA OwnListG ==
  ASSUME EInv, EInv', GInv, NEW t \in Threads, th[t].pc = "search",
         NEW s, FiniteBag(s), s # EmptyBag, BagCardinality(s) <= M,
         \A n \in BagToSet(s) : n \in Finished /\ n # th[t].cur /\ level[n] >= th[t].lev,
         WriteOwnList(t, s), UNCHANGED <<level, marked, enterpoint, maxlevel>>
  PROVE  GInv'
<1>1. PICK c : c = th[t]
  OBVIOUS
<1>2. /\ HasFields(c) /\ c.upd \in BOOLEAN /\ CallOK(c) /\ c.pc = "search"
      /\ c.cur \in Nodes /\ level[c.cur] \in Levels /\ Finished \subseteq Nodes
  BY <1>1, CurFacts DEF EInv, Shape, GInv, Finished, Used
<1>3. c.lev \in Levels /\ c.lev <= level[c.cur] /\ c.lev <= c.max /\ level[c.cur] >= c.lev
  BY <1>2, LevelFacts DEF CallOK, PlaceOK
<1>4. PICK next, r : Writing(t, s, next, r)
  BY <1>2, OwnListWritten
<1>5. /\ next \in BagToSet(s) /\ Moves(t, r) /\ Writes(c.cur, c.lev, s)
      /\ r = [c EXCEPT !.pc = "link", !.sel = s, !.obj = next,
                       !.seen = {}, !.cand = {}, !.top = {}]
      /\ UNCHANGED <<link_list_locks, global>>
  BY <1>1, <1>4 DEF Writing
<1>6. /\ r.pc = "link" /\ r.upd = c.upd /\ r.cur = c.cur /\ r.max = c.max /\ r.ep = c.ep
      /\ r.epDeleted = c.epDeleted /\ r.obj = next /\ r.lev = c.lev /\ r.sel = s
      /\ r.seen = {} /\ r.cand = {} /\ r.top = {}
  BY <1>2, <1>5 DEF HasFields
<1>7. ListOK(c.cur, c.lev, s)
  <2>1. BagCardinality(s) <= Mcurmax(c.lev)
    BY <1>3, BagSizeNat, LevelFacts, GraphAssumption, SMT
  <2>2. \A n \in BagToSet(s) : n \in Nodes /\ n # c.cur /\ level[n] >= c.lev
    BY <1>1, <1>2
  <2> QED BY <1>3, <2>1, <2>2 DEF ListOK
<1>8. /\ Lists' /\ \A m \in Nodes : m # c.cur => links'[m] = links[m]
      /\ \A k \in Levels : k # c.lev => links'[c.cur][k] = links[c.cur][k]
  BY <1>2, <1>3, <1>5, <1>7, ListWrite, SMT DEF GInv
<1>9. Blank(r)'
  <2>1. \A l \in Ahead(r) : l \in Ahead(c) /\ l \in Levels /\ l # c.lev
    BY <1>2, <1>3, <1>6, LevelFacts, SMT DEF Ahead
  <2>2. Inserting(r) => \A l \in Ahead(r) : links'[r.cur][l] = EmptyBag
    BY <1>2, <1>6, <1>8, <2>1 DEF CallOK, Blank, Inserting, Connecting
  <2> QED BY <2>2 DEF Blank, Inserting, Ahead
<1>10. Follows(c, r)
  BY <1>2, <1>6 DEF Follows, Connecting
<1>11. PlaceOK(r) /\ SetsOK(r) /\ SelOK(r)
  <2>1. next \in Nodes /\ level[next] >= c.lev
    BY <1>1, <1>2, <1>5
  <2>2. PlaceOK(r)
    BY <1>3, <1>6, <2>1 DEF PlaceOK
  <2>3. SetsOK(r)
    BY <1>2, <1>6 DEF CallOK, SetsOK
  <2>4. SelOK(r)
    BY <1>1, <1>6 DEF SelOK
  <2> QED BY <2>2, <2>3, <2>4
<1>12. ASSUME NEW u \in Threads, u # t, Inserting(th[u])
       PROVE  links'[th[u].cur] = links[th[u].cur]
  <2>1. th[u].cur \in Nodes
    BY <1>12 DEF EInv, Levelled, Inserting
  <2>2. th[u].cur # c.cur
    <3>1. CASE c.upd = TRUE
      BY <1>2, <1>12, <3>1, InsertedNotFinished DEF CallOK, RoleOK, Inserting
    <3>2. CASE c.upd = FALSE
      BY <1>1, <1>2, <1>12, <3>2, SMT DEF GInv, Locks, Inserting, Connecting
    <3> QED BY <1>2, <3>1, <3>2
  <2> QED BY <1>8, <2>1, <2>2
<1> QED BY <1>1, <1>5, <1>8, <1>9, <1>10, <1>11, <1>12, ListCall

\* What an insertion connects to is finished and reaches up to the level; it is
\* something, as long as a candidate is left.
LEMMA ConnectInsertSelects ==
  ASSUME EInv, GInv, LiveCandidate, NEW t \in Threads, ConnectInsert(t)
  PROVE  \E e, b, s : Selects(t, e, b, s)
<1>1. PICK c : c = th[t]
  OBVIOUS
<1>2. c.upd = FALSE /\ CallOK(c) /\ c.pc = "search" /\ SearchDone(t)
  BY <1>1 DEF EInv, Shape, GInv, ConnectInsert, SearchDone
<1>3. PICK e \in BOOLEAN : e <=> c.epDeleted
  OBVIOUS
<1>4. PICK b, s : b \in Candidates(c.top, e, c.ep) /\ s \in Heuristic(b, M) /\ WriteOwnList(t, s)
  BY <1>1, <1>3 DEF ConnectInsert, Candidates
<1>5. c.top \subseteq Finished /\ IsFiniteSet(c.top) /\ \A n \in c.top : level[n] >= c.lev
  BY <1>1, <1>2, SearchTop, FiniteNodes
<1>6. c.top # {} \/ e
  BY <1>1, <1>2, <1>3 DEF LiveCandidate
<1>7. FiniteBag(b) /\ b # EmptyBag /\ \A n \in DOMAIN b : n \in c.top \/ (e /\ n = c.ep)
  BY <1>4, <1>5, <1>6, CandidateBags
<1>8. /\ FiniteBag(s) /\ DOMAIN s \subseteq DOMAIN b /\ BagCardinality(s) <= M /\ s # EmptyBag
      /\ \A n \in DOMAIN s : s[n] <= b[n]
  BY <1>4, <1>7, HeuristicBags, GraphAssumption
<1>9. e => c.ep \in Finished /\ level[c.ep] >= c.lev
  <2>1. e => c.ep \in Finished
    BY <1>2, <1>3 DEF CallOK, SetsOK
  <2>2. level[c.ep] >= c.max /\ c.lev <= c.max /\ c.max \in Levels /\ c.lev \in Levels /\ c.ep \in Nodes
    BY <1>2 DEF CallOK, ReadOK, PlaceOK, Connecting
  <2>3. level[c.ep] \in Levels \cup {-1}
    BY <2>2 DEF EInv, Shape
  <2> QED BY <2>1, <2>2, <2>3, LevelFacts, SMT
<1>10. c.cur \notin Finished
  BY <1>1, <1>2, InsertedNotFinished DEF Inserting, Connecting
<1>11. \A n \in BagToSet(s) : n \in Finished /\ n # c.cur /\ level[n] >= c.lev
  BY <1>5, <1>7, <1>8, <1>9, <1>10 DEF BagToSet
<1>12. \A n \in DOMAIN s : n \in DOMAIN b /\ s[n] <= b[n]
  BY <1>8
<1> QED BY <1>1, <1>3, <1>4, <1>8, <1>11, <1>12 DEF Selects

\* mutuallyConnectNewElement writes the list of the new element,
LEMMA ConnectInsertG ==
  ASSUME EInv, EInv', GInv, LiveCandidate, NEW t \in Threads, ConnectInsert(t)
  PROVE  GInv'
<1>1. PICK e, b, s : Selects(t, e, b, s)
  BY ConnectInsertSelects
<1>2. th[t].pc = "search" /\ UNCHANGED <<level, marked, enterpoint, maxlevel>>
  BY DEF ConnectInsert, SearchDone
<1> QED BY <1>1, <1>2, OwnListG DEF Selects

\* and that of an updated one.
LEMMA ConnectUpdateG ==
  ASSUME EInv, EInv', GInv, NEW t \in Threads, ConnectUpdate(t)
  PROVE  GInv'
<1>1. PICK c, top : c = th[t] /\ top = c.top \ {c.cur}
  OBVIOUS
<1> USE <1>1
<1>2. HasFields(c) /\ c.upd = TRUE /\ CallOK(c) /\ c.pc = "search" /\ SearchDone(t)
  BY DEF EInv, Shape, GInv, ConnectUpdate, SearchDone
<1> USE <1>2
<1>3. UNCHANGED <<level, marked, enterpoint, maxlevel>>
  BY DEF ConnectUpdate
<1>4. CASE top = {}
  <2>1. PICK r : r = LevelDone(c, c.obj)
    OBVIOUS
  <2>2. th' = [th EXCEPT ![t] = r] /\ UNCHANGED <<links, link_list_locks, global>>
    BY <1>4, <2>1 DEF ConnectUpdate, NextLevel, LevelDone
  <2>3. c.obj \in Nodes /\ level[c.obj] >= c.lev
    BY DEF CallOK, PlaceOK
  <2>4. Follows(c, r) /\ PlaceOK(r) /\ SetsOK(r) /\ SelOK(r)
    BY <2>1, <2>3, NextLevelCall
  <2>5. Blank(r)
    BY <2>4 DEF Blank, Inserting, Follows
  <2>6. Moves(t, r)
    BY <2>2 DEF EInv, Shape, Moves
  <2> QED BY <1>3, <2>2, <2>4, <2>5, <2>6, LocalCall
<1>5. CASE top # {}
  <2>1. PICK e \in BOOLEAN : e <=> c.ep \in marked
    OBVIOUS
  <2>2. PICK b, s : b \in Candidates(top, e, c.ep) /\ s \in Heuristic(b, M) /\ WriteOwnList(t, s)
    BY <1>5, <2>1 DEF ConnectUpdate, Candidates
  <2>3. top \subseteq Finished /\ IsFiniteSet(top) /\ \A n \in top : level[n] >= c.lev /\ n # c.cur
    BY SearchTop, FiniteNodes
  <2>4. FiniteBag(b) /\ b # EmptyBag /\ \A n \in DOMAIN b : n \in top \/ (e /\ n = c.ep)
    BY <1>5, <2>2, <2>3, CandidateBags, SMT
  <2>5. FiniteBag(s) /\ DOMAIN s \subseteq DOMAIN b /\ BagCardinality(s) <= M /\ s # EmptyBag
    BY <2>2, <2>4, HeuristicBags, GraphAssumption
  <2>6. e => c.ep \in Finished /\ c.ep # c.cur
    BY <2>1 DEF GInv, Tops, CallOK, RoleOK, Inserting
  <2>7. level[c.ep] >= c.lev
    <3>1. level[c.ep] >= c.max /\ c.lev <= c.max /\ c.max \in Levels /\ c.lev \in Levels /\ c.ep \in Nodes
      BY DEF CallOK, ReadOK, PlaceOK, Connecting
    <3>2. level[c.ep] \in Levels \cup {-1}
      BY <3>1 DEF EInv, Shape
    <3> QED BY <3>1, <3>2, LevelFacts, SMT
  <2>8. \A n \in BagToSet(s) : n \in Finished /\ n # c.cur /\ level[n] >= c.lev
    BY <2>3, <2>4, <2>5, <2>6, <2>7 DEF BagToSet
  <2> QED BY <1>3, <2>2, <2>5, <2>8, OwnListG
<1> QED BY <1>4, <1>5

\* The new list of a neighbour is one.
LEMMA LinkBackOK ==
  ASSUME EInv, NEW c, NEW n \in Nodes, c.lev \in Levels, c.cur \in Nodes, n # c.cur,
         level[n] >= c.lev, level[c.cur] >= c.lev, ListOK(n, c.lev, links[n][c.lev]),
         NEW b \in LinkBack(c, n)
  PROVE  ListOK(n, c.lev, b)
<1>1. PICK old, new : old = links[n][c.lev] /\ new = old (+) SetToBag({c.cur})
  OBVIOUS
<1> USE <1>1
<1>2. FiniteBag(old) /\ BagCardinality(old) <= Mcurmax(c.lev) /\ BagCardinality(old) \in Nat
  BY BagSizeNat DEF ListOK
<1>3. FiniteBag(new) /\ DOMAIN new = DOMAIN old \cup {c.cur} /\ BagCardinality(new) = BagCardinality(old) + 1
  BY <1>2, BagAdd
<1>4. Mcurmax(c.lev) \in Nat
  BY LevelFacts
<1>5. b = old \/ (BagCardinality(old) < Mcurmax(c.lev) /\ b = new) \/ b \in Heuristic(new, Mcurmax(c.lev))
  BY DEF LinkBack
<1>6. FiniteBag(b) /\ BagCardinality(b) <= Mcurmax(c.lev) /\ DOMAIN b \subseteq DOMAIN new
  BY <1>2, <1>3, <1>4, <1>5, HeuristicBags, SMT
<1>7. \A m \in BagToSet(b) : m \in Nodes /\ m # n /\ level[m] >= c.lev /\ level[n] >= c.lev
  BY <1>3, <1>6 DEF ListOK, BagToSet
<1> QED BY <1>6, <1>7 DEF ListOK

\* A call that links a neighbour meets no error.
LEMMA NeighbourLinked ==
  ASSUME EInv, GInv, NEW t \in Threads, LinkNeighbour(t)
  PROVE  \E n, b, rest, r : Linking(t, n, b, rest, r)
<1>1. PICK c : c = th[t]
  OBVIOUS
<1>2. CallOK(c) /\ c.pc = "link" /\ c.lev \in Levels /\ level \in [Nodes -> Levels \cup {-1}]
  BY <1>1 DEF EInv, Shape, GInv, LinkNeighbour, CallOK, PlaceOK
<1>3. PICK n \in BagToSet(c.sel) :
        IF \/ n = c.cur
           \/ c.lev > level[n]
           \/ BagCardinality(links[n][c.lev]) > Mcurmax(c.lev)
        THEN Fail(t) /\ UNCHANGED links
        ELSE /\ \E b \in LinkBack(c, n) : links' = [links EXCEPT ![n][c.lev] = b]
             /\ LET rest == c.sel (-) SetToBag({n})
                IN  IF rest = EmptyBag THEN NextLevel(t, c.obj)
                    ELSE th' = [th EXCEPT ![t].sel = rest]
             /\ UNCHANGED <<link_list_locks, global>>
  BY <1>1 DEF LinkNeighbour
<1>4. n \in Finished /\ n \in Nodes /\ n # c.cur /\ level[n] >= c.lev
  BY <1>2, <1>3 DEF CallOK, SelOK, Finished, Used
<1>5. ~(\/ n = c.cur \/ c.lev > level[n] \/ BagCardinality(links[n][c.lev]) > Mcurmax(c.lev))
  <2>1. /\ BagCardinality(links[n][c.lev]) \in Nat
        /\ BagCardinality(links[n][c.lev]) <= Mcurmax(c.lev) /\ Mcurmax(c.lev) \in Nat
    BY <1>2, <1>4, BagSizeNat, LevelFacts DEF GInv, Lists, ListOK
  <2>2. ~(c.lev > level[n])
    BY <1>2, <1>4, LevelFacts, SMT
  <2> QED BY <1>4, <2>1, <2>2, SMT
<1>6. PICK b : b \in LinkBack(c, n) /\ Writes(n, c.lev, b)
  BY <1>3, <1>5 DEF Writes
<1>7. PICK rest : rest = c.sel (-) SetToBag({n})
  OBVIOUS
<1>8. /\ IF rest = EmptyBag THEN NextLevel(t, c.obj) ELSE th' = [th EXCEPT ![t].sel = rest]
      /\ UNCHANGED <<level, marked, enterpoint, maxlevel, link_list_locks, global>>
  BY <1>3, <1>5, <1>7 DEF LinkNeighbour
<1>9. PICK r : r = IF rest = EmptyBag THEN LevelDone(c, c.obj) ELSE [c EXCEPT !.sel = rest]
  OBVIOUS
<1>10. th' = [th EXCEPT ![t] = r]
  BY <1>1, <1>8, <1>9 DEF NextLevel, LevelDone
<1>11. Moves(t, r)
  BY <1>10 DEF EInv, Shape, Moves
<1> QED BY <1>1, <1>3, <1>4, <1>6, <1>7, <1>8, <1>9, <1>11 DEF Linking

\* mutuallyConnectNewElement gives a chosen neighbour its new list.
LEMMA LinkNeighbourG ==
  ASSUME EInv, EInv', GInv, NEW t \in Threads, LinkNeighbour(t)
  PROVE  GInv'
<1>1. PICK c : c = th[t]
  OBVIOUS
<1>2. /\ HasFields(c) /\ c.upd \in BOOLEAN /\ CallOK(c) /\ c.pc = "link"
      /\ c.cur \in Nodes /\ level[c.cur] \in Levels /\ Finished \subseteq Nodes
  BY <1>1, CurFacts DEF EInv, Shape, GInv, LinkNeighbour, Finished, Used
<1>3. /\ c.lev \in Levels /\ level[c.cur] >= c.lev /\ c.obj \in Nodes /\ level[c.obj] >= c.lev
      /\ FiniteBag(c.sel) /\ BagToSet(c.sel) \subseteq Finished \ {c.cur}
      /\ \A n \in BagToSet(c.sel) : level[n] >= c.lev
  BY <1>2, LevelFacts DEF CallOK, PlaceOK, SelOK
<1>4. PICK n, b, rest, r : Linking(t, n, b, rest, r)
  BY NeighbourLinked
<1>5. /\ n \in BagToSet(c.sel) /\ n \in Finished /\ n # c.cur
      /\ b \in LinkBack(c, n) /\ Writes(n, c.lev, b) /\ rest = c.sel (-) SetToBag({n})
      /\ r = IF rest = EmptyBag THEN LevelDone(c, c.obj) ELSE [c EXCEPT !.sel = rest]
      /\ Moves(t, r)
      /\ UNCHANGED <<level, marked, enterpoint, maxlevel, link_list_locks, global>>
  BY <1>1, <1>4 DEF Linking
<1>6. ListOK(n, c.lev, b)
  <2>1. ListOK(n, c.lev, links[n][c.lev])
    BY <1>2, <1>3, <1>5 DEF GInv, Lists
  <2> QED BY <1>2, <1>3, <1>5, <2>1, LinkBackOK
<1>7. Lists' /\ \A m \in Nodes : m # n => links'[m] = links[m]
  BY <1>2, <1>3, <1>5, <1>6, ListWrite DEF GInv
<1>8. ASSUME NEW u \in Threads, u # t, Inserting(th[u])
      PROVE  links'[th[u].cur] = links[th[u].cur]
  <2>1. th[u].cur \in Nodes
    BY <1>8 DEF EInv, Levelled, Inserting
  <2> QED BY <1>5, <1>7, <1>8, <2>1, InsertedNotFinished
<1>9. /\ Follows(c, r) /\ PlaceOK(r) /\ SetsOK(r) /\ SelOK(r)
      /\ \A l \in Ahead(r) : l \in Levels /\ l < c.lev
  <2>1. CASE rest = EmptyBag
    BY <1>2, <1>3, <1>5, <2>1, NextLevelCall
  <2>2. CASE rest # EmptyBag
    <3>1. /\ r.pc = "link" /\ r.upd = c.upd /\ r.cur = c.cur /\ r.max = c.max /\ r.ep = c.ep
          /\ r.epDeleted = c.epDeleted /\ r.obj = c.obj /\ r.lev = c.lev /\ r.sel = rest
          /\ r.seen = c.seen /\ r.cand = c.cand /\ r.top = c.top
      BY <1>2, <1>5, <2>2 DEF HasFields
    <3>2. FiniteBag(rest) /\ DOMAIN rest \subseteq DOMAIN c.sel
      BY <1>3, <1>5, BagRemove
    <3>3. SelOK(r)
      BY <1>3, <3>1, <3>2 DEF SelOK, BagToSet
    <3>4. PlaceOK(r)
      BY <1>2, <3>1 DEF CallOK, PlaceOK
    <3>5. SetsOK(r)
      BY <1>2, <3>1 DEF CallOK, SetsOK
    <3>6. Follows(c, r)
      BY <1>2, <3>1 DEF Follows, Connecting
    <3> QED BY <1>2, <3>1, <3>3, <3>4, <3>5, <3>6 DEF Ahead
  <2> QED BY <2>1, <2>2
<1>10. Blank(r)'
  <2>1. Inserting(r) => Inserting(c)
    BY <1>9 DEF Follows, Inserting
  <2>2. \A l \in Ahead(r) : l \in Ahead(c)
    BY <1>2, <1>9 DEF Ahead
  <2>3. Inserting(r) => \A l \in Ahead(r) : links'[r.cur][l] = EmptyBag
    BY <1>2, <1>5, <1>7, <1>9, <2>1, <2>2 DEF CallOK, Blank, Follows
  <2> QED BY <2>3 DEF Blank, Inserting, Ahead
<1> QED BY <1>1, <1>5, <1>7, <1>8, <1>9, <1>10, ListCall

\* An update gives a neighbour a new list.
LEMMA RewireG ==
  ASSUME EInv, EInv', GInv, NEW t \in Threads, Rewire(t)
  PROVE  GInv'
<1>1. PICK c : c = th[t]
  OBVIOUS
<1> USE <1>1
<1>2. HasFields(c) /\ c.upd \in BOOLEAN /\ CallOK(c) /\ c.pc = "rewire"
  BY DEF EInv, Shape, GInv, Rewire
<1> USE <1>2
<1>3. /\ c.upd = TRUE /\ c.lev \in Levels /\ c.lev <= level[c.cur]
      /\ c.seen \subseteq Used /\ c.top \subseteq Used /\ c.cand \subseteq Used
      /\ \A n \in c.seen \cup c.cand \cup c.top : level[n] >= c.lev
  BY DEF CallOK, RoleOK, PlaceOK, SetsOK, Updating
<1> USE <1>3
<1>4. UNCHANGED <<level, marked, enterpoint, maxlevel, link_list_locks, global>>
  BY DEF Rewire
<1>5. PICK n, near, b, r :
        /\ n \in c.top /\ near \subseteq c.seen \ {n} /\ LockFree(n)
        /\ b \in Heuristic(SetToBag(near), Mcurmax(c.lev))
        /\ Writes(n, c.lev, b)
        /\ r = IF c.top = {n} THEN AfterLayer(c) ELSE [c EXCEPT !.top = @ \ {n}]
        /\ th' = [th EXCEPT ![t] = r]
  BY DEF Rewire, Writes
<1> USE <1>5
<1>6. n \in Nodes /\ level[n] >= 0 /\ n \in Finished
  BY LockFreeFinished DEF Used
<1>7. ListOK(n, c.lev, b)
  <2>1. FiniteBag(SetToBag(near)) /\ DOMAIN SetToBag(near) = near
    BY FiniteNodes, BagOfSet
  <2>2. Mcurmax(c.lev) \in Nat
    BY LevelFacts
  <2>3. FiniteBag(b) /\ DOMAIN b \subseteq near /\ BagCardinality(b) <= Mcurmax(c.lev)
    BY <2>1, <2>2, HeuristicBags
  <2> QED BY <2>3 DEF ListOK, BagToSet, Used
<1>8. Lists' /\ \A m \in Nodes : m # n => links'[m] = links[m]
  <2>1. Lists /\ UNCHANGED level
    BY <1>4 DEF GInv
  <2> QED BY <1>6, <1>7, <2>1, ListWrite
<1>9. ASSUME NEW u \in Threads, u # t, Inserting(th[u])
      PROVE  links'[th[u].cur] = links[th[u].cur]
  <2>1. th[u].cur \in Nodes
    BY <1>9 DEF EInv, Levelled, Inserting
  <2> QED BY <1>6, <1>8, <1>9, <2>1, InsertedNotFinished
<1>10. Moves(t, r)
  BY DEF EInv, Shape, Moves
<1>11. Follows(c, r) /\ PlaceOK(r) /\ SetsOK(r) /\ SelOK(r)
  <2>1. CASE c.top = {n}
    BY <2>1, AfterLayerG
  <2>2. CASE c.top # {n}
    <3>1. /\ r.pc = "rewire" /\ r.upd = c.upd /\ r.cur = c.cur /\ r.max = c.max /\ r.ep = c.ep
          /\ r.lev = c.lev /\ r.seen = c.seen /\ r.cand = c.cand /\ r.top = c.top \ {n}
      BY <2>2 DEF HasFields
    <3>2. PlaceOK(r) /\ SelOK(r)
      BY <3>1 DEF PlaceOK, SelOK
    <3>3. SetsOK(r)
      BY <3>1 DEF SetsOK
    <3>4. Follows(c, r)
      BY <3>1 DEF Follows, Connecting
    <3> QED BY <3>2, <3>3, <3>4
  <2> QED BY <2>1, <2>2
<1>12. Blank(r)'
  BY <1>11 DEF Blank, Inserting, Follows
<1> QED BY <1>4, <1>8, <1>9, <1>10, <1>11, <1>12, ListCall

\* addPoint allots a slot, takes its lock, draws its level and clears its lists.
LEMMA BeginInsertG ==
  ASSUME EInv, EInv', GInv, NEW t \in Threads, NEW n \in Nodes, NEW lv \in Levels,
         BeginInsert(t, n, lv)
  PROVE  GInv'
<1> USE LevelFacts
<1>1. PICK r : r = [Idle EXCEPT !.pc = "global", !.cur = n]
  OBVIOUS
<1>2. /\ r.pc = "global" /\ r.upd = FALSE /\ r.cur = n /\ r.max = -1
      /\ r.seen = {} /\ r.cand = {} /\ r.top = {}
  BY <1>1 DEF Idle
<1> USE <1>2
<1>3. /\ th[t].pc = "idle" /\ level[n] = -1 /\ UNCHANGED <<marked, enterpoint, maxlevel, global>>
      /\ level' = [level EXCEPT ![n] = lv] /\ link_list_locks' = [link_list_locks EXCEPT ![n] = t]
      /\ links' = [links EXCEPT ![n] = [l \in Levels |-> EmptyBag]]
      /\ th' = [th EXCEPT ![t] = r]
  BY <1>1 DEF BeginInsert
<1> USE <1>3
<1>4. Moves(t, r)
  BY DEF EInv, Shape, Moves
<1> USE <1>4
<1>5. /\ level \in [Nodes -> Levels \cup {-1}] /\ level'[n] = lv /\ lv >= 0
      /\ \A m \in Nodes : m # n => level'[m] = level[m]
      /\ maxlevel \in Levels \cup {-1}
  BY DEF EInv, Shape
<1> USE <1>5
<1>6. \A m \in Nodes : level[m] >= 0 => level'[m] = level[m]
  BY SMT
<1>7. Finished' = Finished /\ Used' = Used \cup {n}
  <2>1. Used' = Used \cup {n}
    BY DEF Used
  <2>2. Used \subseteq Nodes \ {n}
    BY SMT DEF Used
  <2>3. th[t].cur = NoNode
    BY DEF GInv, CallOK, RoleOK, Inserting, Updating, Connecting
  <2>4. ASSUME NEW m \in Used
        PROVE  (\A u \in Threads : ~th'[u].upd => th'[u].cur # m)
                 <=> (\A u \in Threads : ~th[u].upd => th[u].cur # m)
    <3>1. th'[t].cur # m /\ th[t].cur # m
      BY <2>2, <2>3, GraphAssumption, SMT DEF Moves
    <3> QED BY <3>1 DEF Moves
  <2>5. n \notin Finished'
    BY <2>1 DEF Finished, Moves
  <2>6. \A m \in Used : m \in Finished' <=> m \in Finished
    BY <2>1, <2>4 DEF Finished
  <2>7. Finished \subseteq Used /\ Finished' \subseteq Used \cup {n}
    BY <2>1 DEF Finished
  <2>8. \A m : m \in Finished' <=> m \in Finished
    BY <2>5, <2>6, <2>7
  <2> QED BY <2>1, <2>8
<1> USE <1>7
<1>8. ASSUME NEW u \in Threads, u # t, Inserting(th[u])
      PROVE  th[u].cur \in Nodes /\ th[u].cur # n
  <2>1. th[u].cur \in Nodes /\ level[th[u].cur] \in Levels
    BY <1>8 DEF EInv, Levelled, Inserting
  <2> QED BY <2>1, SMT
<1>9. /\ links' = [m \in Nodes |-> IF m = n THEN [l \in Levels |-> EmptyBag] ELSE links[m]]
      /\ links = [m \in Nodes |-> [l \in Levels |-> links[m][l]]]
  BY DEF GInv, Lists
<1> USE <1>9
<1>10. CallOK(r)'
  <2>1. RoleOK(r)' /\ ReadOK(r)'
    BY SMT DEF RoleOK, ReadOK, Inserting, Connecting
  <2>2. PlaceOK(r)' /\ SetsOK(r)' /\ SelOK(r)'
    BY DEF PlaceOK, SetsOK, SelOK
  <2>3. Blank(r)'
    BY SMT DEF Blank, Ahead
  <2> QED BY <2>1, <2>2, <2>3 DEF CallOK
<1>11. \A u \in Threads : CallOK(th[u])'
  <2>1. \A u \in Threads : u # t /\ Inserting(th[u]) => links'[th[u].cur] = links[th[u].cur]
    BY <1>8
  <2>2. maxlevel' >= maxlevel
    BY SMT
  <2> QED BY <1>6, <1>10, <2>1, <2>2, OthersKept
<1>12. Lists'
  <2>1. links' = [m \in Nodes |-> [k \in Levels |-> links'[m][k]]]
    <3>1. ASSUME NEW m \in Nodes PROVE links'[m] = [k \in Levels |-> links'[m][k]]
      <4>1. CASE m = n
        <5>1. links'[m] = [l \in Levels |-> EmptyBag]
          BY <4>1
        <5> QED BY <5>1
      <4>2. CASE m # n
        <5>1. links'[m] = links[m] /\ links[m] = [l \in Levels |-> links[m][l]]
          BY <4>2
        <5> QED BY <5>1
      <4> QED BY <4>1, <4>2
    <3> QED BY <3>1
  <2>2. FiniteBag(EmptyBag) /\ BagCardinality(EmptyBag) = 0 /\ BagToSet(EmptyBag) = {}
    <3>1. FiniteBag(EmptyBag) /\ BagToSet(EmptyBag) = {}
      BY FS_EmptySet DEF FiniteBag, EmptyBag, SetToBag, IsABag, BagToSet
    <3> QED BY <3>1, BagSizeNat
  <2>3. ASSUME NEW m \in Nodes, NEW k \in Levels
        PROVE  ListOK(m, k, links[m][k])'
    <3>1. PICK a : a = links'[m][k]
      OBVIOUS
    <3>2. CASE m = n
      <4>1. a = EmptyBag
        BY <3>1, <3>2, SMT
      <4>2. ListOK(m, k, a)'
        BY <2>2, <4>1, SMT DEF ListOK
      <4> QED BY <3>1, <4>2
    <3>3. CASE m # n
      <4>1. a = links[m][k] /\ ListOK(m, k, a)
        BY <3>1, <3>3 DEF GInv, Lists
      <4>2. \A e \in BagToSet(a) : e \in Nodes /\ e # m /\ level'[e] >= k /\ level'[m] >= k
        <5>1. \A e \in BagToSet(a) : e \in Nodes /\ e # m /\ level[e] >= k /\ level[m] >= k
          BY <4>1 DEF ListOK
        <5>2. \A e \in Nodes : level[e] >= k => level[e] >= 0
          BY SMT
        <5> QED BY <1>6, <5>1, <5>2
      <4>3. ListOK(m, k, a)'
        BY <4>1, <4>2 DEF ListOK
      <4> QED BY <3>1, <4>3
    <3> QED BY <3>2, <3>3
  <2> QED BY <2>1, <2>3 DEF Lists
<1>13. Locks'
  <2>1. ~Inserting(th[t]) /\ Inserting(r)
    BY DEF Inserting, Connecting
  <2>2. link_list_locks' \in [Nodes -> Threads \cup {NoThread}] /\ global' \in Threads \cup {NoThread}
    BY DEF GInv, Locks
  <2>3. link_list_locks'[n] = t /\ \A m \in Nodes : m # n => link_list_locks'[m] = link_list_locks[m]
    BY DEF GInv, Locks
  <2>4. \A u \in Threads : Inserting(th'[u]) => link_list_locks'[th'[u].cur] = u
    BY <1>8, <2>3, SMT DEF GInv, Locks, Moves
  <2>5. \A u \in Threads, m \in Nodes : link_list_locks'[m] = u => Inserting(th'[u]) /\ th'[u].cur = m
    BY <2>1, <2>3, SMT DEF GInv, Locks, Moves
  <2> QED BY <2>2, <2>4, <2>5 DEF Locks, Inserting
<1>14. Tops'
  <2>1. \A u \in Threads : u # t /\ Inserting(th[u]) => Inserting(th'[u]) /\ th'[u].cur = th[u].cur
    BY DEF Moves
  <2>2. Inserting(th'[t]) /\ th'[t].cur = n /\ ~Inserting(th[t])
    BY DEF Moves, Inserting, Connecting
  <2>3. \A m \in Nodes : level'[m] > maxlevel' => \E u \in Threads : Inserting(th'[u]) /\ th'[u].cur = m
    BY <2>1, <2>2, SMT DEF GInv, Tops
  <2>4. \A u \in Threads : th'[u].pc = "raise" <=> th[u].pc = "raise"
    BY DEF Moves
  <2> QED BY <2>3, <2>4 DEF GInv, Tops, Inserting
<1> QED BY <1>11, <1>12, <1>13, <1>14 DEF GInv

\* The graph of the seeds.
LEMMA InitG ==
  ASSUME Init
  PROVE  GInv
<1> USE GraphAssumption
<1> USE LevelFacts
<1>1. /\ EInv /\ level \in [Nodes -> Levels \cup {-1}] /\ Used = Seeds
      /\ th = [t \in Threads |-> Idle] /\ marked \subseteq Seeds /\ marked \subseteq Markable
      /\ link_list_locks = [n \in Nodes |-> NoThread] /\ global = NoThread
  BY InitEInv DEF Init
<1> USE <1>1
<1>2. \A t \in Threads : th[t] = Idle /\ th[t].pc = "idle" /\ th[t].cur = NoNode /\ ~Inserting(th[t])
  BY DEF Idle, Inserting, Connecting
<1> USE <1>2
<1>3. Finished = Seeds
  BY DEF Finished, Used
<1>4. \A t \in Threads : CallOK(th[t])
  BY IdleCall
<1>5. Locks
  BY DEF Locks
<1>6. Tops
  <2>1. CASE Seeds = {}
    BY <1>3, <2>1, SMT DEF Init, Tops, Used
  <2>2. CASE Seeds # {}
    <3>1. /\ enterpoint \in Seeds /\ maxlevel = level[enterpoint]
          /\ \A m \in Seeds : level[m] <= level[enterpoint]
      BY <2>2 DEF Init
    <3>2. \A m \in Nodes : ~(level[m] > maxlevel)
      BY <3>1, SMT DEF Used
    <3> QED BY <1>3, <3>1, <3>2 DEF Tops
  <2> QED BY <2>1, <2>2
<1>7. Lists
  <2>1. links = [n \in Nodes |-> [l \in Levels |->
                  SetToBag({m \in Seeds \ {n} : level[m] >= l /\ level[n] >= l})]]
    BY DEF Init
  <2>2. ASSUME NEW n \in Nodes, NEW l \in Levels
        PROVE  ListOK(n, l, links[n][l])
    <3>1. PICK S : S = {m \in Seeds \ {n} : level[m] >= l /\ level[n] >= l}
      OBVIOUS
    <3>2. IsFiniteSet(Seeds) /\ IsFiniteSet(S)
      BY <3>1, FS_Subset
    <3>3. Cardinality(S) \in Nat /\ Cardinality(S) <= M
      <4>1. CASE n \in Seeds
        <5>1. IsFiniteSet(Seeds \ {n}) /\ Cardinality(Seeds \ {n}) = Cardinality(Seeds) - 1
          BY <3>2, <4>1, FS_RemoveElement
        <5>2. Cardinality(S) <= Cardinality(Seeds \ {n}) /\ Cardinality(S) \in Nat
          BY <3>1, <3>2, <5>1, FS_Subset, FS_CardinalityType
        <5> QED BY <3>2, <5>1, <5>2, FS_CardinalityType, SMT
      <4>2. CASE n \notin Seeds
        <5>1. S = {}
          BY <3>1, <4>2, SMT DEF Used
        <5> QED BY <5>1, FS_EmptySet, SMT
      <4> QED BY <4>1, <4>2
    <3>4. PICK b : b = SetToBag(S) /\ FiniteBag(b) /\ DOMAIN b = S /\ BagCardinality(b) = Cardinality(S)
      BY <3>2, BagOfSet
    <3>5. BagCardinality(b) <= Mcurmax(l)
      BY <3>3, <3>4, SMT
    <3>6. ListOK(n, l, b)
      BY <3>1, <3>4, <3>5 DEF ListOK, BagToSet
    <3> QED BY <2>1, <3>1, <3>4, <3>6
  <2>3. links = [n \in Nodes |-> [l \in Levels |-> links[n][l]]]
    BY <2>1
  <2> QED BY <2>2, <2>3 DEF Lists
<1> QED BY <1>4, <1>5, <1>6, <1>7 DEF GInv

\* Every step keeps the invariant, provided that no insertion is left without a
\* candidate.
LEMMA NextG ==
  ASSUME EInv, GInv, LiveCandidate, [Next]_vars
  PROVE  GInv'
<1>1. EInv'
  BY NextEInv
<1>2. CASE UNCHANGED vars
  <2>1. UNCHANGED <<level, links, marked, enterpoint, maxlevel, link_list_locks, global, th>>
    BY <1>2 DEF vars
  <2>2. Used' = Used /\ Finished' = Finished
    BY <2>1 DEF Used, Finished
  <2>3. Lists' /\ Locks' /\ Tops'
    <3>1. Lists'
      BY <2>1 DEF GInv, Lists, ListOK
    <3>2. Locks'
      BY <2>1 DEF GInv, Locks, Inserting
    <3>3. Tops'
      BY <2>1, <2>2 DEF GInv, Tops, Inserting
    <3> QED BY <3>1, <3>2, <3>3
  <2>4. ASSUME NEW u \in Threads PROVE CallOK(th[u])'
    <3>1. PICK d : d = th[u] /\ CallOK(d)
      BY DEF GInv
    <3>2. CallOK(d)'
      BY <2>1, <2>2, <3>1 DEF CallOK, RoleOK, ReadOK, PlaceOK, SetsOK, SelOK, Blank, Inserting,
         Updating, Ahead
    <3> QED BY <2>1, <3>1, <3>2
  <2> QED BY <2>3, <2>4 DEF GInv
<1>3. ASSUME NEW t \in Threads, Proceed(t)
      PROVE  GInv'
  BY <1>1, <1>3, EnterGlobalG, ReadEnterpointG, CopyEnterpointG, DescendG, ReadEpDeletedG,
     StartSearchG, ExpandG, ConnectInsertG, LinkNeighbourG, FinishG, RaiseG,
     UpdateEnterpointG, OneHopG, TwoHopG, RewireG, BeginRepairG, ConnectUpdateG DEF Proceed
<1> QED BY <1>1, <1>2, <1>3, BeginUpdateG, BeginInsertG, FlipMarkG DEF Next

-----------------------------------------------------------------------------

\* While no insertion is left without a candidate, no interleaving of insertions,
\* updates and delete marks makes a call throw, read a level an element does not
\* have, or leave a list too long, on a wrong level or with the element itself.
THEOREM GraphStaysSound ==
  Spec /\ []LiveCandidate =>
      [](TypeOK /\ NeverThrows /\ ReadsExistingLevels /\ LinksWellFormed /\ EntryPointOnTop)
<1>1. Init => EInv /\ GInv
  BY InitEInv, InitG
<1>2. EInv /\ GInv /\ LiveCandidate /\ [Next]_vars => EInv' /\ GInv'
  BY NextEInv, NextG
<1>3. EInv /\ GInv => TypeOK /\ NeverThrows /\ ReadsExistingLevels /\ LinksWellFormed /\ EntryPointOnTop
  BY GInvMeans
<1> QED BY <1>1, <1>2, <1>3, PTL DEF Spec

\* Without delete marks no search comes back empty, so none of that needs a
\* condition.
THEOREM GraphSoundUnmarked ==
  ASSUME Markable = {}
  PROVE  Spec =>
      [](TypeOK /\ NeverThrows /\ ReadsExistingLevels /\ LinksWellFormed /\ EntryPointOnTop)
<1>1. EInv /\ GInv => LiveCandidate
  BY DEF GInv, CallOK, SetsOK, LiveCandidate, SearchDone
<1>2. Init => EInv /\ GInv
  BY InitEInv, InitG
<1>3. EInv /\ GInv /\ [Next]_vars => EInv' /\ GInv'
  BY <1>1, NextEInv, NextG
<1>4. EInv /\ GInv => TypeOK /\ NeverThrows /\ ReadsExistingLevels /\ LinksWellFormed /\ EntryPointOnTop
  BY GInvMeans
<1> QED BY <1>2, <1>3, <1>4, PTL DEF Spec
=============================================================================

---------------------------- MODULE SearchProofs ----------------------------
(***************************************************************************)
(* The search and the visited lists it uses.                               *)
(*                                                                         *)
(* For any number of threads, slots and lists and any tag width, the pool  *)
(* of visited lists never shares a list and implements private visited     *)
(* sets.  Its inductive invariant adds two facts to PoolTypeOK and         *)
(* ExclusiveUse: a thread holds a list exactly while it is not idle, and   *)
(* no entry of an array is ahead of its list's tag, so that the next tag   *)
(* is fresh.                                                               *)
(*                                                                         *)
(* What searchKnn returns, for every graph, every assignment of distances  *)
(* and every ef and k: each step keeps the invariant of SearchInv, from    *)
(* which the two theorems follow.                                          *)
(***************************************************************************)
EXTENDS SearchInv, VisitedListPool, FiniteSetTheorems, TLAPS

-----------------------------------------------------------------------------
(* The pool of visited lists *)

HoldsWhileBusy == \A t \in Threads : at[t] = "idle" <=> vl[t] = NoList

NoEntryAhead == \A l \in Lists, i \in Slots : mass[l][i] <= curV[l]

PoolInv == PoolTypeOK /\ ExclusiveUse /\ HoldsWhileBusy /\ NoEntryAhead

\* The tag that follows tag v is the next number, or 0 after the largest tag.
LEMMA NextTag ==
  ASSUME NEW v \in Tags
  PROVE  (v + 1) % (MaxTag + 1) = IF v = MaxTag THEN 0 ELSE v + 1
<1>1. MaxTag \in Nat /\ v \in 0 .. MaxTag
  BY PoolAssumption DEF Tags
<1>2. CASE v = MaxTag
  <2>1. (MaxTag + 1) % (MaxTag + 1) = 0
    BY <1>1
  <2> QED BY <1>2, <2>1
<1>3. CASE v # MaxTag
  <2>1. v + 1 < MaxTag + 1
    BY <1>1, <1>3
  <2>2. (v + 1) % (MaxTag + 1) = v + 1
    BY <1>1, <2>1
  <2> QED BY <1>3, <2>2
<1> QED BY <1>2, <1>3

\* In the initial state one list is pooled and nobody holds a list.
LEMMA InitPool == PoolInit => PoolInv
<1> SUFFICES ASSUME PoolInit PROVE PoolInv
  OBVIOUS
<1> USE PoolAssumption
<1>1. PICK first \in Lists, garbage \in [Slots -> Tags] :
         /\ pool = <<first>>
         /\ free = Lists \ {first}
         /\ mass = [l \in Lists |-> garbage]
  BY DEF PoolInit
<1>2. PoolTypeOK
  BY <1>1 DEF PoolInit, PoolTypeOK, Tags
<1>3. ExclusiveUse
  BY <1>1 DEF PoolInit, ExclusiveUse, InPool
<1>4. HoldsWhileBusy /\ NoEntryAhead
  BY <1>1 DEF PoolInit, HoldsWhileBusy, NoEntryAhead, Tags
<1> QED BY <1>2, <1>3, <1>4 DEF PoolInv

\* Every step keeps the type invariant.
LEMMA NextTypeOK == PoolInv /\ [PoolNext]_poolVars => PoolTypeOK'
<1> SUFFICES ASSUME PoolInv, [PoolNext]_poolVars PROVE PoolTypeOK'
  OBVIOUS
<1> USE PoolAssumption DEF PoolInv, PoolTypeOK
<1>1. ASSUME NEW t \in Threads, GetFreeVisitedList(t) PROVE PoolTypeOK'
  <2>1. CASE pool # <<>>
    <3>1. Head(pool) \in Lists /\ Tail(pool) \in Seq(Lists)
      BY <2>1
    <3>2. /\ vl' = [vl EXCEPT ![t] = Head(pool)]
          /\ pool' = Tail(pool)
          /\ UNCHANGED <<free, curV, mass>>
      BY <1>1, <2>1 DEF GetFreeVisitedList
    <3>3. at' \in [Threads -> {"idle", "reset", "search"}]
      BY <1>1 DEF GetFreeVisitedList
    <3> QED BY <3>1, <3>2, <3>3, Zenon
  <2>2. CASE pool = <<>>
    <3>1. PICK l \in free, garbage \in [Slots -> Tags] :
            /\ vl' = [vl EXCEPT ![t] = l]
            /\ free' = free \ {l}
            /\ curV' = [curV EXCEPT ![l] = MaxTag]
            /\ mass' = [mass EXCEPT ![l] = garbage]
      BY <1>1, <2>2 DEF GetFreeVisitedList, NewVisitedList
    <3>2. MaxTag \in Tags
      BY DEF Tags
    <3>3. at' \in [Threads -> {"idle", "reset", "search"}] /\ pool' = pool
      BY <1>1, <2>2 DEF GetFreeVisitedList
    <3> QED BY <3>1, <3>2, <3>3, Zenon
  <2> QED BY <2>1, <2>2
<1>2. ASSUME NEW t \in Threads, Reset(t) PROVE PoolTypeOK'
  <2>1. vl[t] \in Lists
    BY <1>2 DEF Reset, HoldsWhileBusy
  <2>2. /\ (curV[vl[t]] + 1) % (MaxTag + 1) \in Tags
        /\ 0 \in Tags
        /\ 1 \in Tags
    <3>1. curV[vl[t]] \in Tags
      BY <2>1
    <3> QED BY <3>1, NextTag DEF Tags
  <2>3. curV' \in [Lists -> Tags]
    <3> DEFINE tag == (curV[vl[t]] + 1) % (MaxTag + 1)
    <3>1. curV' = [curV EXCEPT ![vl[t]] = tag] \/ curV' = [curV EXCEPT ![vl[t]] = 1]
      BY <1>2 DEF Reset
    <3>2. tag \in Tags
      BY <2>2
    <3> HIDE DEF tag
    <3> QED BY <2>1, <2>2, <3>1, <3>2
  <2>4. mass' \in [Lists -> [Slots -> Tags]]
    <3> DEFINE zero == [i \in Slots |-> 0]
    <3>1. mass' = mass \/ mass' = [mass EXCEPT ![vl[t]] = zero]
      BY <1>2 DEF Reset
    <3>2. zero \in [Slots -> Tags]
      BY <2>2
    <3> HIDE DEF zero
    <3> QED BY <2>1, <3>1, <3>2
  <2> QED BY <1>2, <2>3, <2>4 DEF Reset
<1>3. ASSUME NEW t \in Threads, NEW i \in Slots, MarkVisited(t, i) PROVE PoolTypeOK'
  <2>1. vl[t] \in Lists
    BY <1>3 DEF MarkVisited, HoldsWhileBusy
  <2> QED BY <1>3, <2>1 DEF MarkVisited
<1>4. ASSUME NEW t \in Threads, ReleaseVisitedList(t) PROVE PoolTypeOK'
  <2>1. vl[t] \in Lists
    BY <1>4 DEF ReleaseVisitedList, HoldsWhileBusy
  <2> QED BY <1>4, <2>1 DEF ReleaseVisitedList
<1>5. ASSUME NEW t \in Threads, Unwind(t) PROVE PoolTypeOK'
  <2>1. vl[t] \in Lists
    BY <1>5 DEF Unwind, HoldsWhileBusy
  <2> QED BY <1>5, <2>1 DEF Unwind
<1>6. CASE UNCHANGED poolVars
  BY <1>6 DEF poolVars
<1> QED BY <1>1, <1>2, <1>3, <1>4, <1>5, <1>6 DEF PoolNext

\* Every step keeps the lists apart: a list enters the deque only when its
\* holder lets go of it, and leaves it only into one thread's hands.
LEMMA NextExclusiveUse == PoolInv /\ [PoolNext]_poolVars => ExclusiveUse'
<1> SUFFICES ASSUME PoolInv, [PoolNext]_poolVars PROVE ExclusiveUse'
  OBVIOUS
<1> USE PoolAssumption DEF PoolInv
<1>0. PoolTypeOK /\ ExclusiveUse /\ HoldsWhileBusy /\ InPool \subseteq Lists
  BY DEF InPool, PoolTypeOK
<1>1. ASSUME NEW t \in Threads, GetFreeVisitedList(t) PROVE ExclusiveUse'
  <2>1. CASE pool # <<>>
    <3>1. /\ vl' = [vl EXCEPT ![t] = Head(pool)]
          /\ pool' = Tail(pool)
          /\ free' = free
      BY <1>1, <2>1 DEF GetFreeVisitedList
    <3>2. /\ Len(pool) \in Nat /\ Len(pool) >= 1
          /\ Head(pool) = pool[1]
          /\ Len(Tail(pool)) = Len(pool) - 1
          /\ \A k \in 1 .. Len(pool) - 1 : Tail(pool)[k] = pool[k + 1]
      BY <1>0, <2>1 DEF PoolTypeOK
    <3>3. \A j, k \in 1 .. Len(pool') : pool'[j] = pool'[k] => j = k
      <4> SUFFICES ASSUME NEW j \in 1 .. Len(pool'), NEW k \in 1 .. Len(pool'),
                          pool'[j] = pool'[k]
                   PROVE  j = k
        OBVIOUS
      <4>1. pool[j + 1] = pool[k + 1] /\ j + 1 \in 1 .. Len(pool) /\ k + 1 \in 1 .. Len(pool)
        BY <3>1, <3>2
      <4> QED BY <4>1, <1>0, <3>2 DEF ExclusiveUse
    <3>4. InPool' \subseteq InPool /\ pool[1] \in InPool /\ pool[1] \notin InPool'
      BY <1>0, <3>1, <3>2 DEF InPool, ExclusiveUse
    <3> HIDE DEF InPool
    <3> QED BY <1>0, <3>1, <3>2, <3>3, <3>4 DEF ExclusiveUse, PoolTypeOK
  <2>2. CASE pool = <<>>
    <3>1. PICK l \in free : vl' = [vl EXCEPT ![t] = l] /\ free' = free \ {l}
      BY <1>1, <2>2 DEF GetFreeVisitedList, NewVisitedList
    <3>2. pool' = pool /\ InPool' = InPool
      BY <1>1, <2>2 DEF GetFreeVisitedList, InPool
    <3> QED BY <1>0, <3>1, <3>2 DEF ExclusiveUse, PoolTypeOK
  <2> QED BY <2>1, <2>2
<1>2. ASSUME NEW t \in Threads, Reset(t) PROVE ExclusiveUse'
  BY <1>0, <1>2 DEF Reset, ExclusiveUse, InPool
<1>3. ASSUME NEW t \in Threads, NEW i \in Slots, MarkVisited(t, i) PROVE ExclusiveUse'
  BY <1>0, <1>3 DEF MarkVisited, ExclusiveUse, InPool
<1>4. ASSUME NEW t \in Threads, ReleaseVisitedList(t) PROVE ExclusiveUse'
  <2>1. vl[t] \in Lists
    BY <1>0, <1>4 DEF ReleaseVisitedList, HoldsWhileBusy, PoolTypeOK
  <2>2. /\ vl' = [vl EXCEPT ![t] = NoList]
        /\ pool' = <<vl[t]>> \o pool
        /\ free' = free
    BY <1>4 DEF ReleaseVisitedList
  <2>3. /\ Len(pool) \in Nat
        /\ Len(pool') = Len(pool) + 1
        /\ pool'[1] = vl[t]
        /\ \A k \in 2 .. Len(pool) + 1 : pool'[k] = pool[k - 1]
    BY <1>0, <2>1, <2>2 DEF PoolTypeOK
  <2>4. InPool' = InPool \cup {vl[t]}
    <3>1. ASSUME NEW x \in InPool' PROVE x \in InPool \cup {vl[t]}
      BY <2>3, <3>1 DEF InPool
    <3>2. ASSUME NEW x \in InPool PROVE x \in InPool'
      <4>1. PICK k \in 1 .. Len(pool) : x = pool[k]
        BY <3>2 DEF InPool
      <4>2. k + 1 \in 1 .. Len(pool') /\ pool'[k + 1] = x
        BY <2>3, <4>1
      <4> QED BY <4>2 DEF InPool
    <3>3. vl[t] \in InPool'
      BY <2>3 DEF InPool
    <3> QED BY <3>1, <3>2, <3>3
  <2>5. \A j, k \in 1 .. Len(pool') : pool'[j] = pool'[k] => j = k
    <3>1. \A k \in 1 .. Len(pool) : pool[k] # vl[t]
      BY <1>0 DEF ExclusiveUse, InPool
    <3> QED BY <1>0, <2>3, <3>1 DEF ExclusiveUse
  <2> HIDE DEF InPool
  <2> QED BY <1>0, <2>1, <2>2, <2>4, <2>5 DEF ExclusiveUse, PoolTypeOK
<1>5. ASSUME NEW t \in Threads, Unwind(t) PROVE ExclusiveUse'
  <2>1. vl[t] \in Lists
    BY <1>0, <1>5 DEF Unwind, HoldsWhileBusy, PoolTypeOK
  <2>2. InPool' = InPool
    BY <1>5 DEF Unwind, InPool
  <2> QED BY <1>0, <1>5, <2>1, <2>2 DEF Unwind, ExclusiveUse, PoolTypeOK
<1>6. CASE UNCHANGED poolVars
  BY <1>0, <1>6 DEF poolVars, ExclusiveUse, InPool
<1> QED BY <1>1, <1>2, <1>3, <1>4, <1>5, <1>6 DEF PoolNext

\* Every step keeps the two remaining facts.
LEMMA NextTags == PoolInv /\ [PoolNext]_poolVars => HoldsWhileBusy' /\ NoEntryAhead'
<1> SUFFICES ASSUME PoolInv, [PoolNext]_poolVars PROVE HoldsWhileBusy' /\ NoEntryAhead'
  OBVIOUS
<1> USE PoolAssumption
<1>0. PoolTypeOK /\ HoldsWhileBusy /\ NoEntryAhead
  BY DEF PoolInv
<1>1. ASSUME NEW t \in Threads, GetFreeVisitedList(t)
      PROVE  HoldsWhileBusy' /\ NoEntryAhead'
  <2>1. at' = [at EXCEPT ![t] = "reset"]
    BY <1>1 DEF GetFreeVisitedList
  <2>2. CASE pool # <<>>
    <3>1. vl' = [vl EXCEPT ![t] = Head(pool)] /\ UNCHANGED <<curV, mass>>
      BY <1>1, <2>2 DEF GetFreeVisitedList
    <3>2. Head(pool) # NoList
      BY <1>0, <2>2 DEF PoolTypeOK
    <3> QED BY <1>0, <2>1, <3>1, <3>2 DEF HoldsWhileBusy, NoEntryAhead, PoolTypeOK
  <2>3. CASE pool = <<>>
    <3>1. PICK l \in free, garbage \in [Slots -> Tags] :
            /\ vl' = [vl EXCEPT ![t] = l]
            /\ curV' = [curV EXCEPT ![l] = MaxTag]
            /\ mass' = [mass EXCEPT ![l] = garbage]
      BY <1>1, <2>3 DEF GetFreeVisitedList, NewVisitedList
    <3>2. l \in Lists /\ \A i \in Slots : garbage[i] <= MaxTag
      BY <1>0 DEF PoolTypeOK, Tags
    <3>3. HoldsWhileBusy'
      BY <1>0, <2>1, <3>1, <3>2 DEF HoldsWhileBusy, PoolTypeOK
    <3>4. NoEntryAhead'
      BY <1>0, <3>1, <3>2 DEF NoEntryAhead, PoolTypeOK
    <3> QED BY <3>3, <3>4
  <2> QED BY <2>2, <2>3
<1>2. ASSUME NEW t \in Threads, Reset(t) PROVE HoldsWhileBusy' /\ NoEntryAhead'
  <2>1. HoldsWhileBusy'
    BY <1>0, <1>2 DEF Reset, HoldsWhileBusy, PoolTypeOK
  <2>2. vl[t] \in Lists /\ curV[vl[t]] \in Tags
    BY <1>0, <1>2 DEF Reset, HoldsWhileBusy, PoolTypeOK
  <2> DEFINE tag == (curV[vl[t]] + 1) % (MaxTag + 1)
  <2>3. tag # 0 => tag = curV[vl[t]] + 1
    BY <2>2, NextTag
  <2>4. \/ tag # 0 /\ curV' = [curV EXCEPT ![vl[t]] = tag] /\ mass' = mass
        \/ /\ curV' = [curV EXCEPT ![vl[t]] = 1]
           /\ mass' = [mass EXCEPT ![vl[t]] = [i \in Slots |-> 0]]
    BY <1>2 DEF Reset
  <2> HIDE DEF tag
  <2>5. NoEntryAhead'
    <3> SUFFICES ASSUME NEW l \in Lists, NEW i \in Slots
                 PROVE  mass'[l][i] <= curV'[l]
      BY DEF NoEntryAhead
    <3>1. mass[l][i] <= curV[l] /\ mass[l][i] \in Nat /\ curV[l] \in Nat
      BY <1>0 DEF NoEntryAhead, PoolTypeOK, Tags
    <3>2. CASE l # vl[t]
      BY <1>0, <2>4, <3>1, <3>2 DEF PoolTypeOK
    <3>3. CASE l = vl[t] /\ mass' = mass
      BY <1>0, <2>3, <2>4, <3>1, <3>3 DEF PoolTypeOK
    <3>4. CASE l = vl[t] /\ mass' # mass
      BY <1>0, <2>4, <3>4 DEF PoolTypeOK
    <3> QED BY <3>2, <3>3, <3>4
  <2> QED BY <2>1, <2>5
<1>3. ASSUME NEW t \in Threads, NEW i \in Slots, MarkVisited(t, i)
      PROVE  HoldsWhileBusy' /\ NoEntryAhead'
  <2>1. vl[t] \in Lists /\ curV[vl[t]] \in Nat
    BY <1>0, <1>3 DEF MarkVisited, HoldsWhileBusy, PoolTypeOK, Tags
  <2>2. HoldsWhileBusy'
    BY <1>0, <1>3 DEF MarkVisited, HoldsWhileBusy
  <2>3. NoEntryAhead'
    BY <1>0, <1>3, <2>1 DEF MarkVisited, NoEntryAhead, PoolTypeOK
  <2> QED BY <2>2, <2>3
<1>4. ASSUME NEW t \in Threads, ReleaseVisitedList(t) \/ Unwind(t)
      PROVE  HoldsWhileBusy' /\ NoEntryAhead'
  BY <1>0, <1>4 DEF ReleaseVisitedList, Unwind, HoldsWhileBusy, NoEntryAhead, PoolTypeOK
<1>5. CASE UNCHANGED poolVars
  BY <1>0, <1>5 DEF poolVars, HoldsWhileBusy, NoEntryAhead
<1> QED BY <1>1, <1>2, <1>3, <1>4, <1>5 DEF PoolNext

\* The inductive invariant holds in every reachable state.
THEOREM PoolInvariance == PoolSpec => []PoolInv
<1>1. PoolInv /\ [PoolNext]_poolVars => PoolInv'
  BY NextTypeOK, NextExclusiveUse, NextTags DEF PoolInv
<1> QED BY InitPool, <1>1, PTL DEF PoolSpec

\* The types of the pool and of every visited list are kept: in particular the
\* tag stays within vl_type although reset() increments it without a check.
THEOREM PoolTypeCorrect == PoolSpec => []PoolTypeOK
BY PoolInvariance, PTL DEF PoolInv

\* getFreeVisitedList never hands one list to two threads and releaseVisitedList
\* never puts a list back twice, for any number of threads.
THEOREM ListsExclusive == PoolSpec => []ExclusiveUse
BY PoolInvariance, PTL DEF PoolInv

\* A step of thread t leaves the visited set and the tag of every other thread u
\* alone: u's list is not t's list.
LEMMA OthersUndisturbed ==
  ASSUME PoolInv, NEW t \in Threads, NEW u \in Threads, u # t,
         \/ GetFreeVisitedList(t)
         \/ Reset(t)
         \/ \E i \in Slots : MarkVisited(t, i)
         \/ ReleaseVisitedList(t)
         \/ Unwind(t)
  PROVE  /\ VisitedBy(u)' = VisitedBy(u) /\ at'[u] = at[u]
         /\ at[u] = "search" => curV'[vl'[u]] = curV[vl[u]]
<1>0. PoolTypeOK /\ ExclusiveUse /\ HoldsWhileBusy
  BY DEF PoolInv
<1>1. at'[u] = at[u] /\ vl'[u] = vl[u]
  BY <1>0 DEF GetFreeVisitedList, NewVisitedList, Reset, MarkVisited, ReleaseVisitedList,
              Unwind, PoolTypeOK
<1>2. CASE at[u] # "search"
  BY <1>1, <1>2 DEF VisitedBy
<1>3. CASE at[u] = "search"
  <2>1. vl[u] \in Lists /\ vl[u] # vl[t] /\ vl[u] \notin free
    BY <1>0, <1>3, PoolAssumption DEF HoldsWhileBusy, ExclusiveUse, PoolTypeOK
  <2>2. curV'[vl[u]] = curV[vl[u]] /\ mass'[vl[u]] = mass[vl[u]]
    <3>1. CASE GetFreeVisitedList(t)
      <4>1. \/ UNCHANGED <<curV, mass>>
            \/ \E l \in free, garbage \in [Slots -> Tags] :
                  /\ curV' = [curV EXCEPT ![l] = MaxTag]
                  /\ mass' = [mass EXCEPT ![l] = garbage]
        BY <3>1 DEF GetFreeVisitedList, NewVisitedList
      <4> QED BY <1>0, <2>1, <4>1 DEF PoolTypeOK
    <3>2. CASE Reset(t)
      BY <1>0, <2>1, <3>2 DEF Reset, PoolTypeOK
    <3>3. CASE \E i \in Slots : MarkVisited(t, i)
      BY <1>0, <2>1, <3>3 DEF MarkVisited, PoolTypeOK
    <3>4. CASE ReleaseVisitedList(t) \/ Unwind(t)
      BY <3>4 DEF ReleaseVisitedList, Unwind
    <3> QED BY <3>1, <3>2, <3>3, <3>4
  <2> QED BY <1>1, <2>2 DEF VisitedBy
<1> QED BY <1>1, <1>2, <1>3

\* After reset() no entry of the array carries the new tag: either the tag went
\* up past every entry, or the array was zeroed and the tag is 1.
LEMMA ResetStartsEmpty ==
  ASSUME PoolInv, NEW t \in Threads, Reset(t)
  PROVE  VisitedBy(t)' = {}
<1>0. PoolTypeOK /\ HoldsWhileBusy /\ NoEntryAhead
  BY DEF PoolInv
<1>1. vl[t] \in Lists /\ curV[vl[t]] \in Tags
  BY <1>0 DEF Reset, HoldsWhileBusy, PoolTypeOK
<1> DEFINE tag == (curV[vl[t]] + 1) % (MaxTag + 1)
<1>2. tag # 0 => tag = curV[vl[t]] + 1
  BY <1>1, NextTag
<1>3. \/ tag # 0 /\ curV' = [curV EXCEPT ![vl[t]] = tag] /\ mass' = mass
      \/ /\ curV' = [curV EXCEPT ![vl[t]] = 1]
         /\ mass' = [mass EXCEPT ![vl[t]] = [i \in Slots |-> 0]]
  BY DEF Reset
<1>4. vl' = vl
  BY DEF Reset
<1> HIDE DEF tag
<1>5. ASSUME NEW i \in Slots PROVE mass'[vl'[t]][i] # curV'[vl'[t]]
  <2>1. mass[vl[t]][i] <= curV[vl[t]] /\ mass[vl[t]][i] \in Nat /\ curV[vl[t]] \in Nat
    BY <1>0, <1>1 DEF NoEntryAhead, PoolTypeOK, Tags
  <2> QED BY <1>0, <1>1, <1>2, <1>3, <1>4, <2>1 DEF PoolTypeOK
<1> QED BY <1>5 DEF VisitedBy

\* A search never runs with the tag 0 that reset()'s memset writes: if it did, all
\* slots of a cleared list would count as visited.  The second increment in
\* reset() sees to it.
TagsInUse == \A t \in Threads : at[t] = "search" => curV[vl[t]] # 0

\* Every step keeps the tags in use apart from 0.
LEMMA NextTagsInUse == PoolInv /\ TagsInUse /\ [PoolNext]_poolVars => TagsInUse'
<1> SUFFICES ASSUME PoolInv, TagsInUse, [PoolNext]_poolVars,
                    NEW u \in Threads, at'[u] = "search"
             PROVE  curV'[vl'[u]] # 0
  BY DEF TagsInUse
<1>0. PoolTypeOK /\ HoldsWhileBusy
  BY DEF PoolInv
<1>1. CASE UNCHANGED poolVars
  BY <1>1 DEF poolVars, TagsInUse
<1>2. ASSUME NEW t \in Threads, t # u,
             \/ GetFreeVisitedList(t)
             \/ Reset(t)
             \/ \E i \in Slots : MarkVisited(t, i)
             \/ ReleaseVisitedList(t)
             \/ Unwind(t)
      PROVE  curV'[vl'[u]] # 0
  BY <1>2, OthersUndisturbed DEF TagsInUse
<1>3. ~GetFreeVisitedList(u) /\ ~ReleaseVisitedList(u) /\ ~Unwind(u)
  BY <1>0 DEF GetFreeVisitedList, ReleaseVisitedList, Unwind, PoolTypeOK
<1>4. CASE Reset(u)
  <2>1. vl[u] \in Lists /\ vl' = vl
    BY <1>0, <1>4 DEF Reset, HoldsWhileBusy, PoolTypeOK
  <2>2. \/ /\ (curV[vl[u]] + 1) % (MaxTag + 1) # 0
           /\ curV' = [curV EXCEPT ![vl[u]] = (curV[vl[u]] + 1) % (MaxTag + 1)]
        \/ curV' = [curV EXCEPT ![vl[u]] = 1]
    BY <1>4 DEF Reset
  <2> QED BY <1>0, <2>1, <2>2 DEF PoolTypeOK
<1>5. CASE \E i \in Slots : MarkVisited(u, i)
  BY <1>5 DEF MarkVisited, TagsInUse
<1> QED BY <1>1, <1>2, <1>3, <1>4, <1>5 DEF PoolNext

\* No search ever runs with tag 0, through any number of wrap-arounds of any
\* number of lists (VisitedList::reset).
THEOREM TagsNeverZero == PoolSpec => []TagsInUse
<1>1. PoolInit => TagsInUse
  BY DEF PoolInit, TagsInUse
<1> QED BY <1>1, NextTagsInUse, PoolInvariance, PTL DEF PoolSpec

\* Reusing lists, wrapping tags and leaking lists on an exception stay invisible:
\* for any number of threads, slots and tags the pool gives every search a
\* private visited set that starts empty (visited_list_pool.h as a whole).
THEOREM PoolImplementsVisitedSet == PoolSpec => ImplementsVisitedSet
<1> DEFINE searching == {t \in Threads : at[t] = "search"}
           seen == [t \in Threads |-> VisitedBy(t)]
<1>1. PoolInit => Abstract!Init
  BY DEF PoolInit, Abstract!Init, VisitedBy
<1>2. PoolInv /\ [PoolNext]_poolVars => [Abstract!Next]_(Abstract!vars)
  <2> SUFFICES ASSUME PoolInv, [PoolNext]_poolVars
               PROVE  Abstract!Next \/ UNCHANGED <<searching, seen>>
    BY DEF Abstract!vars
  <2>0. PoolTypeOK /\ HoldsWhileBusy
    BY DEF PoolInv
  <2>1. ASSUME NEW t \in Threads, GetFreeVisitedList(t)
        PROVE  UNCHANGED <<searching, seen>>
    <3>1. at[t] = "idle" /\ at'[t] = "reset"
      BY <2>0, <2>1 DEF GetFreeVisitedList, PoolTypeOK
    <3>2. \A u \in Threads : VisitedBy(u)' = VisitedBy(u) /\ (at'[u] = "search" <=> at[u] = "search")
      BY <2>1, <3>1, OthersUndisturbed, Zenon DEF VisitedBy
    <3> QED BY <3>2
  <2>2. ASSUME NEW t \in Threads, Reset(t) PROVE Abstract!Begin(t)
    <3>1. at[t] = "reset" /\ at' = [at EXCEPT ![t] = "search"]
      BY <2>2 DEF Reset
    <3>2. \A u \in Threads : u # t => VisitedBy(u)' = VisitedBy(u)
      BY <2>2, OthersUndisturbed
    <3>3. VisitedBy(t)' = {}
      BY <2>2, ResetStartsEmpty
    <3>4. seen' = [seen EXCEPT ![t] = {}]
      BY <3>2, <3>3, Zenon
    <3>5. searching' = searching \cup {t} /\ t \notin searching
      BY <2>0, <3>1 DEF PoolTypeOK
    <3> QED BY <3>4, <3>5 DEF Abstract!Begin
  <2>3. ASSUME NEW t \in Threads, NEW i \in Slots, MarkVisited(t, i)
        PROVE  Abstract!Visit(t, i)
    <3>1. at[t] = "search" /\ at' = at /\ vl' = vl /\ curV' = curV
      BY <2>3 DEF MarkVisited
    <3>2. \A u \in Threads : u # t => VisitedBy(u)' = VisitedBy(u)
      BY <2>3, OthersUndisturbed
    <3>3. i \notin VisitedBy(t) /\ VisitedBy(t)' = VisitedBy(t) \cup {i}
      BY <2>0, <2>3, <3>1 DEF MarkVisited, VisitedBy, PoolTypeOK, HoldsWhileBusy
    <3>4. seen' = [seen EXCEPT ![t] = @ \cup {i}]
      BY <3>2, <3>3, Zenon
    <3>5. t \in searching /\ searching' = searching
      BY <3>1
    <3> QED BY <3>3, <3>4, <3>5 DEF Abstract!Visit
  <2>4. ASSUME NEW t \in Threads, ReleaseVisitedList(t) \/ Unwind(t)
        PROVE  Abstract!End(t)
    <3>1. at[t] = "search" /\ at' = [at EXCEPT ![t] = "idle"]
      BY <2>4 DEF ReleaseVisitedList, Unwind
    <3>2. \A u \in Threads : u # t => VisitedBy(u)' = VisitedBy(u)
      BY <2>4, OthersUndisturbed
    <3>3. VisitedBy(t)' = {}
      BY <2>0, <3>1 DEF VisitedBy, PoolTypeOK
    <3>4. seen' = [seen EXCEPT ![t] = {}]
      BY <3>2, <3>3, Zenon
    <3>5. t \in searching /\ searching' = searching \ {t}
      BY <2>0, <3>1 DEF PoolTypeOK
    <3> QED BY <3>4, <3>5 DEF Abstract!End
  <2>5. CASE UNCHANGED poolVars
    BY <2>5 DEF poolVars, VisitedBy
  <2> QED BY <2>1, <2>2, <2>3, <2>4, <2>5 DEF PoolNext, Abstract!Next
<1> QED BY <1>1, <1>2, PoolInvariance, PTL DEF PoolSpec, ImplementsVisitedSet, Abstract!Spec

-----------------------------------------------------------------------------
(* The search *)

\* Steps are left to Zenon, except where SMT is named.
USE Zenon

\* The parts of a query.
LEMMA QueryFacts ==
  ASSUME q \in QueryType, q.num.limit >= 1
  PROVE  /\ q.dist \in [Nodes -> 0 .. MaxDist - 1] /\ q.base \in [Nodes -> SUBSET Nodes]
         /\ q.upper \in Seq([Nodes -> SUBSET Nodes]) /\ q.entry \in Nodes \cup {None}
         /\ \A n \in Nodes : q.dist[n] \in Nat /\ q.dist[n] < MaxDist /\ q.base[n] \subseteq Nodes
         /\ q.num.wanted \in Nat /\ q.num.limit \in Nat /\ MaxDist \in Nat
         /\ wanted \in Nat /\ limit \in Nat /\ limit >= 1 /\ wanted <= limit
<1>1. /\ q.dist \in [Nodes -> 0 .. MaxDist - 1] /\ q.base \in [Nodes -> SUBSET Nodes]
      /\ q.upper \in Seq([Nodes -> SUBSET Nodes]) /\ q.entry \in Nodes \cup {None}
      /\ q.num \in [wanted : Nat, limit : Nat]
  BY DEF QueryType
<1>2. q.num.wanted \in Nat /\ q.num.limit \in Nat
  BY <1>1
<1>3. MaxDist \in Nat
  BY SearchAssumption
<1>4. \A n \in Nodes : q.dist[n] \in Nat /\ q.dist[n] < MaxDist /\ q.base[n] \subseteq Nodes
  BY <1>1, <1>3, SMT
<1>5. wanted \in Nat /\ limit \in Nat /\ limit >= 1 /\ wanted <= limit
  BY <1>2, SMT DEF wanted, limit
<1> QED BY <1>1, <1>2, <1>3, <1>4, <1>5

\* Every set of elements is finite.
LEMMA FiniteNodes ==
  ASSUME NEW S \in SUBSET Nodes
  PROVE  IsFiniteSet(S) /\ Cardinality(S) \in Nat
BY SearchAssumption, FS_Subset, FS_CardinalityType

\* One element more.
LEMMA OneMore ==
  ASSUME NEW S \in SUBSET Nodes, NEW n \in Nodes, n \notin S
  PROVE  Cardinality(S \cup {n}) = Cardinality(S) + 1
BY FiniteNodes, FS_AddElement

\* One element less.
LEMMA OneLess ==
  ASSUME NEW S \in SUBSET Nodes, NEW n \in S
  PROVE  Cardinality(S \ {n}) = Cardinality(S) - 1
BY FiniteNodes, FS_RemoveElement

\* A search starts with a query and with nothing visited.
LEMMA InitIInv == Init => IInv
<1> SUFFICES ASSUME Init PROVE IInv
  OBVIOUS
<1>1. q \in QueryType /\ (q.mode = "bare" => q.rejected = {}) /\ q.num.limit >= 1
  BY SearchAssumption DEF Init
<1>2. lowerBound \in 0 .. MaxDist
  BY SearchAssumption, SMT DEF Init
<1>3. TypeOK
  BY <1>1, <1>2 DEF Init, TypeOK
<1> QED BY <1>3 DEF Init, IInv, DescentInv, GroundInv, ReachInv, ResultInv, LocalOptimum

\* The search enters the graph, if there is one.
LEMMA EnterIInv ==
  ASSUME IInv, Enter
  PROVE  IInv'
<1> USE DEF Enter, IInv
<1>1. q' = q /\ pc = "enter" /\ UNCHANGED <<changed, visited, candidate_set, top_candidates, lowerBound>>
  OBVIOUS
<1>2. q \in QueryType /\ q.num.limit >= 1
  BY DEF TypeOK
<1>3. /\ currObj' = q.entry /\ level' = Len(q.upper) /\ Len(q.upper) \in Nat
  BY <1>2, QueryFacts, SMT
<1>4. \/ q.entry = None /\ pc' = "done" /\ todo' = todo
      \/ q.entry # None /\ q.upper = << >> /\ pc' = "start" /\ todo' = todo
      \/ /\ q.entry # None /\ q.upper # << >> /\ pc' = "descend"
         /\ todo' = q.upper[Len(q.upper)][q.entry]
  BY <1>3
<1>5. q.upper # << >> => Len(q.upper) \in 1 .. Len(q.upper)
  BY <1>2, <1>3, QueryFacts, SMT
<1>6. q.entry # None => q.entry \in Nodes
  BY <1>2, QueryFacts
<1>7. q.upper # << >> /\ q.entry # None => q.upper[Len(q.upper)][q.entry] \subseteq Nodes
  BY <1>2, <1>5, <1>6, QueryFacts, SMT
<1>8. TypeOK'
  BY <1>1, <1>3, <1>4, <1>6, <1>7 DEF TypeOK
<1>9. DescentInv'
  BY <1>1, <1>3, <1>4, <1>5 DEF DescentInv
<1> QED BY <1>1, <1>4, <1>8, <1>9 DEF GroundInv, ReachInv, ResultInv, LocalOptimum

\* One element of a list on an upper level is looked at.
LEMMA DescendIInv ==
  ASSUME IInv, Descend
  PROVE  IInv'
<1>1. PICK n \in todo : Look(n) /\ todo' = todo \ {n}
  BY DEF Descend
<1>2. /\ pc = "descend" /\ pc' = pc
      /\ UNCHANGED <<q, level, visited, candidate_set, top_candidates, lowerBound, found>>
  BY DEF Descend
<1>3. TypeOK /\ DescentInv /\ q \in QueryType /\ q.num.limit >= 1 /\ currObj \in Nodes /\ n \in Nodes
  BY <1>1, <1>2 DEF IInv, TypeOK
<1>4. q.dist[n] \in Nat /\ q.dist[currObj] \in Nat
  BY <1>3, QueryFacts
<1>5. CASE q.dist[n] < q.dist[currObj]
  <2>1. currObj' = n /\ changed' = TRUE
    BY <1>1, <1>5 DEF Look
  <2>2. TypeOK' /\ DescentInv'
    BY <1>1, <1>2, <1>3, <2>1 DEF TypeOK, DescentInv
  <2> QED BY <1>2, <2>2 DEF IInv, GroundInv, ReachInv, ResultInv, LocalOptimum
<1>6. CASE ~(q.dist[n] < q.dist[currObj])
  <2>1. UNCHANGED <<currObj, changed>> /\ q.dist[currObj] <= q.dist[n]
    BY <1>1, <1>4, <1>6, SMT DEF Look
  <2>2. TypeOK' /\ DescentInv'
    BY <1>1, <1>2, <1>3, <2>1 DEF TypeOK, DescentInv
  <2> QED BY <1>2, <2>2 DEF IInv, GroundInv, ReachInv, ResultInv, LocalOptimum
<1> QED BY <1>5, <1>6

\* The list is read again from another element, or the level is left.
LEMMA NextListIInv ==
  ASSUME IInv, NextList
  PROVE  IInv'
<1>1. /\ pc = "descend" /\ todo = {} /\ changed' = FALSE
      /\ level' = IF changed THEN level ELSE level - 1
      /\ UNCHANGED <<q, currObj, visited, candidate_set, top_candidates, lowerBound, found>>
      /\ \/ level' = 0 /\ pc' = "start" /\ todo' = todo
         \/ level' # 0 /\ pc' = pc /\ todo' = q.upper[level'][currObj]
  BY DEF NextList
<1>2. /\ TypeOK /\ DescentInv /\ q \in QueryType /\ q.num.limit >= 1 /\ currObj \in Nodes
      /\ level \in 1 .. Len(q.upper) /\ changed \in BOOLEAN /\ Len(q.upper) \in Nat
  <2>1. /\ TypeOK /\ DescentInv /\ q \in QueryType /\ q.num.limit >= 1 /\ currObj \in Nodes
        /\ changed \in BOOLEAN
    BY <1>1 DEF IInv, TypeOK
  <2>2. level \in 1 .. Len(q.upper)
    BY <1>1, <2>1 DEF DescentInv
  <2>3. q.upper \in Seq([Nodes -> SUBSET Nodes])
    BY <2>1, QueryFacts
  <2>4. Len(q.upper) \in Nat
    BY <2>3, SMT
  <2> QED BY <2>1, <2>2, <2>4
<1>3. level' \in 0 .. Len(q.upper)
  <2>1. level' \in {level, level - 1}
    BY <1>1
  <2> QED BY <1>2, <2>1, SMT
<1>4. level' # 0 => q.upper[level'][currObj] \subseteq Nodes
  BY <1>2, <1>3, QueryFacts, SMT
<1>5. TypeOK'
  <2>3. changed' \in BOOLEAN
    BY <1>1
  <2>1. level' \in Nat
    BY <1>2, <1>3, SMT
  <2>2. todo' \subseteq Nodes /\ pc' \in {"start", "descend"}
    BY <1>1, <1>4
  <2> QED BY <1>1, <1>2, <2>1, <2>2, <2>3 DEF TypeOK
<1>6. DescentInv'
  <2>1. CASE level' = 0
    <3>1. changed = FALSE /\ level = 1
      BY <1>1, <1>2, <2>1, SMT
    <3> QED BY <1>1, <1>2, <2>1, <3>1 DEF DescentInv
  <2>2. CASE level' # 0
    BY <1>1, <1>2, <1>3, <2>2, SMT DEF DescentInv
  <2> QED BY <2>1, <2>2
<1> QED BY <1>1, <1>5, <1>6 DEF IInv, GroundInv, ReachInv, ResultInv, LocalOptimum

\* The ground level is entered.
LEMMA StartIInv ==
  ASSUME IInv, Start
  PROVE  IInv'
<1>1. /\ pc = "start" /\ pc' = "search" /\ visited' = {currObj} /\ candidate_set' = {currObj}
      /\ UNCHANGED <<q, currObj, level, changed, todo, found>>
      /\ \/ Allowed(currObj) /\ top_candidates' = {currObj} /\ lowerBound' = q.dist[currObj]
         \/ ~Allowed(currObj) /\ top_candidates' = top_candidates /\ lowerBound' = MaxDist
  BY DEF Start
<1>2. /\ TypeOK /\ DescentInv /\ q \in QueryType /\ q.num.limit >= 1
      /\ currObj \in Nodes /\ top_candidates = {} /\ todo = {}
  BY <1>1 DEF IInv, TypeOK, DescentInv
<1>3. q.dist[currObj] \in 0 .. MaxDist /\ MaxDist \in 0 .. MaxDist /\ limit \in Nat /\ limit >= 1
  BY <1>2, QueryFacts, SMT
<1>4. TypeOK' /\ DescentInv'
  BY <1>1, <1>2, <1>3 DEF TypeOK, DescentInv
<1>5. GroundInv'
  <2>1. limit' = limit /\ \A n : Allowed(n)' <=> Allowed(n)
    BY <1>1 DEF limit, wanted, Allowed
  <2>2. top_candidates' \subseteq {currObj} /\ Cardinality(top_candidates') <= 1
    <3>1. top_candidates' = {currObj} \/ top_candidates' = {}
      BY <1>1, <1>2
    <3>2. Cardinality({currObj}) = 1 /\ Cardinality({}) = 0
      BY FS_EmptySet, FS_Singleton
    <3>3. Cardinality(top_candidates') = 1 \/ Cardinality(top_candidates') = 0
      BY <3>1, <3>2
    <3> QED BY <3>1, <3>3, SMT
  <2>3. Cardinality(top_candidates') \in Nat
    BY <1>1, <1>2, FiniteNodes
  <2>4. \A n \in top_candidates' : n = currObj /\ Allowed(n) /\ q.dist[n] = lowerBound'
    BY <1>1, <1>2
  <2>5. \A n \in visited' \ top_candidates' : ~Allowed(n)
    BY <1>1
  <2>6. q.dist[currObj] <= q.dist[currObj]
    BY <1>3, SMT
  <2> QED BY <1>1, <1>2, <1>3, <2>1, <2>2, <2>3, <2>4, <2>5, <2>6, SMT DEF GroundInv
<1>6. ReachInv'
  BY <1>1, <1>2 DEF ReachInv, Closed
<1> QED BY <1>1, <1>4, <1>5, <1>6 DEF IInv, ResultInv, LocalOptimum

\* What it takes to leave the ground level: a set of elements found that is
\* full, or that holds all that can be reached.
LEMMA StopIInv ==
  ASSUME IInv, pc = "search", todo = {}, pc' = "results", found' = top_candidates,
         UNCHANGED <<q, currObj, level, changed, todo, visited, candidate_set, top_candidates,
                     lowerBound>>,
         Knn => \A c \in candidate_set : c \notin top_candidates,
         Knn /\ Cardinality(top_candidates) < limit => candidate_set = {}
  PROVE  IInv'
<1>1. /\ TypeOK /\ DescentInv /\ GroundInv /\ ReachInv /\ q \in QueryType /\ q.num.limit >= 1
      /\ currObj \in Nodes /\ visited \subseteq Nodes /\ top_candidates \subseteq Nodes
  BY DEF IInv, TypeOK
<1>2. TypeOK' /\ DescentInv'
  BY <1>1 DEF TypeOK, DescentInv
<1>3. limit \in Nat /\ limit >= 1 /\ wanted \in Nat /\ Cardinality(top_candidates) \in Nat
  BY <1>1, QueryFacts, FiniteNodes
<1>4. ASSUME Knn
      PROVE  /\ top_candidates \subseteq visited /\ currObj \in visited
             /\ candidate_set \subseteq visited
             /\ \A n \in top_candidates : Allowed(n)
             /\ \A m \in visited :
                  m \in candidate_set \/ q.base[m] \subseteq visited \/ (m \notin top_candidates /\ Full)
             /\ \A n \in visited \ top_candidates : Allowed(n) =>
                  Full /\ \A f \in top_candidates : q.dist[f] <= q.dist[n]
             /\ Cardinality(top_candidates) <= limit
  BY <1>1, <1>4 DEF GroundInv, NoFurther
<1>5. ASSUME Knn PROVE top_candidates \subseteq all
  <2>1. visited \subseteq Reachable(Nodes)
    <3> SUFFICES ASSUME NEW n \in visited, NEW S \in SUBSET Nodes, currObj \in S,
                        \A m \in S : q.base[m] \cap Nodes \subseteq S
                 PROVE  n \in S
      BY <1>1 DEF Reachable
    <3>1. Closed(S)
      BY <1>1, QueryFacts DEF Closed
    <3> QED BY <1>1, <3>1 DEF ReachInv
  <2> QED BY <1>4, <1>5, <2>1 DEF all
<1>6. ASSUME Knn, Cardinality(top_candidates) < limit PROVE all \subseteq top_candidates
  <2>1. candidate_set = {} /\ ~Full
    BY <1>3, <1>6, SMT DEF Full
  <2>2. \A m \in visited : q.base[m] \subseteq visited
    BY <1>4, <1>6, <2>1
  <2>3. Reachable(Nodes) \subseteq visited
    BY <1>1, <1>4, <1>6, <2>2 DEF Reachable
  <2> QED BY <1>4, <1>6, <2>1, <2>3 DEF all
<1>7. /\ limit' = limit /\ wanted' = wanted /\ all' = all /\ Knn' = Knn
      /\ \A n : Allowed(n)' <=> Allowed(n)
  BY DEF limit, wanted, all, Reachable, Knn, Allowed
<1>8. ResultInv'
  <2> SUFFICES ASSUME Knn
               PROVE  /\ top_candidates \subseteq all
                      /\ Cardinality(top_candidates) >= limit \/ top_candidates = all
    BY <1>7 DEF ResultInv
  <2> QED BY <1>3, <1>5, <1>6, SMT
<1>9. LocalOptimum'
  <2>1. q.entry # None /\ q.upper # << >> =>
          \A n \in q.upper[1][currObj] : q.dist[currObj] <= q.dist[n]
    BY <1>1 DEF DescentInv
  <2>2. ASSUME Knn, NEW m \in top_candidates, NEW n \in q.base[m] \ top_candidates, Allowed(n)
        PROVE  /\ Cardinality(top_candidates) = limit
               /\ \A f \in top_candidates : q.dist[f] <= q.dist[n]
    <3>1. n \in visited \ top_candidates
      BY <1>4, <2>2
    <3> QED BY <1>3, <1>4, <2>2, <3>1, SMT DEF Full
  <2> QED BY <1>7, <2>1, <2>2 DEF LocalOptimum, Knn
<1>10. GroundInv' /\ ReachInv'
  BY DEF GroundInv, ReachInv
<1> QED BY <1>2, <1>8, <1>9, <1>10 DEF IInv


\* What is counted against ef.
LEMMA SizeKnn ==
  ASSUME Knn
  PROVE  Size = Cardinality(top_candidates)
BY DEF Knn, Size

\* No candidate is left, and everything visited has been expanded.
LEMMA NoCandidateIInv ==
  ASSUME IInv, NoCandidate
  PROVE  IInv'
BY StopIInv DEF NoCandidate

\* The closest candidate ends the search, being further away than all the
\* elements found, or it is expanded.
LEMMA ExpandIInv ==
  ASSUME IInv, Expand
  PROVE  IInv'
<1>1. PICK c \in Closest(candidate_set) :
        IF should_stop_search(Key(c))
        THEN pc' = "results" /\ found' = top_candidates /\ UNCHANGED <<todo, candidate_set>>
        ELSE /\ candidate_set' = candidate_set \ {c} /\ todo' = q.base[c]
             /\ UNCHANGED <<pc, found>>
  BY DEF Expand
<1>2. /\ pc = "search" /\ todo = {}
      /\ UNCHANGED <<q, currObj, level, changed, visited, top_candidates, lowerBound>>
  BY DEF Expand
<1>3. /\ TypeOK /\ DescentInv /\ GroundInv /\ ReachInv /\ q \in QueryType /\ q.num.limit >= 1
      /\ currObj \in Nodes /\ candidate_set \subseteq Nodes /\ top_candidates \subseteq Nodes
      /\ c \in candidate_set /\ c \in Nodes /\ lowerBound \in Nat /\ MaxDist \in Nat
  <2>1. MaxDist \in Nat
    BY SearchAssumption
  <2> QED BY <1>1, <1>2, <2>1, SMT DEF IInv, TypeOK, Closest
<1>4. \A n \in Nodes : q.dist[n] \in Nat /\ q.base[n] \subseteq Nodes
  BY <1>3, QueryFacts
<1>5. CASE should_stop_search(Key(c))
  <2>1. /\ pc' = "results" /\ found' = top_candidates /\ UNCHANGED <<todo, candidate_set>>
    BY <1>1, <1>5
  <2>2. Knn => Key(c) > lowerBound /\ (q.mode = "bare" \/ Cardinality(top_candidates) = limit)
    BY <1>5, SizeKnn DEF should_stop_search, Knn
  <2>3. Key(c) \in Nat
    BY <1>3, <1>4 DEF Key
  <2>4. ASSUME Knn, NEW m \in candidate_set PROVE m \notin top_candidates
    <3> SUFFICES ASSUME m \in top_candidates PROVE FALSE
      OBVIOUS
    <3>1. Allowed(m) /\ q.dist[m] <= lowerBound
      BY <1>2, <1>3, <2>4 DEF GroundInv
    <3>2. Key(m) = q.dist[m] /\ Key(c) <= Key(m)
      BY <1>1, <2>4, <3>1 DEF Key, Closest
    <3>3. q.dist[m] \in Nat
      BY <1>3, <1>4
    <3> QED BY <1>3, <2>2, <2>3, <2>4, <3>1, <3>2, <3>3, SMT
  <2>5. ASSUME Knn, Cardinality(top_candidates) < limit PROVE candidate_set = {}
    <3>1. limit \in Nat
      BY <1>3, QueryFacts
    <3>2. q.mode = "bare"
      BY <2>2, <2>5, <3>1, SMT
    <3>3. c \in visited /\ ~Full
      BY <1>2, <1>3, <2>5, <3>1, FiniteNodes, SMT DEF GroundInv, Full
    <3>4. Allowed(c)
      BY <1>3, <3>2 DEF TypeOK, Allowed
    <3>5. c \in top_candidates
      BY <1>2, <1>3, <2>5, <3>3, <3>4 DEF GroundInv
    <3> QED BY <1>3, <2>4, <2>5, <3>5
  <2> QED BY <1>2, <2>1, <2>4, <2>5, StopIInv
<1>6. CASE ~should_stop_search(Key(c))
  <2>1. candidate_set' = candidate_set \ {c} /\ todo' = q.base[c] /\ UNCHANGED <<pc, found>>
    BY <1>1, <1>6
  <2>2. TypeOK' /\ DescentInv'
    BY <1>2, <1>3, <1>4, <2>1 DEF TypeOK, DescentInv
  <2>3. GroundInv'
    <3>1. limit' = limit /\ Full' = Full /\ (Knn' <=> Knn) /\ \A n : Allowed(n)' <=> Allowed(n)
      BY <1>2 DEF limit, wanted, Full, Knn, Allowed
    <3>2. ASSUME Knn, NEW m \in visited
          PROVE  m \in candidate_set' \/ q.base[m] \subseteq visited \cup todo' \/ (m \notin top_candidates /\ Full)
      BY <1>2, <1>3, <2>1, <3>2 DEF GroundInv
    <3> QED BY <1>2, <1>3, <2>1, <3>1, <3>2 DEF GroundInv, NoFurther
  <2>4. ReachInv'
    BY <1>2, <1>3, <2>1 DEF ReachInv, Closed
  <2> QED BY <1>2, <2>1, <2>2, <2>3, <2>4 DEF IInv, ResultInv, LocalOptimum
<1> QED BY <1>5, <1>6

\* An element of the list is visited: it has been before, or it is passed over,
\* or it becomes a candidate and, unless rejected, a result.
LEMMA VisitIInv ==
  ASSUME IInv, Visit
  PROVE  IInv'
<1>1. PICK n \in todo :
        /\ todo' = todo \ {n} /\ visited' = visited \cup {n}
        /\ \/ /\ n \in visited \/ ~should_consider_candidate(q.dist[n])
              /\ UNCHANGED <<pc, candidate_set, top_candidates>>
           \/ /\ n \notin visited /\ should_consider_candidate(q.dist[n])
              /\ candidate_set' = candidate_set \cup {n} /\ pc' = "trim"
              /\ \/ Allowed(n) /\ top_candidates' = top_candidates \cup {n}
                 \/ ~Allowed(n) /\ top_candidates' = top_candidates
  BY DEF Visit
<1>2. pc = "search" /\ UNCHANGED <<q, currObj, level, changed, lowerBound, found>>
  BY DEF Visit
<1>3. /\ TypeOK /\ DescentInv /\ GroundInv /\ ReachInv /\ q \in QueryType /\ q.num.limit >= 1
      /\ currObj \in Nodes /\ visited \subseteq Nodes /\ top_candidates \subseteq Nodes
      /\ n \in Nodes /\ lowerBound \in Nat
  <2>1. MaxDist \in Nat
    BY SearchAssumption
  <2> QED BY <1>1, <1>2, <2>1, SMT DEF IInv, TypeOK
<1>4. /\ limit \in Nat /\ limit >= 1 /\ Cardinality(top_candidates) \in Nat
      /\ \A m \in Nodes : q.dist[m] \in Nat
  BY <1>3, QueryFacts, FiniteNodes
<1>5. TypeOK'
  BY <1>1, <1>2, <1>3 DEF TypeOK
<1>6. DescentInv'
  BY <1>1, <1>2, <1>3 DEF DescentInv
<1>7. ReachInv'
  <2>1. \A S \in SUBSET Nodes : Closed(S)' <=> Closed(S)
    BY <1>2 DEF Closed
  <2> QED BY <1>1, <1>2, <1>3, <2>1 DEF ReachInv
<1>8. limit' = limit /\ (Knn' <=> Knn) /\ \A m : Allowed(m)' <=> Allowed(m)
  BY <1>2 DEF limit, wanted, Knn, Allowed
<1>9. ASSUME Knn
      PROVE  /\ currObj \in visited
             /\ candidate_set \subseteq visited /\ top_candidates \subseteq visited
             /\ \A m \in top_candidates : Allowed(m) /\ q.dist[m] <= lowerBound
             /\ \A m \in visited :
                  \/ m \in candidate_set
                  \/ q.base[m] \subseteq visited \cup todo
                  \/ m \notin top_candidates /\ Cardinality(top_candidates) >= limit
             /\ \A m \in visited \ top_candidates : Allowed(m) =>
                  /\ Cardinality(top_candidates) >= limit
                  /\ \A f \in top_candidates : q.dist[f] <= q.dist[m]
             /\ Cardinality(top_candidates) <= limit
             /\ top_candidates # {} => \E f \in top_candidates : q.dist[f] = lowerBound
  BY <1>2, <1>3, <1>9 DEF GroundInv, NoFurther, Full
<1>10. ASSUME Knn
       PROVE  should_consider_candidate(q.dist[n])
                <=> (Cardinality(top_candidates) < limit \/ lowerBound > q.dist[n])
  BY <1>10, SizeKnn DEF should_consider_candidate
<1>11. visited \cup todo = visited' \cup todo'
  BY <1>1
<1>12. CASE n \in visited \/ ~should_consider_candidate(q.dist[n])
  <2>1. UNCHANGED <<pc, candidate_set, top_candidates>>
    BY <1>1, <1>12
  <2>2. ASSUME Knn, n \notin visited
        PROVE  /\ Cardinality(top_candidates) >= limit
               /\ \A f \in top_candidates : q.dist[f] <= q.dist[n]
    <3>1. Cardinality(top_candidates) >= limit /\ lowerBound <= q.dist[n]
      BY <1>3, <1>4, <1>10, <1>12, <2>2, SMT
    <3> QED BY <1>3, <1>4, <1>9, <2>2, <3>1, SMT
  <2>3. ASSUME Knn
        PROVE  /\ \A m \in visited' :
                    \/ m \in candidate_set
                    \/ q.base[m] \subseteq visited' \cup todo'
                    \/ m \notin top_candidates /\ Cardinality(top_candidates) >= limit
               /\ \A m \in visited' \ top_candidates : Allowed(m) =>
                    /\ Cardinality(top_candidates) >= limit
                    /\ \A f \in top_candidates : q.dist[f] <= q.dist[m]
    BY <1>1, <1>9, <1>11, <2>2, <2>3
  <2>4. GroundInv'
    BY <1>1, <1>2, <1>8, <1>9, <2>1, <2>3 DEF GroundInv, NoFurther, Full
  <2> QED BY <1>2, <1>5, <1>6, <1>7, <2>1, <2>4 DEF IInv, ResultInv, LocalOptimum
<1>13. CASE n \notin visited /\ should_consider_candidate(q.dist[n])
  <2>1. /\ candidate_set' = candidate_set \cup {n} /\ pc' = "trim"
        /\ \/ Allowed(n) /\ top_candidates' = top_candidates \cup {n}
           \/ ~Allowed(n) /\ top_candidates' = top_candidates
    BY <1>1, <1>13
  <2>2. ASSUME Knn
        PROVE  /\ Cardinality(top_candidates') <= limit + 1
               /\ Cardinality(top_candidates') >= Cardinality(top_candidates)
    <3>1. n \notin top_candidates
      BY <1>9, <1>13, <2>2
    <3>2. Cardinality(top_candidates \cup {n}) = Cardinality(top_candidates) + 1
      BY <1>3, <3>1, OneMore
    <3>3. \/ Cardinality(top_candidates') = Cardinality(top_candidates) + 1
          \/ Cardinality(top_candidates') = Cardinality(top_candidates)
      BY <2>1, <3>2
    <3>4. Cardinality(top_candidates) <= limit
      BY <1>9, <2>2
    <3> QED BY <1>4, <3>3, <3>4, SMT
  <2>3. ASSUME Knn, NEW m \in visited' \ top_candidates', Allowed(m)
        PROVE  /\ Cardinality(top_candidates') >= limit
               /\ \A f \in top_candidates' : q.dist[f] <= q.dist[m]
    <3>1. m \in visited \ top_candidates
      BY <1>1, <2>1, <2>3
    <3>2. /\ Cardinality(top_candidates) >= limit
          /\ \A f \in top_candidates : q.dist[f] <= q.dist[m]
      BY <1>9, <2>3, <3>1
    <3>3. Cardinality(top_candidates') >= limit
      <4>1. Cardinality(top_candidates') \in Nat
        BY <1>5, FiniteNodes DEF TypeOK
      <4> QED BY <1>4, <2>2, <2>3, <3>2, <4>1, SMT
    <3>4. q.dist[n] < lowerBound
      BY <1>3, <1>4, <1>10, <1>13, <2>3, <3>2, SMT
    <3>5. top_candidates # {}
      BY <1>4, <3>2, FS_EmptySet, SMT
    <3>6. q.dist[n] <= q.dist[m]
      BY <1>3, <1>4, <1>9, <2>3, <3>1, <3>2, <3>4, <3>5, SMT
    <3> QED BY <2>1, <3>2, <3>3, <3>6
  <2>4. ASSUME Knn, NEW m \in visited'
        PROVE  \/ m \in candidate_set'
               \/ q.base[m] \subseteq visited' \cup todo'
               \/ m \notin top_candidates' /\ Cardinality(top_candidates') >= limit
    <3>1. CASE m = n
      BY <2>1, <3>1
    <3>2. CASE m # n
      <4>1. m \in visited
        BY <1>1, <3>2
      <4>2. Cardinality(top_candidates') \in Nat
        BY <1>5, FiniteNodes DEF TypeOK
      <4>3. Cardinality(top_candidates) >= limit => Cardinality(top_candidates') >= limit
        BY <1>4, <2>2, <2>4, <4>2, SMT
      <4>4. m \notin top_candidates => m \notin top_candidates'
        BY <2>1, <3>2
      <4> QED BY <1>9, <1>11, <2>1, <2>4, <4>1, <4>3, <4>4
    <3> QED BY <3>1, <3>2
  <2>5. ASSUME Knn
        PROVE  /\ currObj \in visited' /\ candidate_set' \subseteq visited'
               /\ top_candidates' \subseteq visited' /\ \A m \in top_candidates' : Allowed(m)
    BY <1>1, <1>9, <2>1, <2>5
  <2>6. GroundInv'
    BY <1>2, <1>8, <2>1, <2>2, <2>3, <2>4, <2>5 DEF GroundInv, NoFurther, Full
  <2> QED BY <1>2, <1>5, <1>6, <1>7, <2>1, <2>6 DEF IInv, ResultInv, LocalOptimum
<1> QED BY <1>12, <1>13

\* The furthest result goes as long as there is one too many.
LEMMA TrimIInv ==
  ASSUME IInv, Trim
  PROVE  IInv'
<1>1. /\ pc = "trim"
      /\ UNCHANGED <<q, currObj, level, changed, todo, visited, candidate_set, found>>
      /\ \/ /\ should_remove_extra
            /\ \E n \in Furthest(top_candidates) : top_candidates' = top_candidates \ {n}
            /\ UNCHANGED <<pc, lowerBound>>
         \/ /\ ~should_remove_extra
            /\ lowerBound' \in IF top_candidates = {} THEN {lowerBound}
                               ELSE {q.dist[n] : n \in Furthest(top_candidates)}
            /\ pc' = "search" /\ top_candidates' = top_candidates
  BY DEF Trim
<1>2. /\ TypeOK /\ DescentInv /\ GroundInv /\ ReachInv /\ q \in QueryType /\ q.num.limit >= 1
      /\ currObj \in Nodes /\ visited \subseteq Nodes /\ top_candidates \subseteq Nodes
      /\ lowerBound \in 0 .. MaxDist
  BY <1>1 DEF IInv, TypeOK
<1>3. /\ limit \in Nat /\ limit >= 1 /\ Cardinality(top_candidates) \in Nat /\ MaxDist \in Nat
      /\ \A m \in Nodes : q.dist[m] \in Nat /\ q.dist[m] < MaxDist
  BY <1>2, QueryFacts, FiniteNodes
<1>4. limit' = limit /\ (Knn' <=> Knn) /\ \A m : Allowed(m)' <=> Allowed(m)
  BY <1>1 DEF limit, wanted, Knn, Allowed
<1>5. \A S \in SUBSET Nodes : Closed(S)' <=> Closed(S)
  BY <1>1 DEF Closed
<1>6. pc' \in {"search", "trim"}
  BY <1>1
<1>7. ReachInv'
  BY <1>1, <1>2, <1>5, <1>6 DEF ReachInv
<1>8. ASSUME Knn
      PROVE  /\ currObj \in visited
             /\ candidate_set \subseteq visited /\ top_candidates \subseteq visited
             /\ \A m \in top_candidates : Allowed(m)
             /\ \A m \in visited :
                  \/ m \in candidate_set
                  \/ q.base[m] \subseteq visited \cup todo
                  \/ m \notin top_candidates /\ Cardinality(top_candidates) >= limit
             /\ \A m \in visited \ top_candidates : Allowed(m) =>
                  /\ Cardinality(top_candidates) >= limit
                  /\ \A f \in top_candidates : q.dist[f] <= q.dist[m]
             /\ Cardinality(top_candidates) <= limit + 1
  BY <1>1, <1>2, <1>8 DEF GroundInv, NoFurther, Full
<1>9. CASE should_remove_extra
  <2>1. PICK n \in Furthest(top_candidates) : top_candidates' = top_candidates \ {n}
    BY <1>1, <1>9
  <2>2. UNCHANGED <<pc, lowerBound>> /\ n \in top_candidates
    BY <1>1, <1>9, <2>1 DEF Furthest
  <2>3. TypeOK' /\ DescentInv'
    BY <1>1, <1>2, <2>1, <2>2 DEF TypeOK, DescentInv
  <2>4. ASSUME Knn PROVE Cardinality(top_candidates') = limit
    <3>1. Cardinality(top_candidates) > limit
      BY <1>9, <2>4, SizeKnn DEF should_remove_extra
    <3>2. Cardinality(top_candidates) = limit + 1
      BY <1>3, <1>8, <2>4, <3>1, SMT
    <3>3. Cardinality(top_candidates') = Cardinality(top_candidates) - 1
      BY <1>2, <2>1, <2>2, OneLess
    <3> QED BY <1>3, <3>2, <3>3, SMT
  <2>5. ASSUME Knn, NEW m \in visited \ top_candidates', Allowed(m)
        PROVE  \A f \in top_candidates' : q.dist[f] <= q.dist[m]
    <3>1. CASE m = n
      BY <2>1, <3>1 DEF Furthest
    <3>2. CASE m # n
      BY <1>8, <2>1, <2>5, <3>2
    <3> QED BY <3>1, <3>2
  <2>6. ASSUME Knn, NEW m \in visited
        PROVE  \/ m \in candidate_set
               \/ q.base[m] \subseteq visited \cup todo
               \/ m \notin top_candidates'
    BY <1>8, <2>1, <2>6
  <2>7. limit >= limit /\ limit <= limit + 1
    BY <1>3, SMT
  <2>8. GroundInv'
    BY <1>1, <1>4, <1>8, <2>1, <2>2, <2>4, <2>5, <2>6, <2>7 DEF GroundInv, NoFurther, Full
  <2> QED BY <1>1, <1>7, <2>2, <2>3, <2>8 DEF IInv, ResultInv, LocalOptimum
<1>10. CASE ~should_remove_extra
  <2>1. /\ pc' = "search" /\ top_candidates' = top_candidates
        /\ lowerBound' \in IF top_candidates = {} THEN {lowerBound}
                           ELSE {q.dist[n] : n \in Furthest(top_candidates)}
    BY <1>1, <1>10
  <2>2. \/ top_candidates = {} /\ lowerBound' = lowerBound
        \/ \E n \in Furthest(top_candidates) : lowerBound' = q.dist[n]
    BY <2>1
  <2>3. \/ top_candidates = {} /\ lowerBound' = lowerBound
        \/ /\ \E n \in top_candidates : lowerBound' = q.dist[n]
           /\ \A f \in top_candidates : q.dist[f] <= lowerBound'
    BY <2>2 DEF Furthest
  <2>4. lowerBound' \in 0 .. MaxDist
    BY <1>2, <1>3, <2>3, SMT
  <2>5. TypeOK' /\ DescentInv'
    BY <1>1, <1>2, <2>1, <2>4 DEF TypeOK, DescentInv
  <2>6. ASSUME Knn PROVE Cardinality(top_candidates) <= limit
    BY <1>3, <1>10, <2>6, SizeKnn, SMT DEF should_remove_extra
  <2>7. GroundInv'
    BY <1>1, <1>4, <1>8, <2>1, <2>3, <2>6 DEF GroundInv, NoFurther, Full
  <2> QED BY <1>1, <1>7, <2>1, <2>5, <2>7 DEF IInv, ResultInv, LocalOptimum
<1> QED BY <1>9, <1>10

\* The furthest results beyond k go.
LEMMA DropIInv ==
  ASSUME IInv, Drop
  PROVE  IInv'
<1>1. PICK n \in Furthest(top_candidates) : top_candidates' = top_candidates \ {n}
  BY DEF Drop
<1>2. /\ pc = "results" /\ TooMany /\ n \in top_candidates
      /\ UNCHANGED <<q, pc, currObj, level, changed, todo, visited, candidate_set, lowerBound, found>>
  BY DEF Drop, Furthest
<1>3. TypeOK' /\ DescentInv'
  BY <1>1, <1>2 DEF IInv, TypeOK, DescentInv
<1>4. LocalOptimum'
  <2>1. limit' = limit /\ \A m : Allowed(m)' <=> Allowed(m)
    BY <1>2 DEF limit, wanted, Allowed
  <2> QED BY <1>2, <2>1 DEF IInv, LocalOptimum
<1>5. ResultInv'
  <2>1. /\ limit' = limit /\ wanted' = wanted /\ all' = all /\ (Knn' <=> Knn)
    BY <1>2 DEF limit, wanted, all, Reachable, Knn, Allowed
  <2> SUFFICES ASSUME Knn, q.entry # None
               PROVE  /\ top_candidates' \subseteq found
                      /\ \A m \in top_candidates', k \in found \ top_candidates' : q.dist[m] <= q.dist[k]
                      /\ Cardinality(top_candidates') >= wanted
    BY <1>2, <2>1 DEF IInv, ResultInv, NoFurther
  <2>2. /\ top_candidates \subseteq found /\ top_candidates \subseteq Nodes
        /\ \A m \in top_candidates, k \in found \ top_candidates : q.dist[m] <= q.dist[k]
        /\ q \in QueryType /\ q.num.limit >= 1
    BY <1>2 DEF IInv, ResultInv, NoFurther, TypeOK
  <2>3. Cardinality(top_candidates) > wanted
    BY <1>2 DEF TooMany, Knn
  <2>4. wanted \in Nat /\ Cardinality(top_candidates) \in Nat
    BY <2>2, QueryFacts, FiniteNodes
  <2>5. Cardinality(top_candidates') = Cardinality(top_candidates) - 1
    BY <1>1, <1>2, <2>2, OneLess
  <2>6. Cardinality(top_candidates') >= wanted
    BY <2>3, <2>4, <2>5, SMT
  <2>7. ASSUME NEW m \in top_candidates', NEW k \in found \ top_candidates'
        PROVE  q.dist[m] <= q.dist[k]
    BY <1>1, <2>2 DEF Furthest
  <2> QED BY <1>1, <2>2, <2>6, <2>7
<1> QED BY <1>2, <1>3, <1>4, <1>5 DEF IInv, GroundInv, ReachInv

\* The search returns.
LEMMA ReturnIInv ==
  ASSUME IInv, Return
  PROVE  IInv'
<1>1. /\ pc = "results" /\ ~TooMany /\ pc' = "done"
      /\ UNCHANGED <<q, currObj, level, changed, todo, visited, candidate_set,
                     top_candidates, lowerBound, found>>
  BY DEF Return
<1>2. TypeOK' /\ DescentInv'
  BY <1>1 DEF IInv, TypeOK, DescentInv
<1>3. limit' = limit /\ wanted' = wanted /\ all' = all /\ (Knn' <=> Knn)
      /\ \A m : Allowed(m)' <=> Allowed(m)
  BY <1>1 DEF limit, wanted, all, Reachable, Knn, Allowed
<1>4. LocalOptimum'
  BY <1>1, <1>3 DEF IInv, LocalOptimum
<1>5. ASSUME Knn PROVE Cardinality(top_candidates) <= wanted
  <2>1. ~(Cardinality(top_candidates) > wanted)
    BY <1>1, <1>5 DEF TooMany, Knn
  <2>2. wanted \in Nat /\ Cardinality(top_candidates) \in Nat
    BY QueryFacts, FiniteNodes DEF IInv, TypeOK
  <2> QED BY <2>1, <2>2, SMT
<1>6. ResultInv'
  BY <1>1, <1>3, <1>5 DEF IInv, ResultInv, NoFurther
<1> QED BY <1>1, <1>2, <1>4, <1>6 DEF IInv, GroundInv, ReachInv

\* Every step keeps the invariant.
LEMMA NextIInv == IInv /\ [Next]_vars => IInv'
<1> SUFFICES ASSUME IInv, [Next]_vars PROVE IInv'
  OBVIOUS
<1>1. CASE UNCHANGED vars
  <2>1. /\ UNCHANGED <<q, pc, currObj, level, changed, todo, visited, candidate_set,
                       top_candidates, lowerBound, found>>
    BY <1>1 DEF vars
  <2>2. limit' = limit /\ wanted' = wanted /\ all' = all /\ (Knn' <=> Knn) /\ (Full' <=> Full)
        /\ \A m : Allowed(m)' <=> Allowed(m)
    BY <2>1 DEF limit, wanted, all, Reachable, Knn, Allowed, Full
  <2>3. TypeOK' /\ DescentInv'
    BY <2>1 DEF IInv, TypeOK, DescentInv
  <2>4. LocalOptimum'
    BY <2>1, <2>2 DEF IInv, LocalOptimum
  <2>5. GroundInv' /\ ReachInv' /\ ResultInv'
    BY <2>1, <2>2 DEF IInv, GroundInv, ReachInv, ResultInv, NoFurther, Closed
  <2> QED BY <2>3, <2>4, <2>5 DEF IInv
<1>2. CASE Next
  BY <1>2, EnterIInv, DescendIInv, NextListIInv, StartIInv, ExpandIInv, NoCandidateIInv,
     VisitIInv, TrimIInv, DropIInv, ReturnIInv DEF Next
<1> QED BY <1>1, <1>2

\* On every graph, with every ef and k and whatever is deleted or filtered out,
\* searchKnn ends at a local optimum.
THEOREM SearchIsLocallyOptimal == Spec => []LocalOptimum
<1>1. IInv => LocalOptimum
  BY DEF IInv
<1> QED BY <1>1, InitIInv, NextIInv, PTL DEF Spec

\* On every graph searchKnn returns k live, allowed elements, or all that can be
\* reached if they are fewer, and the nearest of them if ef covers them.
THEOREM SearchReturnsK == Spec => []KnnResults
<1>1. IInv => KnnResults
  <2> SUFFICES ASSUME IInv, pc = "done", q.entry # None, Knn
               PROVE  /\ top_candidates \subseteq all
                      /\ Cardinality(top_candidates) = Minimum(wanted, Cardinality(all))
                      /\ Cardinality(all) <= limit =>
                           \A m \in top_candidates, n \in all \ top_candidates :
                               q.dist[m] <= q.dist[n]
    BY DEF KnnResults, Returned, Knn, all
  <2>1. /\ found \subseteq all /\ top_candidates \subseteq found
        /\ Cardinality(found) >= limit \/ found = all
        /\ \A m \in top_candidates, n \in found \ top_candidates : q.dist[m] <= q.dist[n]
        /\ Cardinality(top_candidates) >= wanted \/ top_candidates = found
        /\ Cardinality(top_candidates) <= wanted
    BY DEF IInv, ResultInv, NoFurther
  <2>2. all \in SUBSET Nodes /\ found \in SUBSET Nodes /\ top_candidates \in SUBSET Nodes
    BY <2>1 DEF all, Reachable
  <2>3. /\ IsFiniteSet(all) /\ Cardinality(all) \in Nat /\ Cardinality(found) \in Nat
        /\ Cardinality(top_candidates) \in Nat
    BY <2>2, FiniteNodes
  <2>4. /\ Cardinality(found) <= Cardinality(all)
        /\ Cardinality(found) = Cardinality(all) => found = all
        /\ Cardinality(top_candidates) <= Cardinality(all)
    BY <2>1, <2>3, FS_Subset
  <2>5. wanted \in Nat /\ limit \in Nat /\ wanted <= limit
    BY QueryFacts DEF IInv, TypeOK
  <2>6. Cardinality(top_candidates) = Minimum(wanted, Cardinality(all))
    <3>1. CASE Cardinality(top_candidates) >= wanted
      BY <2>1, <2>3, <2>4, <2>5, <3>1, SMT DEF Minimum
    <3>2. CASE top_candidates = found /\ Cardinality(found) >= limit
      BY <2>1, <2>3, <2>4, <2>5, <3>2, SMT DEF Minimum
    <3>3. CASE top_candidates = found /\ found = all
      BY <2>1, <2>3, <2>5, <3>3, SMT DEF Minimum
    <3> QED BY <2>1, <3>1, <3>2, <3>3
  <2>7. Cardinality(all) <= limit => found = all
    BY <2>1, <2>3, <2>4, <2>5, SMT
  <2> QED BY <2>1, <2>6, <2>7
<1> QED BY <1>1, InitIInv, NextIInv, PTL DEF Spec

=============================================================================

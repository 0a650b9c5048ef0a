-------------------------- MODULE VisitedListPool --------------------------
(***************************************************************************)
(* The pool of visited lists of hnswlib/visited_list_pool.h and the way    *)
(* every graph search uses it: take a list, bump its tag, mark slots with  *)
(* the tag, give the list back.  A list is never cleared between searches; *)
(* only when its tag wraps around does reset() zero the whole array.       *)
(***************************************************************************)
EXTENDS Naturals, Sequences

CONSTANTS Threads,  \* threads that search or insert
          Slots,    \* internal ids: the indices of VisitedList::mass
          Lists,    \* identities (addresses) of VisitedList objects
          NoList,   \* a thread that holds no list
          MaxTag    \* largest value of vl_type, 65535 in the code

ASSUME PoolAssumption ==
    /\ MaxTag \in Nat \ {0}
    /\ NoList \notin Lists
    /\ Lists # {}

VARIABLES at,    \* where each thread is in getFreeVisitedList / its search
          vl,    \* the list each thread holds
          pool,  \* the deque, front first
          free,  \* list identities that no live object has
          curV,  \* VisitedList::curV
          mass   \* VisitedList::mass

poolVars == <<at, vl, pool, free, curV, mass>>

Tags == 0 .. MaxTag

PoolTypeOK ==
    /\ at \in [Threads -> {"idle", "reset", "search"}]
    /\ vl \in [Threads -> Lists \cup {NoList}]
    /\ pool \in Seq(Lists)
    /\ free \subseteq Lists
    /\ curV \in [Lists -> Tags]
    /\ mass \in [Lists -> [Slots -> Tags]]
-----------------------------------------------------------------------------
(* VisitedListPool(1, n) puts one list in the deque.  A new list starts at *)
(* the largest tag (curV = -1) and its array is uninitialised memory.      *)
PoolInit ==
    /\ at = [t \in Threads |-> "idle"]
    /\ vl = [t \in Threads |-> NoList]
    /\ curV = [l \in Lists |-> MaxTag]
    /\ \E first \in Lists, garbage \in [Slots -> Tags] :
        /\ pool = <<first>>
        /\ free = Lists \ {first}
        /\ mass = [l \in Lists |-> garbage]

\* new VisitedList(numelements) for thread t.
NewVisitedList(t) ==
    \E l \in free, garbage \in [Slots -> Tags] :
        /\ vl' = [vl EXCEPT ![t] = l]
        /\ free' = free \ {l}
        /\ curV' = [curV EXCEPT ![l] = MaxTag]
        /\ mass' = [mass EXCEPT ![l] = garbage]

\* getFreeVisitedList that leaves the list it returns in the deque.
GetFreeVisitedListNoPop(t) ==
    /\ at[t] = "idle"
    /\ pool # <<>>
    /\ vl' = [vl EXCEPT ![t] = Head(pool)]
    /\ at' = [at EXCEPT ![t] = "reset"]
    /\ UNCHANGED <<pool, free, curV, mass>>

\* The list that getFreeVisitedList takes while it holds poolguard: the front
\* of the deque, or a new object when the deque is empty.
GetFreeVisitedList(t) ==
    /\ at[t] = "idle"
    /\ \/ /\ pool # <<>>
          /\ vl' = [vl EXCEPT ![t] = Head(pool)]
          /\ pool' = Tail(pool)
          /\ UNCHANGED <<free, curV, mass>>
       \/ /\ pool = <<>>
          /\ NewVisitedList(t)
          /\ UNCHANGED pool
    /\ at' = [at EXCEPT ![t] = "reset"]

\* reset() that trusts the old array when the tag wraps around.
ResetNoMemset(t) ==
    LET l == vl[t]
        tag == (curV[l] + 1) % (MaxTag + 1)
    IN  /\ at[t] = "reset"
        /\ curV' = [curV EXCEPT ![l] = IF tag = 0 THEN 1 ELSE tag]
        /\ at' = [at EXCEPT ![t] = "search"]
        /\ UNCHANGED <<vl, pool, free, mass>>

\* reset() with a tag wider than the entries of the array.
ResetNoWrap(t) ==
    /\ at[t] = "reset"
    /\ curV' = [curV EXCEPT ![vl[t]] = @ + 1]
    /\ at' = [at EXCEPT ![t] = "search"]
    /\ UNCHANGED <<vl, pool, free, mass>>

\* rez->reset(), outside poolguard: the tag goes up by one; if that wraps to 0
\* the array is zeroed and the tag goes to 1.
Reset(t) ==
    LET l == vl[t]
        tag == (curV[l] + 1) % (MaxTag + 1)
    IN  /\ at[t] = "reset"
        /\ \/ /\ tag # 0
              /\ curV' = [curV EXCEPT ![l] = tag]
              /\ UNCHANGED mass
           \/ /\ tag = 0
              /\ curV' = [curV EXCEPT ![l] = 1]
              /\ mass' = [mass EXCEPT ![l] = [i \in Slots |-> 0]]
        /\ at' = [at EXCEPT ![t] = "search"]
        /\ UNCHANGED <<vl, pool, free>>

\* The search marks a slot it has not visited: the entry point, and every
\* neighbour whose entry in the array is not the current tag.
MarkVisited(t, i) ==
    /\ at[t] = "search"
    /\ mass[vl[t]][i] # curV[vl[t]]
    /\ mass' = [mass EXCEPT ![vl[t]][i] = curV[vl[t]]]
    /\ UNCHANGED <<at, vl, pool, free, curV>>

\* releaseVisitedList, under poolguard.
ReleaseVisitedList(t) ==
    /\ at[t] = "search"
    /\ pool' = <<vl[t]>> \o pool
    /\ vl' = [vl EXCEPT ![t] = NoList]
    /\ at' = [at EXCEPT ![t] = "idle"]
    /\ UNCHANGED <<free, curV, mass>>

\* A filter functor may throw inside searchBaseLayerST: the search unwinds
\* without releasing its list.  Nobody refers to the leaked object any more, so
\* its identity may stand for a later object.
Unwind(t) ==
    /\ at[t] = "search"
    /\ free' = free \cup {vl[t]}
    /\ vl' = [vl EXCEPT ![t] = NoList]
    /\ at' = [at EXCEPT ![t] = "idle"]
    /\ UNCHANGED <<pool, curV, mass>>

PoolNext ==
    \E t \in Threads :
        \/ GetFreeVisitedList(t)
        \/ Reset(t)
        \/ \E i \in Slots : MarkVisited(t, i)
        \/ ReleaseVisitedList(t)
        \/ Unwind(t)

PoolSpec == PoolInit /\ [][PoolNext]_poolVars
-----------------------------------------------------------------------------
InPool == {pool[k] : k \in 1 .. Len(pool)}

\* A list has one user: no two threads hold the same list, no held list can be
\* handed out again (it is neither in the deque nor counted as unused), and the
\* deque never holds a list twice.  Two threads marking one array would each
\* skip the slots the other has visited (searchBaseLayer's visited_array).
ExclusiveUse ==
    /\ \A t, u \in Threads : vl[t] # NoList /\ vl[t] = vl[u] => t = u
    /\ \A t \in Threads : vl[t] \notin InPool \cup free
    /\ \A j, k \in 1 .. Len(pool) : pool[j] = pool[k] => j = k
    /\ InPool \cap free = {}

\* The slots that the current tag of t's list says t has visited.
VisitedBy(t) ==
    IF at[t] = "search"
    THEN {i \in Slots : mass[vl[t]][i] = curV[vl[t]]}
    ELSE {}

Abstract == INSTANCE VisitedSet WITH
    searching <- {t \in Threads : at[t] = "search"},
    visited   <- [t \in Threads |-> VisitedBy(t)]

\* Reusing lists and wrapping tags is invisible to a search: what a search reads
\* off the array is exactly a private set that starts empty and grows only by
\* the search's own marks, whatever earlier searches left in the array.
ImplementsVisitedSet == Abstract!Spec
=============================================================================

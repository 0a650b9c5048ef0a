------------------------------- MODULE Search -------------------------------
(***************************************************************************)
(* One search of the graph (hnswalg.h: searchKnn, searchStopConditionClosest *)
(* and searchBaseLayerST; stop_condition.h): a greedy descent through the  *)
(* upper levels, a best-first search of the ground level, and the choice   *)
(* of the results.  The graph, the distances to the query, the deleted and *)
(* filtered-out elements and the parameters are a member of Queries.       *)
(*                                                                         *)
(* The queues of the code compare by distance only, so which of several    *)
(* elements at the same distance comes first is left open, and so is the   *)
(* order of the elements in a link list.                                   *)
(***************************************************************************)
EXTENDS Integers, FiniteSets, Sequences

CONSTANTS
    Nodes,      \* internal ids
    Docs,       \* document ids of a MultiVector space
    MaxDist,    \* numeric_limits<dist_t>::max()
    None,
    Queries     \* a sequence of sets of records of the form below

\* mode: searchKnn without deletions and filter ("bare"), with them ("knn"),
\* or searchStopConditionClosest by documents ("docs") or by radius ("epsilon").
\* num.wanted is k, num_docs_to_search or min_num_candidates; num.limit is ef_,
\* ef_collection or max_num_candidates.
QueryType ==
    [mode : {"bare", "knn", "docs", "epsilon"}, entry : Nodes \cup {None},
     upper : Seq([Nodes -> SUBSET Nodes]), base : [Nodes -> SUBSET Nodes],
     dist : [Nodes -> 0 .. MaxDist - 1], rejected : SUBSET Nodes, doc : [Nodes -> Docs],
     num : [wanted : Nat, limit : Nat], epsilon : 0 .. MaxDist]

ASSUME SearchAssumption ==
    /\ MaxDist \in Nat /\ IsFiniteSet(Nodes) /\ None \notin Nodes
    /\ \A i \in DOMAIN Queries : \A q \in Queries[i] :
        /\ q \in QueryType
        /\ q.mode = "bare" => q.rejected = {}
        /\ q.num.limit >= 1
        /\ q.mode = "epsilon" => q.num.wanted <= q.num.limit
        \* Documents are told apart by distance: no two elements are equally far.
        /\ q.mode = "docs" => \A m, n \in Nodes : m # n => q.dist[m] # q.dist[n]

VARIABLES
    q,              \* the query
    pc,
    currObj, level, changed,
    todo,           \* elements of the link list still to be looked at
    visited, candidate_set, top_candidates, lowerBound,
    doc_counter, curr_num_docs, search_results,     \* MultiVectorSearchStopCondition
    curr_num_items,                                 \* EpsilonSearchStopCondition
    found           \* history: top_candidates when the ground level was left

vars == <<q, pc, currObj, level, changed, todo, visited, candidate_set, top_candidates,
          lowerBound, doc_counter, curr_num_docs, search_results, curr_num_items, found>>
condition == <<doc_counter, curr_num_docs, search_results, curr_num_items>>

Init ==
    /\ \E i \in DOMAIN Queries : q \in Queries[i]
    /\ pc = "enter" /\ currObj = None /\ level = 0 /\ changed = FALSE
    /\ todo = {} /\ visited = {} /\ candidate_set = {} /\ top_candidates = {}
    /\ lowerBound = MaxDist
    /\ doc_counter = [d \in Docs |-> 0] /\ curr_num_docs = 0 /\ search_results = {}
    /\ curr_num_items = 0
    /\ found = {}

wanted == q.num.wanted

\* max(ef_, k), max(ef_collection, num_docs_to_search) or max_num_candidates.
limit == IF q.num.limit < wanted THEN wanted ELSE q.num.limit

Allowed(n) == n \notin q.rejected
Furthest(S) == {n \in S : \A m \in S : q.dist[m] <= q.dist[n]}

\* The key of a candidate: a rejected start is queued at the greatest distance.
Key(n) == IF n = currObj /\ ~Allowed(n) THEN MaxDist ELSE q.dist[n]
Closest(S) == {n \in S : \A m \in S : Key(n) <= Key(m)}

-----------------------------------------------------------------------------
(* The upper levels.                                                       *)

Enter ==
    /\ pc = "enter"
    /\ currObj' = q.entry /\ level' = Len(q.upper)
    /\ IF q.entry = None THEN pc' = "done" /\ UNCHANGED todo
       ELSE IF q.upper = << >> THEN pc' = "start" /\ UNCHANGED todo
       ELSE pc' = "descend" /\ todo' = q.upper[level'][q.entry]
    /\ UNCHANGED <<q, changed, visited, candidate_set, top_candidates, lowerBound,
                   condition, found>>

\* Mutant form: an element at the same distance counts as closer.
LookNotStrict(n) ==
    IF q.dist[n] <= q.dist[currObj] THEN currObj' = n /\ changed' = TRUE
    ELSE UNCHANGED <<currObj, changed>>

\* The rest of a list is looked at although currObj has moved away from it.
Look(n) ==
    IF q.dist[n] < q.dist[currObj] THEN currObj' = n /\ changed' = TRUE
    ELSE UNCHANGED <<currObj, changed>>

Descend ==
    /\ pc = "descend"
    /\ \E n \in todo : Look(n) /\ todo' = todo \ {n}
    /\ UNCHANGED <<q, pc, level, visited, candidate_set, top_candidates, lowerBound,
                   condition, found>>

\* Again from the new currObj, or down a level.
NextList ==
    /\ pc = "descend" /\ todo = {}
    /\ changed' = FALSE
    /\ level' = IF changed THEN level ELSE level - 1
    /\ IF level' = 0 THEN pc' = "start" /\ UNCHANGED todo
                     ELSE todo' = q.upper[level'][currObj] /\ UNCHANGED pc
    /\ UNCHANGED <<q, currObj, visited, candidate_set, top_candidates, lowerBound,
                   condition, found>>

-----------------------------------------------------------------------------
(* The stop conditions.                                                    *)

add_point_to_result(n) ==
    CASE q.mode = "docs" ->
           /\ doc_counter' = [doc_counter EXCEPT ![q.doc[n]] = @ + 1]
           /\ curr_num_docs' = curr_num_docs + (IF doc_counter[q.doc[n]] = 0 THEN 1 ELSE 0)
           /\ search_results' = search_results \cup {<<q.dist[n], q.doc[n]>>}
           /\ UNCHANGED curr_num_items
      [] q.mode = "epsilon" ->
           curr_num_items' = curr_num_items + 1
           /\ UNCHANGED <<doc_counter, curr_num_docs, search_results>>
      [] OTHER -> UNCHANGED condition

\* The furthest pair of search_results_.
Last == CHOOSE r \in search_results : \A s \in search_results : s[1] <= r[1]

\* One element of document d and the furthest pair, whatever its document, go.
Forget(d) ==
    /\ doc_counter' = [doc_counter EXCEPT ![d] = @ - 1]
    /\ curr_num_docs' = curr_num_docs - (IF doc_counter[d] = 1 THEN 1 ELSE 0)
    /\ search_results' = search_results \ {Last}
    /\ UNCHANGED curr_num_items

remove_point_from_result(n) ==
    CASE q.mode = "docs" -> Forget(q.doc[n])
      [] q.mode = "epsilon" ->
           curr_num_items' = curr_num_items - 1
           /\ UNCHANGED <<doc_counter, curr_num_docs, search_results>>
      [] OTHER -> UNCHANGED condition

\* What is counted against the limit.
Size ==
    CASE q.mode = "docs" -> curr_num_docs
      [] q.mode = "epsilon" -> curr_num_items
      [] OTHER -> Cardinality(top_candidates)

\* Mutant form: no look at the number of elements found.
should_stop_searchBare(d) == d > lowerBound

\* A bare search does not look at the size of what it has found.
should_stop_search(d) ==
    \/ d > lowerBound /\ (q.mode = "bare" \/ Size = limit)
    \/ q.mode = "epsilon" /\ d > q.epsilon /\ curr_num_items >= wanted

\* Mutant form: a full result is never improved.
should_consider_candidateFull(d) == Size < limit

should_consider_candidate(d) == Size < limit \/ lowerBound > d

should_remove_extra == Size > limit

-----------------------------------------------------------------------------
(* The ground level.                                                       *)

\* A deleted or filtered-out start is a candidate but not a result.
Start ==
    /\ pc = "start"
    /\ visited' = {currObj} /\ candidate_set' = {currObj}
    /\ IF Allowed(currObj)
       THEN /\ top_candidates' = {currObj} /\ lowerBound' = q.dist[currObj]
            /\ add_point_to_result(currObj)
       ELSE /\ lowerBound' = MaxDist
            /\ UNCHANGED <<top_candidates, condition>>
    /\ pc' = "search"
    /\ UNCHANGED <<q, currObj, level, changed, todo, found>>

\* The closest candidate ends the search or has its list looked at.
Expand ==
    /\ pc = "search" /\ todo = {}
    /\ \E c \in Closest(candidate_set) :
        IF should_stop_search(Key(c))
        THEN pc' = "results" /\ found' = top_candidates /\ UNCHANGED <<todo, candidate_set>>
        ELSE /\ candidate_set' = candidate_set \ {c} /\ todo' = q.base[c]
             /\ UNCHANGED <<pc, found>>
    /\ UNCHANGED <<q, currObj, level, changed, visited, top_candidates, lowerBound, condition>>

NoCandidate ==
    /\ pc = "search" /\ todo = {} /\ candidate_set = {}
    /\ pc' = "results" /\ found' = top_candidates
    /\ UNCHANGED <<q, currObj, level, changed, todo, visited, candidate_set,
                   top_candidates, lowerBound, condition>>

\* One element of the list, if not seen before, becomes a candidate and, unless
\* rejected, a result.
Visit ==
    /\ pc = "search"
    /\ \E n \in todo :
        /\ todo' = todo \ {n} /\ visited' = visited \cup {n}
        /\ IF n \in visited \/ ~should_consider_candidate(q.dist[n])
           THEN UNCHANGED <<pc, candidate_set, top_candidates, condition>>
           ELSE /\ candidate_set' = candidate_set \cup {n}
                /\ IF Allowed(n)
                   THEN top_candidates' = top_candidates \cup {n} /\ add_point_to_result(n)
                   ELSE UNCHANGED <<top_candidates, condition>>
                /\ pc' = "trim"
    /\ UNCHANGED <<q, currObj, level, changed, lowerBound, found>>

Trim ==
    /\ pc = "trim"
    /\ IF should_remove_extra
       THEN /\ \E n \in Furthest(top_candidates) :
                 top_candidates' = top_candidates \ {n} /\ remove_point_from_result(n)
            /\ UNCHANGED <<pc, lowerBound>>
       ELSE /\ lowerBound' \in IF top_candidates = {} THEN {lowerBound}
                               ELSE {q.dist[n] : n \in Furthest(top_candidates)}
            /\ pc' = "search"
            /\ UNCHANGED <<top_candidates, condition>>
    /\ UNCHANGED <<q, currObj, level, changed, todo, visited, candidate_set, found>>

-----------------------------------------------------------------------------
(* The results.                                                            *)

\* Mutant form: the region is not looked at again.
TooManyNoEpsilon ==
    CASE q.mode = "docs" -> curr_num_docs > wanted
      [] q.mode = "epsilon" -> Cardinality(top_candidates) > limit
      [] OTHER -> Cardinality(top_candidates) > wanted

\* Mutant form: documents are counted by their elements.
TooManyElements ==
    CASE q.mode = "docs" -> Cardinality(top_candidates) > wanted
      [] q.mode = "epsilon" -> \/ \E n \in Furthest(top_candidates) : q.dist[n] > q.epsilon
                               \/ Cardinality(top_candidates) > limit
      [] OTHER -> Cardinality(top_candidates) > wanted

\* searchKnn keeps k; filter_results keeps the documents or the region asked for.
TooMany ==
    CASE q.mode = "docs" -> curr_num_docs > wanted
      [] q.mode = "epsilon" -> \/ \E n \in Furthest(top_candidates) : q.dist[n] > q.epsilon
                               \/ Cardinality(top_candidates) > limit
      [] OTHER -> Cardinality(top_candidates) > wanted

\* The documents' filter goes by search_results_, not by the element it drops.
Drop ==
    /\ pc = "results" /\ TooMany
    /\ \E n \in Furthest(top_candidates) : top_candidates' = top_candidates \ {n}
    /\ IF q.mode = "docs" THEN Forget(Last[2]) ELSE UNCHANGED condition
    /\ UNCHANGED <<q, pc, currObj, level, changed, todo, visited, candidate_set,
                   lowerBound, found>>

Return ==
    /\ pc = "results" /\ ~TooMany
    /\ pc' = "done"
    /\ UNCHANGED <<q, currObj, level, changed, todo, visited, candidate_set,
                   top_candidates, lowerBound, condition, found>>

Next ==
    \/ Enter \/ Descend \/ NextList
    \/ Start \/ Expand \/ NoCandidate \/ Visit \/ Trim
    \/ Drop \/ Return

\* A search is one thread that waits for nobody.
Spec == Init /\ [][Next]_vars /\ WF_vars(Next)

-----------------------------------------------------------------------------
(* Properties.                                                             *)

\* What can be reached from currObj over links of the ground level between
\* elements of W.
Reachable(W) ==
    {n \in W : \A S \in SUBSET W :
        currObj \in S /\ (\A m \in S : q.base[m] \cap W \subseteq S) => n \in S}

Minimum(a, b) == IF a < b THEN a ELSE b
Returned(modes) == pc = "done" /\ q.entry # None /\ q.mode \in modes

\* searchKnn returns live, allowed elements, k of them unless fewer can be
\* reached (only then knn_query throws), also when it starts from a deleted
\* element or stops without looking at the number found; and they are the k
\* nearest if ef is no less than the number that can be reached.
KnnResults ==
    Returned({"bare", "knn"}) =>
        LET all == {n \in Reachable(Nodes) : Allowed(n)}
        IN  /\ top_candidates \subseteq all
            /\ Cardinality(top_candidates) = Minimum(wanted, Cardinality(all))
            /\ Cardinality(all) <= limit =>
                 \A m \in top_candidates, n \in all \ top_candidates : q.dist[m] <= q.dist[n]

\* The search gives up at a local optimum only: no link leads from currObj to
\* anything closer on the level it came down from, and a live, allowed
\* neighbour of an element found on the ground level has been found too or
\* is no closer than all ef elements found.
LocalOptimum ==
    pc \in {"results", "done"} /\ q.entry # None =>
        /\ q.upper # << >> =>
             \A n \in q.upper[1][currObj] : q.dist[currObj] <= q.dist[n]
        /\ q.mode \in {"bare", "knn"} =>
             \A m \in found : \A n \in q.base[m] \ found : Allowed(n) =>
                 Cardinality(found) = limit /\ \A f \in found : q.dist[f] <= q.dist[n]

\* A search by radius returns live, allowed elements within the radius, at most
\* max_num_candidates_, and, if that does not bind and its start is among
\* them, all that can be reached without leaving the radius.
EpsilonRegion ==
    Returned({"epsilon"}) =>
        LET region == {n \in Nodes : q.dist[n] <= q.epsilon}
        IN  /\ top_candidates \subseteq {n \in region : Allowed(n)}
            /\ Cardinality(top_candidates) <= limit
            /\ Allowed(currObj) /\ currObj \in region /\ limit >= Cardinality(Nodes) =>
                 {n \in Reachable(region) : Allowed(n)} \subseteq top_candidates

\* A search by documents returns elements of exactly the number of documents
\* asked for, if that many can be reached, and its counters agree with the
\* elements it returns.
DocsFound ==
    Returned({"docs"}) =>
        LET docs == {q.doc[n] : n \in top_candidates}
            all == {q.doc[n] : n \in {m \in Reachable(Nodes) : Allowed(m)}}
        IN  /\ Cardinality(docs) = Minimum(wanted, Cardinality(all))
            /\ curr_num_docs = Cardinality(docs)
            /\ \A n \in top_candidates : Allowed(n)

\* Every search returns: each element is visited once.
SearchReturns == <>(pc = "done")

=============================================================================

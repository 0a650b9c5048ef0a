------------------------------ MODULE MCSearch ------------------------------
(***************************************************************************)
(* Queries on small graphs.  Distances do not fall with the number of the  *)
(* element, which costs no generality: only the order of distances counts. *)
(* Three elements are linked in every possible way; a few graphs of four   *)
(* elements have detours, dead ends and an upper level.                    *)
(***************************************************************************)
EXTENDS Search

N3 == 1 .. 3
N4 == 1 .. 4
Pad(f, last) == [n \in N4 |-> IF n \in N3 THEN f[n] ELSE last]

Dists == {d \in [N4 -> 1 .. 4] :
            d[1] = 1 /\ \A n \in N3 : d[n + 1] - d[n] \in {0, 1}}
Distinct == [n \in N4 |-> n]

\* All graphs without loops on the first three elements; the fourth is alone.
Graphs3 == {Pad(g, {}) : g \in {g \in [N3 -> SUBSET N3] : \A n \in N3 : n \notin g[n]}}

\* A chain whose far end is close, cycles one way, a star, two components, all
\* links, a detour.
Chain == <<{3}, {4}, {1, 4}, {3, 2}>>
Cycle == <<{3}, {1}, {4}, {2}>>
Star == <<{4}, {4}, {4}, {1, 2, 3}>>
Split == <<{2}, {1}, {4}, {3}>>
Ring == <<{2}, {3}, {4}, {1}>>
All == [n \in N4 |-> N4 \ {n}]
Detour == <<{2}, {1, 3}, {2, 4}, {2}>>
Graphs4 == {Chain, Cycle, Star, Split, Ring, All, Detour}
Upper == << <<{}, {4}, {4}, {2, 3}>>, <<{}, {4}, {}, {2}>> >>

OneDoc == [n \in N4 |-> 1]
Num(S) == {[wanted |-> s[1], limit |-> s[2]] : s \in S}
Sizes == Num({<<1, 1>>, <<1, 2>>, <<2, 1>>, <<2, 4>>})
Ordered3 == {d \in Dists : d[4] = d[3]}

Knn3 ==
    [mode : {"knn"}, entry : N3, upper : {<< >>}, base : Graphs3, dist : Ordered3,
     rejected : SUBSET N3, doc : {OneDoc}, num : Sizes, epsilon : {0}]

Bare3 ==
    [mode : {"bare"}, entry : N3, upper : {<< >>}, base : Graphs3, dist : Ordered3,
     rejected : {{}}, doc : {OneDoc}, num : Sizes, epsilon : {0}]

Knn4 ==
    [mode : {"knn"}, entry : {2, 4}, upper : {<< >>, Upper}, base : Graphs4, dist : Dists,
     rejected : SUBSET N4, doc : {OneDoc}, num : Sizes, epsilon : {0}]

Bare4 ==
    [mode : {"bare"}, entry : {2, 4}, upper : {<< >>, Upper}, base : Graphs4, dist : Dists,
     rejected : {{}}, doc : {OneDoc}, num : Sizes, epsilon : {0}]

Epsilon3 ==
    [mode : {"epsilon"}, entry : N3, upper : {<< >>}, base : Graphs3,
     dist : {Distinct, <<1, 1, 2, 2>>}, rejected : SUBSET {1, 2}, doc : {OneDoc},
     num : Num({<<0, 4>>, <<1, 1>>, <<2, 4>>}), epsilon : {1, 2}]

Docs3 ==
    [mode : {"docs"}, entry : N3, upper : {<< >>}, base : Graphs3, dist : {Distinct},
     rejected : {{}, {2}}, epsilon : {0}, num : Num({<<1, 1>>, <<1, 2>>, <<2, 1>>, <<1, 3>>}),
     doc : {<<1, 2, 2, 1>>, <<1, 2, 1, 1>>, <<1, 2, 3, 1>>, <<1, 1, 2, 1>>}]

Docs4 ==
    [mode : {"docs"}, entry : {4}, upper : {<< >>}, base : Graphs4, dist : {Distinct},
     rejected : {{}}, epsilon : {0}, num : Num({<<1, 1>>, <<1, 2>>, <<2, 1>>}),
     doc : [N4 -> {1, 2}]]

Empty ==
    [mode : {"knn"}, entry : {None}, upper : {<< >>}, base : {Chain}, dist : {Distinct},
     rejected : {{}}, doc : {OneDoc}, num : Sizes, epsilon : {0}]

MCQueries == <<Knn3, Bare3, Knn4, Bare4, Epsilon3, Docs3, Docs4, Empty>>

=============================================================================

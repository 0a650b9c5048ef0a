# TLA+ verification of hnsw-rvv

The repository is a vector-search program for RISC-V: a copy of the header
library hnswlib (`src/include/hnswlib/hnswlib`), extended with a distance
function for the RISC-V vector extension (RVV), its Python bindings, a search
driver, data-set tools, and a vendored gem5 simulator to run it on. This
directory models the library's state: what threads that share an index do to
each other, what the index promises its callers, what a search finds, what a
file cut short is taken for, and which components a distance function really
adds up.

## The system and its parts

| Part | Source | Module | Status |
|---|---|---|---|
| Visited lists and their pool | `visited_list_pool.h` | `VisitedListPool`, abstract `VisitedSet` | modelled, proved |
| Labels, deletion marks, slot replacement | `hnswalg.h` | `LabelTable`, abstract `LabelMap` | modelled, invariants and refinement proved |
| Graph construction and update | `hnswalg.h` | `GraphInsert`, lists in `NeighbourBags` | modelled, safety proved |
| Graph search, stop conditions | `hnswalg.h`, `stop_condition.h` | `Search` | modelled, k-nearest search proved |
| Save and load | `hnswalg.h`, `bindings.cpp` | `IndexFile`, action `Reload` of `LabelTable` | modelled, proved |
| Brute-force index | `bruteforce.h` | `BruteForce` | modelled |
| Distance functions and their choice | `space_l2.h`, `space_ip.h`, `hnswlib.h` | `DistanceKernels` | modelled |
| Python bindings | `bindings.cpp` | `AddItems` | `add_items` and `ParallelFor` modelled, safety proved |
| Driver, data-set tools, micro-benchmark | `src/src`, `src/tools`, `src/utils`, `src/test` | | not modelled: sequential input, output and timing |
| gem5, scripts | `src/gem5`, `src/script` | | not modelled: vendored, or starts experiments |

How they interact. `add_items` spreads rows over worker threads; each row is one
`addPoint`. `addPoint` takes the label's operation lock, finds or allots a slot
in the label table, and then inserts the slot into the graph or updates it. Every
search in the graph takes a visited list from the pool. All comparisons go
through the distance function the space chose. The models cut the system along
these interfaces:

- `AddItems` takes `addPoint` as one step (what `LabelTable` refines to, without
  deletion).
- `LabelTable` leaves the graph out: `InitElement` and `UpdatePoint` stand for
  the data written; the graph work they enclose touches none of its variables.
- `GraphInsert` starts where the slot is allotted. `Unclaimed` is what the label
  operation lock guarantees (`SlotIsOwned` of `LabelTable`).
- A search's `seen` set in `GraphInsert`, and `visited` in `Search`, is the
  private set `VisitedSet` that the pool is shown to implement.
- `Search` runs on a graph that stays as it is, since `add_items` is documented
  as not safe beside `knn_query`. `LinksWellFormed` is what it may assume of the
  graph, and it assumes less: any links, one-way ones and islands included.
- `IndexFile` takes an index as its number of elements and their levels; what
  loading does with labels and marks is `Reload` of `LabelTable`.

## The modules

### VisitedSet, VisitedListPool

`VisitedSet` is what a search needs: a private set that starts empty.
`VisitedListPool` is how it gets one: pooled arrays that are never cleared,
whose entries count as set when they equal the list's current tag. One action
per critical section: `GetFreeVisitedList` (under `poolguard`), `Reset` (outside
it), `MarkVisited`, `ReleaseVisitedList`, and `Unwind` for a search that a
throwing filter abandons without giving its list back. New arrays hold arbitrary
values, as `new vl_type[n]` leaves them. The tag wraps at `MaxTag` (65535 in the
code, 3 in the run, so that lists wrap again and again).

### LabelMap, LabelTable

`LabelTable` models `addPoint` (both overloads), `markDelete`, `unmarkDelete`,
`getDataByLabel`, `resizeIndex`, and a save followed by a load. A call holds one
of `NumLocks` label-operation locks from beginning to end; that a thread holds
it is its `pc` not being idle. Each critical section of `label_lookup_lock` and
`deleted_elements_lock` is an action, and so is each unlocked access between
two: `TakeVacant`, `Relabel`, `SwapLookup`, `AddLookup`, `MarkLookup`,
`UnmarkLookup`, `GetLookup`, `InitElement`, `Recheck`, `CheckMark`, `SetMark`,
`CountMark`, `InsertVacant`, `ClearMark`, `CountClear`, `EraseVacant`, `UpdatePoint`,
`ReadData`. `markDeletedInternal` and `unmarkDeletedInternal` write the mark under
no lock and change `num_deleted_` after it, so in between the two disagree by the
calls that are there. A throw returns like a normal end does: both release the lock
and nothing is rolled back. `Reload` rebuilds `label_lookup_`, `num_deleted_` and `deleted_elements`
from the saved labels and marks, for either value of `allow_replace_deleted`.

`Disciplined` states what the comments in the code ask of callers when
replacement is enabled (no `unmarkDelete`, no operation on deleted elements).
`ReplaceExisting` says whether callers also pass `replace_deleted` for a label
the index already has; the passing run and the proofs assume that they do not,
and the run `labels_replace_existing` shows what happens when they do.

`LabelMap` is the abstract promise, a bounded map from labels to vectors with
deletion marks. An element joins the map when its vector is written.

### GraphInsert

Threads insert and update nodes of one graph at the same time. Each critical
section of a node's lock is an action; an inserting thread holds its own node's
lock throughout, and the global lock as well when the node rises above the top
level. Distances are left out: whichever way a comparison could go is a
nondeterministic choice, bounded by what the code guarantees for every distance
(`Expand` keeps at most `EfConstruction` live candidates, `Heuristic` returns
between 1 and m of at least m candidates and leaves fewer alone). So what holds
here holds for all vectors. The exceptions of the code are the state "failed".

Lists are bags, so that a duplicate shows. `NeighbourBags` has the operators of
the standard module `Bags`, with the size of a bag as the number of its copies;
the standard definition is recursive, and the prover cannot reason about it.
`BagsAgree` in `MCGraphInsert` has TLC compare the two on all small bags.

Insertion: `BeginInsert`, `EnterGlobal`, `ReadEnterpoint` and `CopyEnterpoint` (the
reads of `enterpoint_node_` into `currObj` and `enterpoint_copy`, after the global
lock may have been released), `Descend`, `ReadEpDeleted`, `StartSearch`, `Expand`,
`ConnectInsert`, `LinkNeighbour`, `Finish`, `Raise`. Update: `BeginUpdate`,
`UpdateEnterpoint`, `OneHop`, `TwoHop`, `Rewire`, `BeginRepair`, and `Descend` to
`Finish` shared with insertion. `FlipMark` is `markDelete` and `unmarkDelete`;
`QuietMarks` restricts it to moments with no other call in progress. A search that
ends with no candidate goes on from an arbitrary element: the code takes `back()` of
an empty vector there (`hnswalg.h:524`).

### Search

One search, entry by entry. `Enter`, `Descend` and `NextList` are the greedy
descent, which goes on with the rest of a list although it has moved away from
its owner; `Start`, `Expand`, `Visit` and `Trim` the best-first search of
`searchBaseLayerST`; `Drop` and `Return` the cut to k or `filter_results`. `mode`
tells the four searches of the code apart: `searchKnn` without deletions and
filter ("bare", which stops by distance alone), with them ("knn"), and
`searchStopConditionClosest` by documents ("docs") or by radius ("epsilon"). The
stop conditions keep their counters and names. The graph, the distances, the
rejected (deleted or filtered-out) elements and the parameters are inputs. The
queues compare by distance only, so any of several elements at the same distance
may come first. A rejected start is queued at the greatest distance, and `Key`
says so.

Search by documents assumes that no two elements are equally far:
`filter_results` drops the last candidate but counts down the document of the
last pair of its own queue, and with a tie these may differ, so that the result
has elements of a document that is no longer counted.

### IndexFile

`saveIndex` writes the header and the ground level, then element by element the
size of the upper lists and the lists. `DiskFull` and `Crash` cut what has
been written at any byte; the first goes unnoticed by `saveIndex`, which does not
look at its stream, and the old file is gone in both cases, since opening empties
it. `loadIndex` is `LoadHeader` (of a header cut short any count may come out),
`CheckList` and `CheckEnd` (the sums over the whole file), `LoadList` and
`LoadDone`. A failed stream answers -1 for its position and is never repaired by
the check. `appr_alg` is "dangling" after `load_index` has deleted the old index
and thrown; no further call is taken from that state, since what it would do is
undefined.

The file is cut to a prefix of what was written. Pages written out of order
by a machine that loses power are not modelled; the length, which is all that
`loadIndex` checks, would not show them.

### BruteForce

The dense array, the dictionary and `index_lock`. `addPoint` chooses its slot
under the lock and copies label and point after releasing it (`AddPoint`,
`CopyLabel`, `CopyPoint`); `RemovePoint` moves the last element into the hole;
`Reload` loses the dictionary, as `loadIndex` does. A point is its distance to
the query; `searchKnn` is an operator that follows the two loops of the code and
is evaluated in every quiet state for every k and every filter.

Additions of different labels overlap. `Next` has no two additions of one label at a
time, and nothing else beside an addition: `BFIndex` holds the interpreter lock
through every call, and without it those would be races on the bytes of a slot.
Removals of any element, additions of any label and reloads follow each other freely.

Two of these leave the dictionary wrong. Removing the element in the last slot enters
its label again (`bruteforce.h:98`), and loading makes no entries (`bruteforce.h:168`).
The history variable `misled` says that a call has used a label the dictionary was
wrong about. Such a call stores an element twice, writes a slot that is not counted,
overwrites another element or removes nothing, so the properties are stated up to the
first one; they do cover everything else done with an index whose dictionary is wrong.
`removePoint` reads a field of a map node it has just erased; the model takes that
field as intact, which glibc's allocator leaves it. Removing by an entry that is left
when the count is 0 reads before the array, and is not followed.

### DistanceKernels

A distance function is a sequence of loops, each with its lanes, its unrolling
and its end; running it records which components each accumulator lane has
received. The constructors' choice by build, processor and dimension is
`L2Space`, `InnerProductSpace`, `L2SpaceI`. The RVV loop is modelled by the
specification of the vector extension: `vsetvl` may grant any length between
half of the rest and VLMAX when the rest is between VLMAX and twice that, and
an intrinsic without a policy suffix is tail-agnostic: a processor keeps the lanes
past `vl`, or may overwrite each of them (`agnostic`). That it keeps them helps only
when the compiler has given the addition the register of its accumulator as the
destination, which is assumed for the former kind. Values, rounding and overflow are not modelled.

### AddItems

`add_items` up to and including the first element of a new index runs under the
interpreter lock (`Begin`); the loop over the rows does not. `FetchAdd`, `Fn` and
`Catch` are a worker of `ParallelFor`, `Join` joins and rethrows, `ReadCur` and
`Advance` are the load and the store of `cur_l += rows`, which runs without the
interpreter lock too. `FewRows` is `num_threads * 4`, up to which one thread does all
rows. Calls overlap in every way, with ids and without. `disturbed` records which of
the running ones may share labels with another: `add_items` lets those overwrite each
other's rows, although the README calls it thread-safe with itself.

## What the runs check

| Run | Instance | Shows |
|---|---|---|
| `visited_pool` | 2 threads, 2 slots, tags 0..3 | no list has two users (`ExclusiveUse`); every search sees exactly its own marks, across wrap-around, uninitialised arrays and abandoned searches (`ImplementsVisitedSet`) |
| `labels` | 2 threads, 3 labels of which 2 share a lock, 2 slots | lookup and labels stay inverse (`LabelsAgree`), a looked-up slot stays the call's own (`SlotIsOwned`), marks are counted but for those just being changed (`DeletedCount`), the vacant set is exact (`VacantSlots`), all calls together behave like `LabelMap` (`ImplementsLabelMap`) |
| `graph_insert` | 3 threads, 4 nodes, 2 levels, M = 2, from an empty graph | no deadlock, no throw (`NeverThrows`), lists bounded, loop-free and without duplicates (`LinksWellFormed`, `NoDuplicateLinks`), no element lost (`NoElementLost`), the entry point tops the hierarchy and only climbs (`EntryPointOnTop`, `EntryPointClimbs`) |
| `graph_update` | 2 threads, 3 nodes, 2 levels; two insertions, or an insertion beside updates | the same safety where it applies, no list read past a node's level (`ReadsExistingLevels`), and every call returns (`CallsReturn`) |
| `search` | all graphs of 3 elements, 7 graphs of 4 with up to 2 upper levels; ties, rejected elements, k and ef from 1 to 4 | k live elements unless fewer can be reached, the nearest if ef covers them (`KnnResults`); a search gives up at a local optimum only (`LocalOptimum`); a search by radius stays inside and misses nothing it can reach inside (`EpsilonRegion`); a search by documents returns as many as asked for (`DocsFound`); every search returns (`SearchReturns`) |
| `index_file` | up to 3 elements on up to 3 levels, fields of 2 to 8 bytes, cuts at every byte | a file cut short is refused (`TornFileRefused`); a whole one gives back every element with its level, and room for all (`LoadRestores`) |
| `brute_force` | 2 threads, 4 labels, 3 slots, 2 distances | until a call is misled by the dictionary: the array holds exactly what was stored (`ContentsExact`), the dictionary leads to it (`DictExact`), searches are exact (`SearchExact`), a filtered search finds an allowed nearest element (`FilteredNearest`) |
| `kernels` | dimensions on both sides of 4, 16, 64 and 128, 5 processors, 5 builds, VLMAX 4 | each component counted once (`SumExact`), no load past the end (`InBounds`), every call returns (`CallReturns`) |
| `add_items` | 2 callers, 2 workers, 3 calls of 1 or 2 rows, 3 elements fit | each row once (`EveryRowOnce`), all rows stored when a call that shares no labels returns normally (`RowsStored`), implicit labels not reused (`LabelsNotReused`), every call returns or throws (`CallsReturn`) |

Three runs show the code and what is said of it apart; TLC finds a
counterexample in each.

| Run | Property | What happens |
|---|---|---|
| `labels_replace_existing` | `NoDuplicateLabel` | `addPoint` with `replace_deleted` takes a vacant slot without looking its label up: a label that is in the index ends up on two live elements. The README says the features of existing labels are updated. |
| `graph_update_race` | `NoDuplicateLinks` | `updatePoint` gives a neighbour a list collected earlier, which may hold an element still being inserted; that insertion then appends itself without looking. `checkIntegrity` asserts that this does not happen, and `add_items` is documented as thread-safe with itself. |
| `kernels_rvv_tail` | `TailHandled` | the last, shorter vector addition may overwrite the lanes behind it, and the final reduction adds up all lanes. The comment says the tail is handled automatically. Hardware that keeps tail lanes hides it, and so does a dimension that VLMAX divides. |

Three more cases where the code does not do what a caller would expect are part of
the models; the properties name them as exceptions, and the hazards list them.

- A brute-force index whose dictionary is wrong, see `misled` above.
- Overlapping `add_items` calls without ids, see `disturbed` above
  (`bindings.cpp:288`).
- An insertion that finds marked elements only (`hnswalg.h:524`), see `LiveCandidate`
  below.

### Bounds, and why they are enough

- Two threads show every pairwise race; graph insertion has three, since there
  three can wait in a circle or two can meet over a third one's node.
- `labels`: one label more than slots, so that there is always one to take over
  a vacant slot, and two labels on one lock, so that unrelated calls exclude each
  other. The theorems remove the bound.
- `graph_update`: two elements join a graph of one, so that two insertions overlap and
  may wait for each other's nodes; with a fourth element the run takes too long.
- `graph_insert`: M = 2 is the least value the level generator is defined for.
  Lists above the ground level overflow with four nodes; ground-level lists hold
  4 and do not. What pruning a full list does is therefore checked above the
  ground level, and `NoElementLost`, which pruning can break, is stated for
  graphs whose ground level does not overflow. Marks change between calls: an element
  unmarked during an insertion may become a candidate twice (`hnswalg.h:1241`).
- `search`: only the order of the distances counts, so elements are numbered by
  distance. Three elements in every arrangement of links, starts and rejections
  have every way to be cut off, found late or found through a rejected one; four
  are needed for a list that is full before its nearest element is seen. The
  theorems remove the bound for k-nearest search. Deadlock is not checked: a
  search that has returned stops.
- `index_file`: every size is above 1, so that a cut can fall inside everything
  the file holds. `Garbage` is what a size may be that is not read from where one
  was written. The theorems remove the bounds.
- `kernels`: the loops depend on the dimension only through its quotient and
  remainder by 4, 8, 16 and 64; the dimensions take no, one, two and more rounds
  of each with short and long tails.
- `brute_force`: the states in which a call has been misled are checked, and not
  continued, since nothing is stated of them (`NotMisled`).
- `add_items`: `FewRows` is 1, so that two rows are enough to start two workers; the
  ids overlap in one label. `MaxCalls` and `MaxLabel` only cap counters. Deadlock is
  not checked because callers stop after `MaxCalls` calls;
  `CallsReturn` covers what deadlock would show.
- Symmetry is used in `graph_insert` among threads and among nodes that are not in
  the graph yet, and in `brute_force` among threads. These runs check safety only.

### Fairness

`GraphInsert` and `DistanceKernels` assume weak fairness of each
thread's steps within a call, which is what the operating system gives a thread
that can run. `AddItems` assumes less, that some thread of each call takes a step. No call is required to begin. Weak fairness is enough for the node
locks because a critical section is one step: a lock that is held across steps
belongs to a node in insertion, and a thread waiting for it waits until that
insertion has ended. The greedy descent of `Descend` terminates because the
code moves only to strictly closer nodes, which is kept as "never back to a node
left before"; in `Search`, where distances are numbers, it follows. `Search`
assumes weak fairness of its only thread, which waits for nobody.

## What is proved

All proofs are checked by TLAPS for every value of the constants, under the
assumptions `PoolAssumption`, `TableAssumption`, `GraphAssumption`,
`SearchAssumption`, `IndexFileAssumption` and `AddItemsAssumption` in the modules that declare them.
Liveness stays with TLC, because the prover does not handle fairness.

`SearchProofs`, on the visited lists: `PoolTypeCorrect` (`PoolTypeOK`),
`TagsNeverZero` (no search runs with the tag that a cleared array holds),
`ListsExclusive` (`ExclusiveUse`) and `PoolImplementsVisitedSet`
(`ImplementsVisitedSet`), for any number of threads, slots and lists and any tag
width. `ExclusiveUse` is not inductive alone. The invariant adds that
a thread holds a list exactly while it is not idle, and that no entry of an array
is above its list's tag: then `Reset` yields a tag that no entry has, either
because it is above all of them or because the array has been zeroed and the tag
is 1. So a search's set starts
empty, which is the step `Begin` of the abstract specification.

`LabelTableSteps`, `LabelTableProofs`: `TypeCorrect`,
`LabelsStayInverse` (`LabelsAgree`), `SlotStaysOwned` (`SlotIsOwned`),
`DeletionsCounted` (`DeletedCount`), `VacantSlotsExact` (`VacantSlots`),
`NoDuplicates` (`NoDuplicateLabel`) and `CallsRefineMap` (`ImplementsLabelMap`), for
any number of threads, labels, slots and locks, provided callers pass `replace_deleted` only for labels that are not
in the index. The invariant `IInv` (module `LabelTableInv`) adds what a call has learnt and relies on
after it let go of a lock: calls in progress have different operation locks
(`LocksExclude`); what a call knows of its slot's mark (`CallMarks`) and of the
lookup (`CallLookup`) is still true; no slot is found under two labels
(`LookupInjective`); only allotted slots are marked (`MarksAllotted`). The count is of
the marked slots without those marked and not yet counted, and with those cleared and
not yet counted (`Counted`). The core of
the argument is that a step of one call changes the lookup, the label and the
mark only of its own slot, and that slots of different calls differ, so the
knowledge of every other call survives (lemmas `OtherCall`, `CallUndisturbed`).
The proof has one lemma per action: `LabelTableSteps` has the steps that leave the
table alone or change lookup and labels, `LabelTableProofs` those that change marks,
and the whole.

The refinement needs one thing more, `DataInv`: every allotted slot has a vector,
unless the call that allotted it has yet to write it. Then each step is one
step of `LabelMap` or none. `InitElement` inserts, `UpdatePoint` updates, `SetMark`
deletes, `ClearMark` undeletes, `SwapLookup` renames; `ResizeIndex` and `Reload`
change the room; the other steps cannot be seen. A call may be several steps of the
map: an `addPoint` that takes a vacant slot renames, undeletes and updates. Insertion needs room in the
map: its labels have slots of their own (`LookupInjective`), the slot just allotted
is not yet among them, so they are fewer than `cur_element_count` (`EntriesFit`).

`GraphEntryProofs`: `EntryPointAlwaysClimbs` (`EntryPointClimbs`), for any number
of threads, nodes and levels, with updates and deletion marks beside the
insertions. The entry point and `maxlevel_` are two variables that every call
reads one after the other, the entry point twice. The invariant `EInv` says that an insertion whose node
is above the `maxlevel_` it read holds the global lock, and that what it read
is still true (`HoldsGlobal`); that between the two writes the entry point is
the new one already (`Raising`); and that otherwise its level is `maxlevel_`
(`Settled`). So at most one call is above the top level, and no call that read
an older `maxlevel_` may write. The module also has the steps of the next two
modules that write no list.

The lists and calls of `GraphInsert`, in `GraphLinkProofs`, again for any number of
threads, nodes and levels, any M and efConstruction, with updates and marks.
`GraphStaysSound`: as long as no insertion ends a search without a candidate,
`TypeOK`, `NeverThrows`, `ReadsExistingLevels`, `LinksWellFormed` and
`EntryPointOnTop` hold. `GraphSoundUnmarked`: without marks the same holds with no
such condition. None of these is inductive, and each needs the others. The invariant
`GInv` (module `GraphInv`) adds:

- a node's lock is held by the thread that inserts the node, and by no other
  (`Locks`), so nobody but the inserter writes the lists of a new node, and on
  the levels that it has yet to write they are empty (`Blank`); this is why the
  code's test for a non-empty list never throws;
- what a call has read before, and uses later, is still good: its `maxlevel_` is no
  higher than the present one, and its entry point reaches that high (`ReadOK`);
  where it stands exists on the level it is on (`PlaceOK`);
- what a search has collected exists on its level, and what stays in the result has
  been expanded, under the lock of its node, and so is inserted completely
  (`SetsOK`); therefore a new node is linked to finished ones only (`SelOK`), and
  never to itself;
- each list fits its memory, also after a neighbour has been appended or its list
  been chosen anew (`Lists`).

Every action is shown to keep what it says of the call itself, and of every other
call only what `Undisturbed` lists has to be shown.

The condition is `LiveCandidate`: at `selectedNeighbors.back()` (`hnswalg.h:524`) the
list is not empty. It is an assumption of the theorems and no property of the code. A
mark set on the only element after an insertion has read that its entry point is not
deleted (`hnswalg.h:1241`) violates it. So do marks set while nothing else runs: with
M = 2, let the entry point E and D1 be on level 2, D2 and D3 on level 1, and
D1's list on level 1 be pruned to D2 and D3. When D1, D2 and D3 are marked, a new
element that descends to D1 finds marked elements only, and E is not deleted.
This takes three levels and five elements, more than the runs have.

`GraphReachProofs`: `InsertionsLoseNothing` (`NoDuplicateLinks`, `NoElementLost`) for
insertions without updates, with marks that change only between calls and under
`LiveCandidate`; `PlainInsertionsLoseNothing` is the same without marks, and
without a condition. `DInv` says that a new node is in no list on the levels where it
has yet to be linked, nor in the lists of the neighbours it has yet to visit: so an
append never makes a duplicate. (With updates it can, see `graph_update_race`.)
`CInv` says that no set of finished nodes is cut off from the other finished
nodes, as long as no ground-level list can overflow; and that an insertion that is
past the ground level is linked both ways with a finished node, unless it is
the first. For the latter it needs the choice of the node to go on from (`obj`)
to be among those that are still to be linked, or linked already (`AnchorOK`).

`SearchProofs`, on the search: `SearchIsLocallyOptimal` (`LocalOptimum`) and
`SearchReturnsK` (`KnnResults`), for any finite graph, distances, deletions,
filter, k and ef. The invariant (module `SearchInv`) has four parts. While a list is walked in the
descent, what has been looked at is no closer than `currObj`, unless it has moved
(`DescentInv`). On the ground level whatever has been visited is a candidate
still, has had its list visited, or was passed over because the result was full;
and a live, allowed element that is not among the results is missing only because
the result is full of elements no further away (`GroundInv`). The last part is
what makes the bare search's stop by distance sound: a candidate beyond
`lowerBound` is no result, so the result is full. Only what can be reached
is visited (`ReachInv`). At the end, therefore, the elements found fill ef or are
all that can be reached, and the cut to k takes the furthest away (`ResultInv`).

`IndexFileProofs`: `FileIsWhole` (`TornFileRefused`) and `IndexIsRestored`
(`LoadRestores`), for indexes and fields of any size. The invariant says where
each element begins in the file, and that as long as the stream is good the check
stands at the beginning of the element it has come to. Every element takes at least
the bytes of its size field, so a check that has read all of them ends where the
whole file would, which is the length only of a file that is whole.

`AddItemsProofs`: `RowsRunOnce` (`EveryRowOnce`), for any number of callers,
workers and rows; `RowsAreStored` (`RowsStored`) for calls that share no labels with one
they overlap; and `ImplicitLabelsFresh` (`LabelsNotReused`) for the labels of such calls,
however those that come after them overlap. The
invariant of the first, `RInv`, says of each loop (`RowsOK`) that a row below
the shared counter has been run or is with exactly one worker, unless an exception
has moved the counter; that no other row has been run; and that the first worker is
done only when the counter is past the rows, so that a loop whose workers have all
been joined has left no row out. It also bounds `cur_l` by the rows of the calls that have
ended (`LabelsInRange`), so the model's bound on labels cuts nothing off. The other two
need `SInv`: an undisturbed call and any other in progress have ids, and different ones
(`Separate`); the rows that an undisturbed call has run are where they belong, or their
worker is about to record an exception (`AllWritten`); and `cur_l`, and what a call has
read of it and is about to store back, is past every label in `owned` (`OwnedBehind`).
The store of `cur_l` overwrites what others may have stored since the load. This does no
harm to `owned`: a call without ids that ended in between was disturbed.

About the assumptions. `AddItemsAssumption` asks for finitely many callers, a largest
number of rows, and a `MaxLabel` that leaves room for the labels of `MaxCalls` calls and
for all ids. `GraphAssumption` asks for M of at least 2, which the level
generator is defined for, and for no more than M + 1 nodes in a graph that is there
from the start (`Seeds`), all linked to each other, so that they fit the lists.

Only model-checked:

- liveness (`CallsReturn`, `SearchReturns`, `CallReturns`), since the prover does not
  handle fairness;
- `EpsilonRegion` and `DocsFound` of `Search`: the stop conditions' counters are
  folds over the results;
- `SumExact` and `InBounds` of `DistanceKernels`: each is what a recursive run of
  the loops computes, which needs induction over data;
- `BruteForce`: its searches are folds over the array, and need that induction as
  well.

## Not modelled, and why

- The gem5 simulator (`src/gem5`), about a million lines: almost all lines of the
  repository, but a vendored tool the program is run on and no part of it. The
  modules cover the library itself; measured against the whole tree they
  cover a fraction of a percent, and modelling the simulator would say nothing
  about the index.
- Pickling (`getAnnData`, `setAnnData`): it copies the fields `IndexFile` counts
  through arrays in memory, where nothing is cut short. It copies
  `cur_element_count` entries of the lookup, which is all of it as long as
  `LabelsAgree` holds and no label is stored twice.
- `knn_query`: `ParallelFor` as in `AddItems` around `searchKnn` as in `Search`. It
  throws when a search returns fewer than k elements; `KnnResults` says when.
- Searches beside insertions: documented as not allowed.
- `searchStopConditionClosest` returns internal ids where its type says labels
  (`hnswalg.h:1371`). `Search` names elements by internal id throughout, so its
  results are to be read that way.
- `cur_l` after `load_index` is the number of elements, which need not be past all
  labels; loading is not an action of `AddItems`.
- what `selectedNeighbors.back()` does on an empty vector (`hnswalg.h:524`; the
  model takes any element), the sum of squares of `L2SqrI` that leaves its int from dimension 33026 on
  (`space_l2.h:375`), the field of an erased map node that `removePoint` reads
  (`bruteforce.h:96`): undefined behaviour, stated here and not followed further.
- Memory exhaustion, numeric values and rounding of distances, array conversion
  in the bindings, the command-line programs, the micro-benchmark: sequential
  input, output and arithmetic.

----------------------------- MODULE IndexFile -----------------------------
(***************************************************************************)
(* Saving an index to a file and loading it (hnswalg.h: saveIndex,         *)
(* loadIndex; bindings.cpp: load_index), with a process that may die and a *)
(* disk that may fill up at any point of a save.                           *)
(*                                                                         *)
(* The file is a header, one block with the ground level of all elements   *)
(* and, per element, the size of its upper link lists followed by them.    *)
(* What the bytes say is represented by the index they were written from;  *)
(* where they lie, and how many of them there are, is counted in bytes.    *)
(***************************************************************************)
EXTENDS Integers

CONSTANTS
    Indexes,                    \* the indexes that are built
    HeaderSize,                 \* bytes of the header
    CountEnd,                   \* where cur_element_count ends in the header
    size_data_per_element,
    size_links_per_element,
    SizeOfUnsigned,             \* sizeof(unsigned int)
    Rooms,                      \* values passed for max_elements
    Garbage,                    \* what a size may be that is not read from one
    None

\* An index x has x.count elements, element i the level x.level[i].
ASSUME IndexFileAssumption ==
    /\ HeaderSize \in Nat \ {0} /\ CountEnd \in Nat /\ CountEnd <= HeaderSize
    /\ size_data_per_element \in Nat /\ size_links_per_element \in Nat \ {0}
    /\ SizeOfUnsigned \in Nat \ {0}
    /\ Rooms \subseteq Nat /\ Garbage \subseteq Nat /\ None \notin Indexes
    /\ \A x \in Indexes :
         /\ x.count \in Nat /\ x.max_elements \in Nat /\ x.count <= x.max_elements
         /\ \A i \in 0 .. x.count - 1 : x.level[i] \in Nat

VARIABLES
    appr_alg,   \* "null", "live", or "dangling" after a delete
    mem,        \* the index appr_alg points to
    file,       \* content: the index it is written from, len: the bytes it has,
                \* at[i]: where the lists of element i begin, for i in 0 .. n
    save,       \* saveIndex: pc, and the element i it has come to
    load        \* loadIndex: pc, element i, stream position and state, what it read

vars == <<appr_alg, mem, file, save, load>>

NoFile == [content |-> None, len |-> 0, n |-> -1, at |-> << >>]
NotSaving == [pc |-> "idle", i |-> 0]
NotLoading == [pc |-> "idle", i |-> 0, pos |-> 0, fail |-> FALSE, count |-> 0,
               max_elements |-> 0, level |-> << >>]

Init ==
    /\ appr_alg = "null" /\ mem = None
    /\ file = NoFile
    /\ save = NotSaving
    /\ load = NotLoading

Quiet == save.pc = "idle" /\ load.pc = "idle"

\* Some index is made by init_index and additions.
Build(x) ==
    /\ Quiet /\ appr_alg = "null"
    /\ appr_alg' = "live" /\ mem' = x
    /\ UNCHANGED <<file, save, load>>

\* The bytes of element i's upper link lists.
linkListSize(x, i) == IF x.level[i] > 0 THEN size_links_per_element * x.level[i] ELSE 0

-----------------------------------------------------------------------------
(* saveIndex.                                                              *)

\* Opening the file for output empties it.
SaveOpen ==
    /\ Quiet /\ appr_alg = "live"
    /\ file' = [NoFile EXCEPT !.content = mem]
    /\ save' = [pc |-> "header", i |-> 0]
    /\ UNCHANGED <<appr_alg, mem, load>>

\* len bytes more, after which element j begins.
Extend(j, bytes) ==
    LET end == file.len + bytes
    IN  file' = [file EXCEPT !.len = end, !.n = j,
                             !.at = [k \in 0 .. j |-> IF k < j THEN file.at[k] ELSE end]]

\* The header and the ground level.
SaveLevel0 ==
    /\ save.pc = "header"
    /\ Extend(0, HeaderSize + mem.count * size_data_per_element)
    /\ save' = [save EXCEPT !.pc = "lists"]
    /\ UNCHANGED <<appr_alg, mem, load>>

WriteList(i) == Extend(i + 1, SizeOfUnsigned + linkListSize(mem, i))

SaveList ==
    /\ save.pc = "lists" /\ save.i < mem.count
    /\ WriteList(save.i)
    /\ save' = [save EXCEPT !.i = @ + 1]
    /\ UNCHANGED <<appr_alg, mem, load>>

SaveClose ==
    /\ save.pc = "lists" /\ save.i = mem.count
    /\ save' = NotSaving
    /\ UNCHANGED <<appr_alg, mem, file, load>>

\* The disk is full: what is not yet on it stays out, and saveIndex, which does
\* not look at the state of the stream, returns as if nothing had happened.
DiskFull(len) ==
    /\ save.pc # "idle"
    /\ file' = [file EXCEPT !.len = len]
    /\ save' = NotSaving
    /\ UNCHANGED <<appr_alg, mem, load>>

\* The process dies; of a save in progress any part may be on the disk.
Crash(len) ==
    /\ save.pc = "idle" => len = file.len
    /\ file' = [file EXCEPT !.len = len]
    /\ appr_alg' = "null" /\ mem' = None
    /\ save' = NotSaving /\ load' = NotLoading

-----------------------------------------------------------------------------
(* loadIndex.                                                              *)

\* load_index deletes the old index before it constructs the new one, and finds
\* out after that that there is no file to open.
LoadOpen(room) ==
    /\ Quiet /\ appr_alg # "dangling"
    /\ appr_alg' = IF appr_alg = "live" THEN "dangling" ELSE appr_alg
    /\ mem' = None
    /\ load' = IF file.content = None THEN NotLoading
               ELSE [NotLoading EXCEPT !.pc = "header", !.max_elements = room]
    /\ UNCHANGED <<file, save>>

\* An exception leaves load_index, and appr_alg as it is.
Throw ==
    /\ load' = NotLoading
    /\ UNCHANGED <<appr_alg, mem, file, save>>

tellg == IF load.fail THEN -1 ELSE load.pos

\* Mutant form: as passed.
RoomPassed(count, saved) == load.max_elements

\* max_elements: as passed, or as saved if that is too little.
Room(count, saved) == IF load.max_elements < count THEN saved ELSE load.max_elements

\* The header, and the skip over the ground level.  Of a header cut short
\* cur_element_count may be anything.
LoadHeader ==
    /\ load.pc = "header"
    /\ \E count \in IF file.len < CountEnd THEN {x.count : x \in Indexes}
                                          ELSE {file.content.count} :
         load' = [load EXCEPT !.pc = "check", !.count = count,
                              !.max_elements = Room(count, file.content.max_elements),
                              !.fail = file.len < HeaderSize,
                              !.pos = HeaderSize + count * size_data_per_element]
    /\ UNCHANGED <<appr_alg, mem, file, save>>

CanRead == ~load.fail /\ load.pos + SizeOfUnsigned <= file.len

\* The size read at the stream's position, which says something only where one
\* was written.
SizeRead ==
    LET here == {i \in 0 .. file.n : i < file.content.count /\ file.at[i] = load.pos}
    IN  IF CanRead /\ here # {} THEN {linkListSize(file.content, i) : i \in here} ELSE Garbage

Beyond == tellg < 0 \/ tellg >= file.len

\* Skip one element; a read past the end breaks the stream.
CheckList ==
    /\ load.pc = "check" /\ load.i < load.count
    /\ IF Beyond THEN Throw
       ELSE /\ IF CanRead
               THEN \E size \in SizeRead :
                      load' = [load EXCEPT !.i = @ + 1, !.pos = @ + SizeOfUnsigned + size]
               ELSE load' = [load EXCEPT !.i = @ + 1, !.fail = TRUE]
            /\ UNCHANGED <<appr_alg, mem, file, save>>

\* Mutant form: only a file that is too long is refused.
WrongEndLong == tellg > file.len

WrongEnd == tellg # file.len

\* The lists must end where the file ends; then back to the ground level.
CheckEnd ==
    /\ load.pc = "check" /\ load.i = load.count
    /\ IF WrongEnd THEN Throw
       ELSE /\ load' = [load EXCEPT !.pc = "lists", !.i = 0,
                           !.pos = HeaderSize + load.count * size_data_per_element]
            /\ UNCHANGED <<appr_alg, mem, file, save>>

\* The level of an element comes from the size of its lists.
LoadList ==
    /\ load.pc = "lists" /\ load.i < load.count
    /\ \E size \in SizeRead :
         load' = [load EXCEPT !.i = @ + 1, !.pos = @ + SizeOfUnsigned + size,
                    !.level = [j \in 0 .. load.i |->
                       IF j < load.i THEN load.level[j] ELSE size \div size_links_per_element]]
    /\ UNCHANGED <<appr_alg, mem, file, save>>

LoadDone ==
    /\ load.pc = "lists" /\ load.i = load.count
    /\ appr_alg' = "live"
    /\ mem' = [count |-> load.count, max_elements |-> load.max_elements, level |-> load.level]
    /\ load' = NotLoading
    /\ UNCHANGED <<file, save>>

Next ==
    \/ \E x \in Indexes : Build(x)
    \/ SaveOpen \/ SaveLevel0 \/ SaveList \/ SaveClose
    \/ \E len \in 0 .. file.len : DiskFull(len) \/ Crash(len)
    \/ \E room \in Rooms : LoadOpen(room)
    \/ LoadHeader \/ CheckList \/ CheckEnd \/ LoadList \/ LoadDone

Spec == Init /\ [][Next]_vars

-----------------------------------------------------------------------------
(* Properties.                                                             *)

\* A file that a crash or a full disk has cut short is never taken for an
\* index: loadIndex gets past its checks only with every byte saveIndex writes.
TornFileRefused ==
    load.pc = "lists" =>
        /\ file.n = file.content.count
        /\ file.len = file.at[file.n]

\* What loadIndex makes of a file is the index that was saved: as many elements,
\* each with its level, and room for all of them.
LoadRestores ==
    load.pc = "lists" =>
        /\ load.count = file.content.count /\ load.count <= load.max_elements
        /\ \A j \in 0 .. load.i - 1 : load.level[j] = file.content.level[j]

=============================================================================

-------------------------- MODULE IndexFileProofs --------------------------
(***************************************************************************)
(* For any sizes, any indexes and any point at which a save is cut short,  *)
(* loadIndex accepts only whole files and restores what was saved.  The    *)
(* invariant says where the writer has put everything, that a loader whose *)
(* stream is good stands at the beginning of the lists of its element, and *)
(* that what it has read so far is what was written.                       *)
(***************************************************************************)
EXTENDS IndexFile, TLAPS

\* Steps are left to Zenon, except where SMT is named.
USE Zenon

WellFormed(x) ==
    /\ x.count \in Nat /\ x.max_elements \in Nat /\ x.count <= x.max_elements
    /\ \A i \in 0 .. x.count - 1 : x.level[i] \in Nat

\* Where the elements of the file begin.
Layout(f) ==
    /\ f.n <= f.content.count
    /\ \A i \in 0 .. f.n : f.at[i] \in Nat
    /\ f.at[0] = HeaderSize + f.content.count * size_data_per_element
    /\ \A i \in 0 .. f.n - 1 :
         f.at[i + 1] = f.at[i] + SizeOfUnsigned + linkListSize(f.content, i)
    /\ \A i, j \in 0 .. f.n : i < j => f.at[i] < f.at[j]
    /\ f.len <= f.at[f.n]

FileInv ==
    /\ file.len \in Nat /\ file.n \in Nat \cup {-1}
    /\ file.n = -1 => file.len = 0
    /\ file.content # None => WellFormed(file.content)
    /\ file.content # None /\ file.n # -1 => Layout(file)

MemInv ==
    /\ appr_alg = "live" => WellFormed(mem)
    /\ save.pc # "idle" => appr_alg = "live" /\ load.pc = "idle"

SaveInv ==
    save.pc # "idle" =>
        /\ file.content = mem
        /\ save.pc = "header" => file.n = -1 /\ save.i = 0
        /\ save.pc = "lists" => /\ file.n = save.i /\ file.n # -1
                                /\ file.len = file.at[file.n]

LoadInv ==
    load.pc # "idle" =>
        /\ file.content # None
        /\ load.pc \in {"header", "check", "lists"}
        /\ load.pc = "header" => load.i = 0 /\ load.max_elements \in Nat
        /\ ~load.fail /\ load.pc # "header" =>
             /\ file.n # -1
             /\ load.count = file.content.count
             /\ load.max_elements \in Nat /\ load.count <= load.max_elements
             /\ load.i \in 0 .. load.count /\ load.i <= file.n
             /\ load.pos = file.at[load.i]
        /\ load.pc = "lists" =>
             /\ ~load.fail
             /\ file.n = file.content.count /\ file.len = file.at[file.n]
             /\ \A j \in 0 .. load.i - 1 : load.level[j] = file.content.level[j]

\* The records have their fields.
HasLoadFields(r) ==
    r = [pc |-> r.pc, i |-> r.i, pos |-> r.pos, fail |-> r.fail, count |-> r.count,
         max_elements |-> r.max_elements, level |-> r.level]

Shape ==
    /\ file = [content |-> file.content, len |-> file.len, n |-> file.n, at |-> file.at]
    /\ save = [pc |-> save.pc, i |-> save.i]
    /\ HasLoadFields(load)
    /\ save.pc \in {"idle", "header", "lists"}
    /\ load.fail \in BOOLEAN

IInv == Shape /\ FileInv /\ MemInv /\ SaveInv /\ LoadInv

\* The bytes of a link list are a natural number, and tell the level.
LEMMA ListSize ==
  ASSUME NEW x, NEW i, x.level[i] \in Nat
  PROVE  /\ linkListSize(x, i) \in Nat
         /\ linkListSize(x, i) \div size_links_per_element = x.level[i]
<1> DEFINE l == x.level[i]
           s == size_links_per_element
<1>1. l \in Nat /\ s \in Nat \ {0}
  BY IndexFileAssumption
<1> HIDE DEF l, s
<1>2. s * l \in Nat /\ (s * l) \div s = l /\ 0 \div s = 0
  BY <1>1, SMT
<1>3. linkListSize(x, i) = IF l > 0 THEN s * l ELSE 0
  BY DEF linkListSize, l, s
<1>4. linkListSize(x, i) \in Nat /\ linkListSize(x, i) \div s = l
  BY <1>1, <1>2, <1>3, SMT
<1> QED BY <1>4 DEF l, s

\* The bytes before the first list are a natural number.
LEMMA Level0Size ==
  ASSUME NEW c \in Nat
  PROVE  HeaderSize + c * size_data_per_element \in Nat
<1>1. c * size_data_per_element \in Nat
  BY IndexFileAssumption, SMT
<1> QED BY <1>1, IndexFileAssumption, SMT

\* A record with the loader's fields is the record of its fields.
LEMMA LoadShape ==
  ASSUME NEW t, NEW a, NEW b, NEW c, NEW d, NEW e, NEW f, NEW g,
         t = [pc |-> a, i |-> b, pos |-> c, fail |-> d, count |-> e, max_elements |-> f,
              level |-> g]
  PROVE  HasLoadFields(t)
BY DEF HasLoadFields

\* The record of a loader that does not run.
LEMMA NotLoadingFields ==
    /\ HasLoadFields(NotLoading)
    /\ NotLoading.pc = "idle" /\ NotLoading.i = 0 /\ NotLoading.fail = FALSE
BY LoadShape DEF NotLoading

\* Nothing is built, saved or loaded at first.
LEMMA InitIInv == Init => IInv
BY NotLoadingFields, SMT DEF Init, IInv, Shape, FileInv, MemInv, SaveInv, LoadInv, NoFile, NotSaving, NotLoading

\* Making an index touches no file.
LEMMA BuildIInv ==
  ASSUME IInv, NEW x \in Indexes, Build(x)
  PROVE  IInv'
<1>1. WellFormed(x)
  BY IndexFileAssumption DEF WellFormed
<1> QED BY <1>1 DEF Build, Quiet, IInv, Shape, FileInv, Layout, MemInv, SaveInv, LoadInv

\* saveIndex opens the file.
LEMMA SaveOpenIInv ==
  ASSUME IInv, SaveOpen
  PROVE  IInv'
<1> USE DEF SaveOpen, Quiet, NoFile, IInv
<1>1. /\ file' = [content |-> mem, len |-> 0, n |-> -1, at |-> << >>]
      /\ save' = [pc |-> "header", i |-> 0]
      /\ UNCHANGED <<appr_alg, mem, load>> /\ load.pc = "idle" /\ appr_alg = "live"
  OBVIOUS
<1>2. Shape' /\ FileInv'
  BY <1>1, SMT DEF Shape, FileInv, MemInv
<1>3. MemInv' /\ SaveInv' /\ LoadInv'
  BY <1>1, SMT DEF MemInv, SaveInv, LoadInv
<1> QED BY <1>2, <1>3

\* saveIndex writes the header and the ground level.
LEMMA SaveLevel0IInv ==
  ASSUME IInv, SaveLevel0
  PROVE  IInv'
<1> DEFINE end == HeaderSize + mem.count * size_data_per_element
<1>1. /\ save.pc = "header" /\ file.n = -1 /\ file.len = 0 /\ save.i = 0
      /\ file.content = mem /\ WellFormed(mem) /\ load.pc = "idle" /\ appr_alg = "live"
  BY DEF SaveLevel0, IInv, SaveInv, FileInv, MemInv
<1>2. end \in Nat
  BY <1>1, Level0Size DEF WellFormed
<1>3. Extend(0, end) /\ save' = [save EXCEPT !.pc = "lists"] /\ UNCHANGED <<appr_alg, mem, load>>
  BY DEF SaveLevel0
<1>4. file' = [content |-> mem, len |-> end, n |-> 0, at |-> [k \in 0 .. 0 |-> end]]
  <2>1. file' = [file EXCEPT !.len = 0 + end, !.n = 0,
                    !.at = [k \in 0 .. 0 |-> IF k < 0 THEN file.at[k] ELSE 0 + end]]
    BY <1>1, <1>3 DEF Extend
  <2>2. 0 + end = end /\ \A k \in 0 .. 0 : ~(k < 0)
    BY <1>2, SMT
  <2> HIDE DEF end
  <2> QED BY <1>1, <2>1, <2>2 DEF IInv, Shape
<1>5. save' = [pc |-> "lists", i |-> 0]
  BY <1>1, <1>3 DEF IInv, Shape
<1>6. /\ file'.content = mem /\ file'.len = end /\ file'.n = 0
      /\ \A k \in 0 .. 0 : file'.at[k] = end
  BY <1>4
<1>7. Layout(file')
  BY <1>1, <1>2, <1>6, SMT DEF Layout, WellFormed
<1>8. Shape'
  BY <1>3, <1>4, <1>5 DEF IInv, Shape
<1>9. FileInv'
  BY <1>1, <1>2, <1>6, <1>7, SMT DEF FileInv
<1>10. MemInv' /\ SaveInv' /\ LoadInv'
  BY <1>1, <1>3, <1>5, <1>6, SMT DEF IInv, MemInv, SaveInv, LoadInv
<1> QED BY <1>8, <1>9, <1>10 DEF IInv

\* saveIndex writes the lists of one element.
LEMMA SaveListIInv ==
  ASSUME IInv, SaveList
  PROVE  IInv'
<1> DEFINE n == file.n
           size == SizeOfUnsigned + linkListSize(mem, n)
           end == file.len + size
<1>1. /\ save.pc = "lists" /\ n = save.i /\ n \in Nat /\ n < mem.count
      /\ file.len = file.at[n] /\ file.len \in Nat
      /\ file.content = mem /\ WellFormed(mem) /\ load.pc = "idle" /\ appr_alg = "live"
  BY DEF SaveList, IInv, SaveInv, FileInv, MemInv
<1>2. size \in Nat /\ size > 0 /\ mem.count \in Nat
  BY <1>1, ListSize, IndexFileAssumption, SMT DEF WellFormed
<1>3. /\ WriteList(n) /\ save' = [save EXCEPT !.i = @ + 1]
      /\ UNCHANGED <<appr_alg, mem, load>>
  BY <1>1 DEF SaveList
<1>4. file' = [content |-> mem, len |-> end, n |-> n + 1,
               at |-> [k \in 0 .. n + 1 |-> IF k < n + 1 THEN file.at[k] ELSE end]]
  <2>1. file' = [file EXCEPT !.len = end, !.n = n + 1,
                    !.at = [k \in 0 .. n + 1 |-> IF k < n + 1 THEN file.at[k] ELSE end]]
    BY <1>1, <1>3 DEF WriteList, Extend
  <2> HIDE DEF end, n
  <2> QED BY <1>1, <2>1 DEF IInv, Shape
<1>5. save' = [pc |-> "lists", i |-> n + 1]
  BY <1>1, <1>3 DEF IInv, Shape
<1> HIDE DEF n, size
<1>6. /\ file'.content = mem /\ file'.len = end /\ file'.n = n + 1
      /\ \A k \in 0 .. n : file'.at[k] = file.at[k]
      /\ file'.at[n + 1] = end
  BY <1>1, <1>4, SMT
<1>7. Layout(file') \/ mem = None
  <2> SUFFICES ASSUME mem # None PROVE Layout(file')
    OBVIOUS
  <2>1. Layout(file)
    BY <1>1, SMT DEF IInv, FileInv, n
  <2>2. \A i \in 0 .. n : file.at[i] \in Nat /\ file.at[i] <= file.at[n]
    BY <1>1, <2>1, SMT DEF Layout, n
  <2>3. end \in Nat /\ file.at[n] < end
    BY <1>1, <1>2, SMT
  <2>4. \A i \in 0 .. n + 1 : file'.at[i] \in Nat
    BY <1>1, <1>6, <2>2, <2>3, SMT
  <2>5. file'.at[0] = HeaderSize + mem.count * size_data_per_element
    BY <1>1, <1>6, <2>1, SMT DEF Layout, n
  <2>6. \A i \in 0 .. n : file'.at[i + 1] = file'.at[i] + SizeOfUnsigned + linkListSize(mem, i)
    <3> TAKE i \in 0 .. n
    <3>1. CASE i = n
      <4>1. linkListSize(mem, n) \in Nat /\ SizeOfUnsigned \in Nat /\ file.at[n] \in Nat
        BY <1>1, <2>2, ListSize, IndexFileAssumption, SMT DEF WellFormed
      <4> QED BY <1>1, <1>6, <3>1, <4>1, SMT DEF size
    <3>2. CASE i # n
      <4>1. i \in 0 .. n - 1 /\ i + 1 \in 0 .. n
        BY <1>1, <3>2, SMT
      <4> QED BY <1>1, <1>6, <2>1, <4>1 DEF Layout, n
    <3> QED BY <3>1, <3>2
  <2>7. \A i, j \in 0 .. n + 1 : i < j => file'.at[i] < file'.at[j]
    <3> SUFFICES ASSUME NEW i \in 0 .. n + 1, NEW j \in 0 .. n + 1, i < j
                 PROVE  file'.at[i] < file'.at[j]
      OBVIOUS
    <3>1. i \in 0 .. n
      BY <1>1, SMT
    <3>2. CASE j = n + 1
      BY <1>1, <1>6, <2>2, <2>3, <3>1, <3>2, SMT
    <3>3. CASE j # n + 1
      <4>1. j \in 0 .. n
        BY <1>1, <3>3, SMT
      <4> QED BY <1>6, <2>1, <3>1, <4>1 DEF Layout, n
    <3> QED BY <3>2, <3>3
  <2>8. (n + 1) - 1 = n /\ n + 1 <= mem.count
    BY <1>1, <1>2, SMT
  <2> QED BY <1>6, <2>3, <2>4, <2>5, <2>6, <2>7, <2>8, SMT DEF Layout
<1>8. Shape'
  BY <1>3, <1>4, <1>5 DEF IInv, Shape
<1>9. FileInv'
  BY <1>1, <1>2, <1>6, <1>7, SMT DEF FileInv
<1>10. MemInv' /\ SaveInv' /\ LoadInv'
  BY <1>1, <1>3, <1>5, <1>6, SMT DEF IInv, MemInv, SaveInv, LoadInv
<1> QED BY <1>8, <1>9, <1>10 DEF IInv

\* A save that ends, at its end or before it, leaves part of what it wrote.
LEMMA SaveEndsIInv ==
  ASSUME IInv, SaveClose \/ \E len \in 0 .. file.len : DiskFull(len)
  PROVE  IInv'
<1>1. PICK len \in 0 .. file.len :
         /\ file' = [file EXCEPT !.len = len] \/ (file' = file /\ len = file.len)
         /\ save' = NotSaving /\ save.pc # "idle" /\ UNCHANGED <<appr_alg, mem, load>>
  BY SMT DEF SaveClose, DiskFull, IInv, FileInv
<1>2. file' = [content |-> file.content, len |-> len, n |-> file.n, at |-> file.at]
  BY <1>1 DEF IInv, Shape
<1>3. Shape'
  BY <1>1, <1>2 DEF IInv, Shape, NotSaving
<1>4. FileInv'
  BY <1>2, SMT DEF IInv, FileInv, Layout
<1>5. MemInv' /\ SaveInv' /\ LoadInv'
  BY <1>1 DEF IInv, MemInv, SaveInv, LoadInv, NotSaving
<1> QED BY <1>3, <1>4, <1>5 DEF IInv

\* A crash leaves part of what a save wrote.
LEMMA CrashIInv ==
  ASSUME IInv, NEW len \in 0 .. file.len, Crash(len)
  PROVE  IInv'
<1>1. file' = [content |-> file.content, len |-> len, n |-> file.n, at |-> file.at]
  BY DEF Crash, IInv, Shape
<1>2. appr_alg' = "null" /\ save' = NotSaving /\ load' = NotLoading
  BY DEF Crash
<1>3. Shape'
  BY <1>1, <1>2, NotLoadingFields DEF IInv, Shape, NotSaving, NotLoading
<1>4. FileInv'
  BY <1>1, SMT DEF IInv, FileInv, Layout
<1>5. MemInv' /\ SaveInv' /\ LoadInv'
  BY <1>2 DEF MemInv, SaveInv, LoadInv, NotSaving, NotLoading
<1> QED BY <1>3, <1>4, <1>5 DEF IInv

\* load_index begins, or finds no file.
LEMMA LoadOpenIInv ==
  ASSUME IInv, NEW room \in Rooms, LoadOpen(room)
  PROVE  IInv'
<1>1. /\ save.pc = "idle" /\ appr_alg' # "live" /\ UNCHANGED <<file, save>>
      /\ \/ load' = NotLoading
         \/ file.content # None /\ load' = [NotLoading EXCEPT !.pc = "header", !.max_elements = room]
  BY DEF LoadOpen, Quiet
<1>2. room \in Nat
  BY IndexFileAssumption
<1>3. \/ load' = NotLoading
      \/ /\ file.content # None /\ HasLoadFields(load')
         /\ load'.pc = "header" /\ load'.i = NotLoading.i /\ load'.max_elements = room
         /\ load'.fail = NotLoading.fail
  BY <1>1, NotLoadingFields DEF HasLoadFields
<1>6. Shape'
  BY <1>1, <1>3, NotLoadingFields DEF IInv, Shape
<1>4. FileInv' /\ MemInv' /\ SaveInv'
  BY <1>1 DEF IInv, FileInv, Layout, MemInv, SaveInv
<1>5. LoadInv'
  BY <1>1, <1>2, <1>3, NotLoadingFields DEF LoadInv
<1> QED BY <1>4, <1>5, <1>6 DEF IInv

\* A loader that only moves on owes its own invariant.
LEMMA LoaderMoves ==
  ASSUME IInv, load.pc # "idle", UNCHANGED <<appr_alg, mem, file, save>>,
         HasLoadFields(load'), load'.fail \in BOOLEAN, LoadInv'
  PROVE  IInv'
<1>3. Shape'
  BY DEF IInv, Shape
<1>4. FileInv' /\ MemInv' /\ SaveInv'
  BY DEF IInv, FileInv, Layout, MemInv, SaveInv
<1> QED BY <1>3, <1>4 DEF IInv

\* An exception ends the loading.
LEMMA ThrowIInv ==
  ASSUME IInv, load.pc # "idle", Throw
  PROVE  IInv'
<1>1. load' = NotLoading /\ UNCHANGED <<appr_alg, mem, file, save>>
  BY DEF Throw
<1>2. LoadInv'
  BY <1>1 DEF LoadInv, NotLoading
<1>3. load'.fail \in BOOLEAN
  BY <1>1 DEF NotLoading
<1> QED BY <1>1, <1>2, <1>3, LoaderMoves, NotLoadingFields

\* loadIndex reads the header: a whole one has the count that was saved.
LEMMA LoadHeaderIInv ==
  ASSUME IInv, LoadHeader
  PROVE  IInv'
<1>1. /\ load.pc = "header" /\ load.i = 0 /\ file.content # None
      /\ load.max_elements \in Nat /\ UNCHANGED <<appr_alg, mem, file, save>>
  BY DEF LoadHeader, IInv, LoadInv
<1>2. PICK count :
         /\ file.len >= CountEnd => count = file.content.count
         /\ load' = [load EXCEPT !.pc = "check", !.count = count,
                              !.max_elements = Room(count, file.content.max_elements),
                              !.fail = file.len < HeaderSize,
                              !.pos = HeaderSize + count * size_data_per_element]
  <2>1. file.len \in Nat /\ CountEnd \in Nat
    BY IndexFileAssumption DEF IInv, FileInv
  <2>2. file.len >= CountEnd => ~(file.len < CountEnd)
    BY <2>1, SMT
  <2> QED BY <2>2 DEF LoadHeader
<1> DEFINE bad == file.len < HeaderSize
           room == Room(count, file.content.max_elements)
           pos == HeaderSize + count * size_data_per_element
<1> HIDE DEF bad, room, pos
<1>3. HasLoadFields(load)
  BY DEF IInv, Shape
<1>4. load' = [load EXCEPT !.pc = "check", !.count = count, !.max_elements = room,
                           !.fail = bad, !.pos = pos]
  BY <1>2 DEF bad, room, pos
<1>5. /\ HasLoadFields(load') /\ load'.pc = "check" /\ load'.i = load.i /\ load'.pos = pos
      /\ load'.count = count /\ load'.max_elements = room
  BY <1>3, <1>4 DEF HasLoadFields
<1>6. load'.fail = bad /\ bad \in BOOLEAN
  <2>1. load'.fail = bad
    BY <1>3, <1>4 DEF HasLoadFields
  <2> QED BY <2>1, SMT DEF bad
<1>7. LoadInv'
  <2>1. CASE bad
    BY <1>1, <1>5, <1>6, <2>1 DEF LoadInv, bad
  <2>2. CASE ~bad
    <3>1. file.len \in Nat /\ HeaderSize \in Nat /\ CountEnd \in Nat /\ CountEnd <= HeaderSize
      BY IndexFileAssumption DEF IInv, FileInv
    <3>2. count = file.content.count
      BY <1>2, <2>2, <3>1, SMT DEF bad
    <3>3. WellFormed(file.content)
      BY <1>1 DEF IInv, FileInv
    <3>4. room \in Nat /\ count <= room /\ count \in Nat
      BY <1>1, <3>2, <3>3, SMT DEF Room, WellFormed, room
    <3>5. file.n # -1 /\ file.n \in Nat /\ pos = file.at[0]
      <4>1. file.len > 0
        BY <2>2, <3>1, IndexFileAssumption, SMT DEF bad
      <4>2. file.n # -1 /\ file.n \in Nat
        BY <4>1, SMT DEF IInv, FileInv
      <4>3. Layout(file)
        BY <1>1, <4>2 DEF IInv, FileInv
      <4> QED BY <3>2, <4>2, <4>3 DEF Layout, pos
    <3> QED BY <1>1, <1>5, <1>6, <2>2, <3>2, <3>4, <3>5, SMT DEF LoadInv
  <2> QED BY <2>1, <2>2
<1> QED BY <1>1, <1>5, <1>6, <1>7, LoaderMoves

\* What is read at the beginning of an element's lists is their size, and a
\* stream that is not at the end is at the beginning of some element's lists.
LEMMA ReadsSize ==
  ASSUME IInv, load.pc \in {"check", "lists"}, ~load.fail, load.i < load.count,
         load.pos < file.len
  PROVE  /\ load.i + 1 <= file.n
         /\ CanRead => SizeRead = {linkListSize(file.content, load.i)}
         /\ file.at[load.i + 1]
              = load.pos + SizeOfUnsigned + linkListSize(file.content, load.i)
<1> DEFINE i == load.i
           n == file.n
<1>1. /\ n # -1 /\ load.count = file.content.count /\ file.content # None
      /\ i \in 0 .. load.count /\ i <= n /\ load.pos = file.at[i]
  BY DEF IInv, LoadInv
<1>2. n \in Nat /\ Layout(file) /\ file.len \in Nat /\ WellFormed(file.content)
  BY <1>1 DEF IInv, FileInv
<1> HIDE DEF i, n
<1>3. i \in 0 .. n /\ i \in Nat /\ i < file.content.count /\ file.content.count \in Nat
  BY <1>1, <1>2, SMT DEF WellFormed, i
<1>4. i # n
  BY <1>1, <1>2, <1>3, SMT DEF Layout, n
<1>5. i \in 0 .. n - 1
  BY <1>2, <1>3, <1>4, SMT
<1>6. file.at[i + 1] = load.pos + SizeOfUnsigned + linkListSize(file.content, i)
  BY <1>1, <1>2, <1>5 DEF Layout, n
<1>7. {j \in 0 .. n : j < file.content.count /\ file.at[j] = load.pos} = {i}
  <2>1. ASSUME NEW j \in 0 .. n, file.at[j] = load.pos PROVE j = i
    <3>1. j < i => file.at[j] < file.at[i]
      BY <1>2, <1>3 DEF Layout, n
    <3>2. i < j => file.at[i] < file.at[j]
      BY <1>2, <1>3 DEF Layout, n
    <3>3. file.at[i] \in Nat
      BY <1>2, <1>3 DEF Layout, n
    <3> QED BY <1>1, <1>2, <1>3, <2>1, <3>1, <3>2, <3>3, SMT
  <2> QED BY <1>1, <1>3, <2>1
<1>8. CanRead => SizeRead = {linkListSize(file.content, i)}
  <2> SUFFICES ASSUME CanRead PROVE SizeRead = {linkListSize(file.content, i)}
    OBVIOUS
  <2>1. SizeRead = {linkListSize(file.content, j) : j \in {i}}
    BY <1>7 DEF SizeRead, n
  <2> QED BY <2>1
<1>9. i + 1 <= n
  BY <1>2, <1>5, SMT
<1> QED BY <1>6, <1>8, <1>9 DEF i, n

\* The check skips one element, or throws.
LEMMA CheckListIInv ==
  ASSUME IInv, CheckList
  PROVE  IInv'
<1>1. load.pc = "check" /\ load.i < load.count /\ file.content # None
  BY DEF CheckList, IInv, LoadInv
<1>2. CASE Beyond
  BY <1>1, <1>2, ThrowIInv DEF CheckList
<1>3. CASE ~Beyond
  <2>1. UNCHANGED <<appr_alg, mem, file, save>>
    BY <1>3 DEF CheckList
  <2>2. ~load.fail /\ load.pos < file.len
    <3>1. ~load.fail
      BY <1>3, SMT DEF Beyond, tellg
    <3>2. file.n # -1 /\ file.n \in Nat /\ load.pos = file.at[load.i] /\ load.i \in 0 .. file.n
      BY <1>1, <3>1, SMT DEF IInv, LoadInv, FileInv
    <3>3. load.pos \in Nat /\ file.len \in Nat
      BY <1>1, <3>2 DEF IInv, FileInv, Layout
    <3> QED BY <1>3, <3>1, <3>3, SMT DEF Beyond, tellg
  <2>3. HasLoadFields(load) /\ load.fail \in BOOLEAN
    BY DEF IInv, Shape
  <2>4. CASE CanRead
    <3>1. PICK size \in SizeRead :
            load' = [load EXCEPT !.i = @ + 1, !.pos = @ + SizeOfUnsigned + size]
      BY <1>3, <2>4 DEF CheckList
    <3>2. /\ size = linkListSize(file.content, load.i) /\ load.i + 1 <= file.n
          /\ file.at[load.i + 1] = load.pos + SizeOfUnsigned + size
      BY <1>1, <2>2, <2>4, <3>1, ReadsSize
    <3>3. /\ HasLoadFields(load') /\ load'.pc = load.pc /\ load'.i = load.i + 1
          /\ load'.pos = load.pos + SizeOfUnsigned + size /\ load'.count = load.count
          /\ load'.fail = load.fail /\ load'.max_elements = load.max_elements
      BY <2>3, <3>1 DEF HasLoadFields
    <3>4. LoadInv'
      <4>1. load'.pc = "check" /\ load'.i \in 0 .. load.count /\ load'.pos = file.at[load'.i]
        <5>1. load.i \in 0 .. load.count /\ load.count = file.content.count
          BY <1>1, <2>2 DEF IInv, LoadInv
        <5>2. file.content.count \in Nat
          BY <1>1 DEF IInv, FileInv, WellFormed
        <5>3. load.i + 1 \in 0 .. load.count
          BY <1>1, <5>1, <5>2, SMT
        <5> QED BY <1>1, <3>2, <3>3, <5>3
      <4> QED BY <1>1, <2>1, <2>2, <3>2, <3>3, <4>1 DEF IInv, LoadInv
    <3> QED BY <1>1, <2>1, <2>3, <3>3, <3>4, LoaderMoves
  <2>5. CASE ~CanRead
    <3>1. load' = [load EXCEPT !.i = @ + 1, !.fail = TRUE]
      BY <1>3, <2>5 DEF CheckList
    <3>2. HasLoadFields(load') /\ load'.pc = load.pc /\ load'.fail = TRUE
      BY <2>3, <3>1 DEF HasLoadFields
    <3>3. LoadInv'
      BY <1>1, <2>1, <3>2 DEF LoadInv
    <3> QED BY <1>1, <2>1, <3>2, <3>3, LoaderMoves
  <2> QED BY <2>4, <2>5
<1> QED BY <1>2, <1>3

\* The check ends: the stream is at the end of the file only if it is at the end
\* of the last list.
LEMMA CheckEndIInv ==
  ASSUME IInv, CheckEnd
  PROVE  IInv'
<1>1. load.pc = "check" /\ load.i = load.count /\ file.content # None
  BY DEF CheckEnd, IInv, LoadInv
<1>2. CASE WrongEnd
  BY <1>1, <1>2, ThrowIInv DEF CheckEnd
<1>3. CASE ~WrongEnd
  <2>1. UNCHANGED <<appr_alg, mem, file, save>>
    BY <1>3 DEF CheckEnd
  <2>2. load' = [load EXCEPT !.pc = "lists", !.i = 0,
                    !.pos = HeaderSize + load.count * size_data_per_element]
    BY <1>3 DEF CheckEnd
  <2>3. HasLoadFields(load) /\ load.fail \in BOOLEAN /\ file.len \in Nat
    BY DEF IInv, Shape, FileInv
  <2>4. ~load.fail /\ load.pos = file.len
    BY <1>3, <2>3, SMT DEF WrongEnd, tellg
  <2>5. /\ file.n # -1 /\ load.count = file.content.count
        /\ load.max_elements \in Nat /\ load.count <= load.max_elements
        /\ load.i <= file.n /\ load.pos = file.at[load.i]
    BY <1>1, <2>4 DEF IInv, LoadInv
  <2>6. file.n \in Nat /\ Layout(file) /\ WellFormed(file.content)
    BY <1>1, <2>5 DEF IInv, FileInv
  <2>7. file.n = file.content.count
    BY <1>1, <2>5, <2>6, SMT DEF Layout, WellFormed
  <2>8. file.len = file.at[file.n]
    BY <1>1, <2>4, <2>5, <2>7
  <2>9. /\ HasLoadFields(load') /\ load'.pc = "lists" /\ load'.i = 0
        /\ load'.pos = HeaderSize + load.count * size_data_per_element
        /\ load'.count = load.count /\ load'.fail = load.fail
        /\ load'.max_elements = load.max_elements
    BY <2>2, <2>3 DEF HasLoadFields
  <2>10. load'.pos = file.at[0] /\ load.count \in Nat
    BY <2>5, <2>6, <2>9 DEF Layout, WellFormed
  <2>11. LoadInv'
    BY <1>1, <2>1, <2>4, <2>5, <2>6, <2>7, <2>8, <2>9, <2>10, SMT DEF LoadInv
  <2> QED BY <1>1, <2>1, <2>3, <2>9, <2>11, LoaderMoves
<1> QED BY <1>2, <1>3

\* The lists of one element are read, and its level is what it was.
LEMMA LoadListIInv ==
  ASSUME IInv, LoadList
  PROVE  IInv'
<1> DEFINE i == load.i
           n == file.n
<1>1. /\ load.pc = "lists" /\ i < load.count /\ file.content # None /\ ~load.fail
      /\ n # -1 /\ load.count = file.content.count /\ i \in 0 .. load.count
      /\ load.max_elements \in Nat /\ load.count <= load.max_elements
      /\ load.pos = file.at[i] /\ n = file.content.count /\ file.len = file.at[n]
      /\ \A j \in 0 .. i - 1 : load.level[j] = file.content.level[j]
      /\ UNCHANGED <<appr_alg, mem, file, save>>
  BY DEF LoadList, IInv, LoadInv
<1>2. n \in Nat /\ Layout(file) /\ file.len \in Nat /\ WellFormed(file.content)
  BY <1>1 DEF IInv, FileInv
<1> HIDE DEF i, n
<1>3. i \in Nat /\ i \in 0 .. n - 1 /\ i + 1 \in 0 .. n
  BY <1>1, <1>2, SMT
<1>4. load.pos < file.len
  BY <1>1, <1>2, <1>3, SMT DEF Layout, n
<1>5. /\ CanRead => SizeRead = {linkListSize(file.content, i)}
      /\ file.at[i + 1] = load.pos + SizeOfUnsigned + linkListSize(file.content, i)
  BY <1>1, <1>4, ReadsSize DEF i
<1>6. file.content.level[i] \in Nat
  BY <1>1, <1>3 DEF WellFormed, IInv, FileInv
<1>7. /\ linkListSize(file.content, i) \in Nat
      /\ linkListSize(file.content, i) \div size_links_per_element = file.content.level[i]
  BY <1>6, ListSize
<1>8. CanRead
  <2>1. file.at[i + 1] <= file.at[n]
    BY <1>2, <1>3, SMT DEF Layout, n
  <2>2. file.at[i] \in Nat /\ SizeOfUnsigned \in Nat
    BY <1>2, <1>3, IndexFileAssumption, SMT DEF Layout, n
  <2>3. load.pos + SizeOfUnsigned <= file.len
    BY <1>1, <1>2, <1>5, <1>7, <2>1, <2>2, SMT
  <2> QED BY <1>1, <2>3 DEF CanRead
<1> DEFINE size == linkListSize(file.content, i)
           level == [j \in 0 .. i |->
                       IF j < i THEN load.level[j] ELSE size \div size_links_per_element]
<1>9. load' = [load EXCEPT !.i = i + 1, !.pos = load.pos + SizeOfUnsigned + size,
                           !.level = level]
  BY <1>5, <1>8 DEF LoadList, i
<1> HIDE DEF level
<1>10. HasLoadFields(load) /\ load.fail \in BOOLEAN
  BY DEF IInv, Shape
<1>11. /\ HasLoadFields(load') /\ load'.pc = load.pc /\ load'.i = i + 1
       /\ load'.pos = load.pos + SizeOfUnsigned + size
       /\ load'.count = load.count /\ load'.fail = load.fail
       /\ load'.max_elements = load.max_elements /\ load'.level = level
  BY <1>9, <1>10 DEF HasLoadFields
<1>12. \A j \in 0 .. (i + 1) - 1 : level[j] = file.content.level[j]
  <2> SUFFICES ASSUME NEW j \in 0 .. (i + 1) - 1 PROVE level[j] = file.content.level[j]
    OBVIOUS
  <2>1. j \in 0 .. i /\ (j < i => j \in 0 .. i - 1) /\ (~(j < i) => j = i)
    BY <1>3, SMT
  <2> QED BY <1>1, <1>7, <2>1 DEF level
<1>13. LoadInv'
  <2>1. load'.pos = file.at[i + 1] /\ i + 1 \in 0 .. load.count /\ i + 1 <= n
    BY <1>1, <1>2, <1>3, <1>5, <1>11, SMT
  <2> QED BY <1>1, <1>11, <1>12, <2>1 DEF LoadInv, n
<1> QED BY <1>1, <1>10, <1>11, <1>13, LoaderMoves

\* The index that is loaded is well formed.
LEMMA LoadDoneIInv ==
  ASSUME IInv, LoadDone
  PROVE  IInv'
<1>1. /\ load.pc = "lists" /\ load.i = load.count /\ load' = NotLoading
      /\ mem' = [count |-> load.count, max_elements |-> load.max_elements,
                 level |-> load.level]
      /\ UNCHANGED <<file, save>> /\ save.pc = "idle"
  BY DEF LoadDone, IInv, MemInv
<1>2. /\ load.count = file.content.count /\ file.content # None
      /\ load.max_elements \in Nat /\ load.count <= load.max_elements
      /\ \A j \in 0 .. load.count - 1 : load.level[j] = file.content.level[j]
  BY <1>1 DEF IInv, LoadInv
<1>3. WellFormed(file.content)
  BY <1>2 DEF IInv, FileInv
<1>4. WellFormed(mem')
  BY <1>1, <1>2, <1>3 DEF WellFormed
<1>5. Shape'
  BY <1>1, NotLoadingFields DEF IInv, Shape
<1>6. FileInv' /\ MemInv' /\ SaveInv' /\ LoadInv'
  BY <1>1, <1>4, NotLoadingFields DEF IInv, FileInv, Layout, MemInv, SaveInv, LoadInv
<1> QED BY <1>5, <1>6 DEF IInv

\* Every step keeps the invariant.
LEMMA NextIInv == IInv /\ [Next]_vars => IInv'
<1> SUFFICES ASSUME IInv, [Next]_vars PROVE IInv'
  OBVIOUS
<1>1. CASE UNCHANGED vars
  BY <1>1 DEF vars, IInv, Shape, HasLoadFields, FileInv, Layout, MemInv, SaveInv, LoadInv
<1>2. CASE Next
  BY <1>2, BuildIInv, SaveOpenIInv, SaveLevel0IInv, SaveListIInv, SaveEndsIInv, CrashIInv,
     LoadOpenIInv, LoadHeaderIInv, CheckListIInv, CheckEndIInv, LoadListIInv, LoadDoneIInv
     DEF Next
<1> QED BY <1>1, <1>2

\* Whatever the sizes, however long the index and wherever a crash or a full
\* disk cuts the file, loadIndex gets past its checks only with a whole file.
THEOREM FileIsWhole == Spec => []TornFileRefused
<1>1. IInv => TornFileRefused
  BY DEF IInv, LoadInv, TornFileRefused
<1> QED BY <1>1, InitIInv, NextIInv, PTL DEF Spec

\* And what it makes of the file is the index saveIndex was given.
THEOREM IndexIsRestored == Spec => []LoadRestores
<1>1. IInv => LoadRestores
  BY DEF IInv, LoadInv, LoadRestores
<1> QED BY <1>1, InitIInv, NextIInv, PTL DEF Spec

=============================================================================

-------------------------- MODULE DistanceKernels ---------------------------
(***************************************************************************)
(* The distance functions (space_l2.h, space_ip.h) and the choice among    *)
(* them by build, processor and dimension.  A function adds up one term    *)
(* per component; which terms were added, lane by lane, is all that is     *)
(* kept of the sums.                                                       *)
(***************************************************************************)
EXTENDS Integers, FiniteSets, SequencesExt

CONSTANTS
    Dims,           \* the dimensions of spaces
    Cpus,           \* processors: the features cpuid and xgetbv report
    VLMAX           \* RVV: 32-bit lanes of a register

ASSUME KernelAssumption ==
    Dims \subseteq Nat /\ VLMAX \in Nat \ {0}

VARIABLES
    space,      \* L2Space, InnerProductSpace or L2SpaceI
    build,      \* which of USE_RVV, USE_SSE, USE_AVX, USE_AVX512 is defined
    cpu, dim,
    agnostic,   \* RVV: does the processor overwrite lanes past vl?
    pc,
    stage,      \* the loop of the function that is running
    i,          \* pVect1's offset: the next component to load
    acc,        \* accumulator lanes: the terms added to each
    result      \* the terms in the returned sum

conf == <<space, build, cpu, dim, agnostic>>
vars == <<conf, pc, stage, i, acc, result>>

\* A term that is no component: what an overwritten lane holds.
Junk == -1

-----------------------------------------------------------------------------
(* The functions, as the loops they run one after the other.               *)

\* A loop that loads lanes components unroll times per round, up to end.
Loop(lanes, unroll, end) == [lanes |-> lanes, unroll |-> unroll, end |-> end]

\* Mutant form: rounded up.
RoundUp(qty, n) == n * ((qty + n - 1) \div n)

Round(qty, n) == n * (qty \div n)

AVXCapable == {"avx", "xsave", "ymm"} \subseteq cpu
AVX512Capable == AVXCapable /\ {"avx512f", "zmm"} \subseteq cpu

UseAVX512 == build = "avx512" /\ AVX512Capable
UseAVX == build \in {"avx", "avx512"} /\ AVXCapable

L2Sqr(qty) == <<Loop(1, 1, qty)>>

L2SqrSIMD16Ext(qty) ==
    IF UseAVX512 THEN <<Loop(16, 1, Round(qty, 16))>>
    ELSE IF UseAVX THEN <<Loop(8, 2, Round(qty, 16))>>
    ELSE <<Loop(4, 4, Round(qty, 16))>>

L2SqrSIMD4Ext(qty) == <<Loop(4, 1, Round(qty, 4))>>

InnerProduct(qty) == <<Loop(1, 1, qty)>>

InnerProductSIMD16Ext(qty) ==
    IF UseAVX512 THEN <<Loop(16, 4, 64 * ((qty \div 16) \div 4)), Loop(16, 1, Round(qty, 16))>>
    ELSE IF UseAVX THEN <<Loop(8, 2, Round(qty, 16))>>
    ELSE <<Loop(4, 4, Round(qty, 16))>>

InnerProductSIMD4Ext(qty) ==
    IF UseAVX
    THEN <<Loop(8, 2, Round(qty, 16)), Loop(4, 1, Round(qty, 4))>>
    ELSE <<Loop(4, 4, Round(qty, 16)), Loop(4, 1, Round(qty, 4))>>

L2SqrSIMD16ExtResiduals(qty) == L2SqrSIMD16Ext(Round(qty, 16)) \o L2Sqr(qty)
L2SqrSIMD4ExtResiduals(qty) == L2SqrSIMD4Ext(Round(qty, 4)) \o L2Sqr(qty)
InnerProductSIMD16ExtResiduals(qty) ==
    InnerProductSIMD16Ext(Round(qty, 16)) \o InnerProduct(qty)
InnerProductSIMD4ExtResiduals(qty) ==
    InnerProductSIMD4Ext(Round(qty, 4)) \o InnerProduct(qty)

L2SqrI4x(qty) == <<Loop(1, 4, 4 * (qty \div 4))>>
L2SqrI(qty) == <<Loop(1, 1, qty)>>

L2SqrSIMDExtRVV(qty) == <<Loop(VLMAX, 1, qty)>>

-----------------------------------------------------------------------------
(* The constructors of the spaces choose the function.                     *)

\* Mutant form: functions without a tail loop from four components on.
L2SpaceNoResiduals ==
    IF build = "rvv" THEN L2SqrSIMDExtRVV(dim)
    ELSE IF build = "plain" THEN L2Sqr(dim)
    ELSE IF dim % 16 = 0 THEN L2SqrSIMD16Ext(dim)
    ELSE IF dim >= 4 THEN L2SqrSIMD4Ext(dim)
    ELSE L2Sqr(dim)

L2Space ==
    IF build = "rvv" THEN L2SqrSIMDExtRVV(dim)
    ELSE IF build = "plain" THEN L2Sqr(dim)
    ELSE IF dim % 16 = 0 THEN L2SqrSIMD16Ext(dim)
    ELSE IF dim % 4 = 0 THEN L2SqrSIMD4Ext(dim)
    ELSE IF dim > 16 THEN L2SqrSIMD16ExtResiduals(dim)
    ELSE IF dim > 4 THEN L2SqrSIMD4ExtResiduals(dim)
    ELSE L2Sqr(dim)

InnerProductSpace ==
    IF build \in {"rvv", "plain"} THEN InnerProduct(dim)
    ELSE IF dim % 16 = 0 THEN InnerProductSIMD16Ext(dim)
    ELSE IF dim % 4 = 0 THEN InnerProductSIMD4Ext(dim)
    ELSE IF dim > 16 THEN InnerProductSIMD16ExtResiduals(dim)
    ELSE IF dim > 4 THEN InnerProductSIMD4ExtResiduals(dim)
    ELSE InnerProduct(dim)

L2SpaceI == IF dim % 4 = 0 THEN L2SqrI4x(dim) ELSE L2SqrI(dim)

fstdistfunc ==
    CASE space = "l2" -> L2Space
      [] space = "ip" -> InnerProductSpace
      [] space = "l2i" -> L2SpaceI

Rvv == space = "l2" /\ build = "rvv"

-----------------------------------------------------------------------------
(* Running the function.                                                   *)

Lanes(n) == [l \in 0 .. n - 1 |-> <<>>]

\* The lanes added up into n lanes: lane l gets every n-th lane from l on.
Fold(n) ==
    [l \in 0 .. n - 1 |->
        FlattenSeq([k \in 1 .. Cardinality(DOMAIN acc) \div n |-> acc[l + n * (k - 1)]])]

\* One load, multiplication and addition per unrolled step, from offset from.
AddBlocks(loop, from) ==
    [l \in 0 .. loop.lanes - 1 |->
        acc[l] \o [u \in 1 .. loop.unroll |-> from + loop.lanes * (u - 1) + l]]

\* The lengths vsetvl may grant for avl remaining components.
Vsetvl(avl) ==
    IF avl <= VLMAX THEN {avl}
    ELSE IF avl < 2 * VLMAX THEN (avl + 1) \div 2 .. VLMAX
    ELSE {VLMAX}

Init ==
    /\ space \in {"l2", "ip", "l2i"}
    /\ build \in {"plain", "rvv", "sse", "avx", "avx512"}
    /\ cpu \in Cpus
    /\ dim \in Dims
    /\ agnostic \in (IF Rvv THEN BOOLEAN ELSE {FALSE})
    /\ pc = "idle" /\ stage = 1 /\ i = 0 /\ acc = Lanes(1) /\ result = <<>>

Call ==
    /\ pc \in {"idle", "returned"}
    /\ pc' = "loop" /\ stage' = 1 /\ i' = 0
    /\ acc' = Lanes(fstdistfunc[1].lanes)
    /\ result' = <<>>
    /\ UNCHANGED conf

\* A round of a scalar, SSE, AVX or AVX512 loop.
Block ==
    LET loop == fstdistfunc[stage]
    IN  /\ pc = "loop" /\ ~Rvv /\ i < loop.end
        /\ acc' = AddBlocks(loop, i)
        /\ i' = i + loop.lanes * loop.unroll
        /\ UNCHANGED <<conf, pc, stage, result>>

\* Mutant form: the length asked for is one too small.
RemainingShort == dim - i - 1

Remaining == dim - i

\* A round of the RVV loop.  The addition writes vl lanes of its destination
\* register.  It names no tail policy, so the ones behind are agnostic: a
\* processor may leave them alone, which keeps the sums when the destination is
\* vec_sum_acc's own register, or fill any of them with ones.
VectorBlock ==
    /\ pc = "loop" /\ Rvv /\ i < dim
    /\ \E vl \in Vsetvl(Remaining) :
         \E junk \in SUBSET (IF agnostic THEN vl .. VLMAX - 1 ELSE {}) :
            /\ acc' = [l \in 0 .. VLMAX - 1 |->
                          IF l < vl THEN Append(acc[l], i + l)
                          ELSE IF l \in junk THEN <<Junk>> ELSE acc[l]]
            /\ i' = i + vl
    /\ UNCHANGED <<conf, pc, stage, result>>

\* The sums of a finished loop go into the lanes of the next one.
NextLoop ==
    /\ pc = "loop" /\ i >= fstdistfunc[stage].end /\ stage < Len(fstdistfunc)
    /\ acc' = Fold(fstdistfunc[stage + 1].lanes)
    /\ stage' = stage + 1
    /\ UNCHANGED <<conf, pc, i, result>>

\* All lanes are added up and returned.
Return ==
    /\ pc = "loop" /\ i >= fstdistfunc[stage].end /\ stage = Len(fstdistfunc)
    /\ result' = Fold(1)[0]
    /\ pc' = "returned"
    /\ UNCHANGED <<conf, stage, i, acc>>

Next == Call \/ Block \/ VectorBlock \/ NextLoop \/ Return

\* The function is a loop in one thread: once called it keeps running.
Spec == Init /\ [][Next]_vars /\ WF_vars(Block \/ VectorBlock \/ NextLoop \/ Return)

-----------------------------------------------------------------------------
(* Properties.                                                             *)

EachOnce == Len(result) = dim /\ Range(result) = 0 .. dim - 1

\* Every build, on every processor and for every dimension, returns the sum
\* over all components, each counted once, however vsetvl splits them; the
\* RVV function does when VLMAX divides the dimension or lanes past vl are kept.
SumExact ==
    pc = "returned" /\ (agnostic => dim % VLMAX = 0) => EachOnce

\* The RVV function's loop takes care of the tail: it too counts each
\* component once for every dimension, as its closing comment says.
TailHandled == pc = "returned" => EachOnce

\* No function loads a component past the end of a vector.
InBounds == i <= dim

\* Every call returns: each round of each loop advances.
CallReturns == pc = "loop" ~> pc = "returned"

=============================================================================

------------------------- MODULE MCDistanceKernels --------------------------
(***************************************************************************)
(* Small instances of DistanceKernels.  The dimensions reach both sides of *)
(* every threshold: 4, 16, one and two rounds of the loop unrolled to 64,  *)
(* each with no, short and long tails.                                     *)
(***************************************************************************)
EXTENDS DistanceKernels

MCDims == (0 .. 36) \cup (47 .. 49) \cup (63 .. 68) \cup {79, 80, 96, 100, 128, 131, 147}

\* No AVX; AVX; AVX512; AVX512 in hardware but not enabled by the system.
MCCpus == {{}, {"avx", "xsave", "ymm"}, {"avx", "xsave", "ymm", "avx512f", "zmm"},
           {"avx", "xsave", "ymm", "avx512f"}, {"avx", "avx512f"}}

=============================================================================

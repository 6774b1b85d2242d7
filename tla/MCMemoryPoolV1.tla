--------------------------- MODULE MCMemoryPoolV1 ---------------------------
(***************************************************************************)
(* MemoryPoolV1 with two threads.                                          *)
(***************************************************************************)
EXTENDS MemoryPoolV1, TLC

Symmetry == Permutations(Threads)
=============================================================================

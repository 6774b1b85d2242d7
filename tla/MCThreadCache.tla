---------------------------- MODULE MCThreadCache ----------------------------
(***************************************************************************)
(* ThreadCache with two threads and two classes that compete for four      *)
(* pages: a span of class 0 is a single block of a page, with a tail that  *)
(* is too short for another; a span of class 1 has two pages and two       *)
(* blocks.  Batches take two blocks and may need two spans, so that an     *)
(* exception may come with a block in hand.  Large objects take a page.    *)
(***************************************************************************)
EXTENDS ThreadCache, TLC

MCBlockSize       == 0 :> 2 @@ 1 :> 3
MCSpanPages       == 0 :> 1 @@ 1 :> 2
MCBatchNum        == 0 :> 2 @@ 1 :> 2
MCMaxCachedBlocks == 0 :> 2 @@ 1 :> 2

Symmetry == Permutations(Threads)
=============================================================================

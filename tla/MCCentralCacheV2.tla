-------------------------- MODULE MCCentralCacheV2 --------------------------
(***************************************************************************)
(* CentralCacheV2 with one class that cuts a page into three blocks, and   *)
(* with two classes, one that cuts a page into two blocks and one that     *)
(* makes a single block of a page.                                         *)
(***************************************************************************)
EXTENDS CentralCacheV2, TLC

MCOneSize  == 0 :> 1
MCOneSpan  == 0 :> 1
MCTwoSizes == 0 :> 1 @@ 1 :> 2
MCTwoSpans == 0 :> 1 @@ 1 :> 1

Symmetry == Permutations(Threads)
=============================================================================

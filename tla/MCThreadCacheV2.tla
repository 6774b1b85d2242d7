--------------------------- MODULE MCThreadCacheV2 ---------------------------
(***************************************************************************)
(* ThreadCacheV2 with three classes on two pages of two words: one cuts a  *)
(* page into two blocks, one a span of two pages into two blocks, and one  *)
(* makes a single block of a page.  Spans of one page and of two replace   *)
(* each other, so a tracker that is never removed comes to cover blocks of *)
(* another class and another length.  The program writes into the blocks   *)
(* it holds what looks like a link.                                        *)
(***************************************************************************)
EXTENDS ThreadCacheV2, TLC

MCBlockSize == 0 :> 1 @@ 1 :> 2 @@ 2 :> 2
MCSpanPages == 0 :> 1 @@ 1 :> 2 @@ 2 :> 1
MCThreshold == 0 :> 3 @@ 1 :> 1 @@ 2 :> 1

Symmetry == Permutations(Threads)
=============================================================================

--------------------------- MODULE MCCentralCache ---------------------------
(***************************************************************************)
(* CentralCache with two classes that compete for three pages: class 0     *)
(* cuts a page into two blocks and fetches three at a time, so that a      *)
(* batch takes blocks of several spans and may end, with or without an     *)
(* exception, in the middle; a span of class 1 is a single block, so that  *)
(* it is exhausted and given back whole.  Large objects take a page.       *)
(***************************************************************************)
EXTENDS CentralCache, TLC

MCBlockSize == 0 :> 1 @@ 1 :> 2
MCSpanPages == 0 :> 1 @@ 1 :> 1
MCBatchNum  == 0 :> 3 @@ 1 :> 1
=============================================================================

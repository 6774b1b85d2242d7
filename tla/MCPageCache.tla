---------------------------- MODULE MCPageCache ----------------------------
(***************************************************************************)
(* Instances of PageCache for TLC: six pages of address space, enough for  *)
(* a mapping cut in three with a second mapping beside it, and a cache     *)
(* budget smaller than the address space.                                  *)
(***************************************************************************)
EXTENDS PageCache
=============================================================================

---------------------------- MODULE MCPoolStats ----------------------------
(***************************************************************************)
(* The main thread and a worker that allocate, free each other's objects   *)
(* and let constructors throw; two allocations, so that a free of one      *)
(* object meets the allocation of another; one report, at any moment.  A   *)
(* refill brings two blocks and a list of two is halved, so refills and    *)
(* flushes happen.  One cached page makes the second page returned go to   *)
(* the OS.                                                                 *)
(***************************************************************************)
EXTENDS PoolStats

CONSTANTS main, worker

MCThreads == {main, worker}
=============================================================================

-------------------------- MODULE MCPageCacheSteps --------------------------
(***************************************************************************)
(* PageCacheSteps on few pages.                                            *)
(***************************************************************************)
EXTENDS PageCacheSteps
=============================================================================

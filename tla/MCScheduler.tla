----------------------------- MODULE MCScheduler -----------------------------
(***************************************************************************)
(* Instances of Scheduler, with the history of ServiceOrder, for TLC.      *)
(* Process ids are compared for equality only, so they are symmetric; runs *)
(* of liveness properties do not use it.                                   *)
(***************************************************************************)
EXTENDS ServiceOrder, TLC

Symmetry == Permutations(Pids)
==============================================================================

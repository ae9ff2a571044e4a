-------------------------- MODULE MCPagingAllocator --------------------------
(***************************************************************************)
(* Instances of PagingAllocator, with the history of ReplacementOrder, for *)
(* TLC.  Process ids and frame numbers are never compared by order, so     *)
(* both sets are symmetric.                                                *)
(***************************************************************************)
EXTENDS ReplacementOrder, TLC

Symmetry == Permutations(Pids) \cup Permutations(Frames)
==============================================================================

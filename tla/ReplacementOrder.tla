-------------------------- MODULE ReplacementOrder --------------------------
(***************************************************************************)
(* In which order the allocator evicts pages, told by a history of which   *)
(* page has been in memory longer.  The history looks at the page tables   *)
(* alone, never at the queue of frames, and Next never looks at it: it     *)
(* adds no behaviour and takes none away.                                  *)
(***************************************************************************)
EXTENDS PagingAllocator

VARIABLE
  older    \* history: the pairs <<p, q>> of resident pages, p there since
           \* before q was paged in

(* p and q are both resident after the step, and either p was older        *)
(* already or p was there when q was paged in.                             *)
NextOlder ==
  {pq \in Pages \X Pages :
     /\ Resident(pq[1])' /\ Resident(pq[2])'
     /\ pq \in older \/ (Resident(pq[1]) /\ ~ Resident(pq[2]))}

OrderedInit == Init /\ older = {}
OrderedNext == Next /\ older' = NextOlder
OrderedSpec == OrderedInit /\ [][OrderedNext]_<<vars, older>>

(* A page of a process that goes on living leaves its frame.               *)
Evicted(q) == Resident(q) /\ ~ Resident(q)' /\ memorySize'[q[1]] # 0

(* README.md, "When memory is full a FIFO victim page is evicted": a page  *)
(* is evicted before one that has been in memory longer only if a process  *)
(* was promised that one, whoever paged them in, and whatever processes    *)
(* died and left holes in the queue meanwhile.                             *)
OldestGoesFirst ==
  [][\A pq \in older :
       Evicted(pq[2]) /\ Resident(pq[1])' => pq[1] \in PromisedPages]_<<vars, older>>
==============================================================================

---------------------------- MODULE ServiceOrder ----------------------------
(***************************************************************************)
(* In which order the scheduler serves the processes that wait for a core, *)
(* told by a history of who has been waiting longer.  The history looks at *)
(* the processes' states alone, never at the queue, and Next never looks   *)
(* at it: it adds no behaviour and takes none away.                        *)
(***************************************************************************)
EXTENDS Scheduler

VARIABLE
  ahead    \* history: the pairs <<p, r>> that wait for a core, p since
           \* before r began to

(* p and r both wait after the step, and either p was ahead already or p   *)
(* waited when r was created, preempted or woken.                          *)
NextAhead ==
  {pr \in Pids \X Pids :
     /\ state'[pr[1]] = READY /\ state'[pr[2]] = READY
     /\ pr \in ahead \/ (state[pr[1]] = READY /\ state[pr[2]] # READY)}

OrderedInit == Init /\ ahead = {}
OrderedNext == Next /\ ahead' = NextAhead
OrderedSpec == OrderedInit /\ [][OrderedNext]_<<vars, ahead>>

(* First come, first served, under both policies: nobody, be it new, just  *)
(* preempted or back from sleep, leaves the ready queue before a process   *)
(* that fits in memory and has been waiting since before it.               *)
FirstComeFirstServed ==
  [][\A pr \in ahead :
       Admitted(pr[1]) /\ state'[pr[1]] = READY => state'[pr[2]] = READY]_<<vars, ahead>>
==============================================================================

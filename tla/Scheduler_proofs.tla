--------------------------- MODULE Scheduler_proofs ---------------------------
(***************************************************************************)
(* What a tick preserves, for any number of processes and cores, either    *)
(* policy, any quantum and any delay.  Inv is inductive: where a process   *)
(* is (Placement) decides what the allocator may know of it, and what its  *)
(* clocks say decides when it may move.                                    *)
(***************************************************************************)
EXTENDS ServiceOrder, FifoQueue_proofs

(* A sleeper has as many ticks left as its SLEEP asked for and did not get. *)
SleepClock ==
  \A p \in Pids : state[p] = SLEEPING =>
    ticksLeft[p] > 0 /\ slept[p].asked = slept[p].passed + ticksLeft[p]

Inv == TypeOK /\ Placement /\ TablesOfTheLiving /\ PinnedOnlyOnCore /\ SleepClock

------------------------------------------------------------------------------
(* The states are different from one another and from no state.            *)
LEMMA StatesDiffer ==
  /\ READY \notin {RUNNING, SLEEPING, FINISHED, TERMINATED, None}
  /\ RUNNING \notin {SLEEPING, FINISHED, TERMINATED, None}
  /\ SLEEPING \notin {FINISHED, TERMINATED, None}
  /\ None \notin Done
  BY NoneIsNothing DEF READY, RUNNING, SLEEPING, FINISHED, TERMINATED, Done, States

(* The core the tick is at exists, and what runs on it is RUNNING there.   *)
LEMMA AttemptedProcess ==
  ASSUME Inv, NEW p \in Pids, NEW o, Attempt(p, o)
  PROVE  /\ core \in CoreIds /\ core + 1 \in 0 .. NumCpu
         /\ cores[core] = p
         /\ state[p] = RUNNING /\ attachedCore[p] = core
         /\ \A q \in {readyQueue, sleepingQueue, finishedQueue} : p \notin Range(q)
<1>1. core \in CoreIds /\ core + 1 \in 0 .. NumCpu /\ cores[core] = p
  BY SchedulerConstants DEF Inv, TypeOK, Attempt, CoreIds
<1> QED
  BY <1>1, StatesDiffer DEF Inv, Placement, Done

(* The outcomes of an attempt, and what it does to the counters.           *)
LEMMA AttemptTypes ==
  ASSUME Inv, NEW p \in Pids, NEW o \in Outcomes \cup {Waiting}, Attempt(p, o)
  PROVE  /\ o.state \in States /\ o.sleep \in Nat
         /\ coreTickCounters' \in [CoreIds -> Nat]
         /\ busy' \in SUBSET CoreIds
         /\ core' \in 0 .. NumCpu
         /\ Charged(o, p) \in Nat /\ Executed(p, o) \in Nat
<1>1. core \in CoreIds /\ core + 1 \in 0 .. NumCpu
  BY AttemptedProcess
<1>2. o.state \in States /\ o.sleep \in Nat
  <2>1. CASE o \in Completed
    <3>1. 0 .. MaxSleep \subseteq Nat
      BY SchedulerConstants
    <3> QED
      BY <2>1, <3>1 DEF Completed, States
  <2>2. CASE o = Waiting
    BY <2>2 DEF Waiting, States
  <2>3. CASE o \in [result : {"PAGE_FAULT"}, state : {RUNNING}, sleep : {0},
                    pins : BOOLEAN]
    BY <2>3 DEF States
  <2>4. CASE o \in [result : {"VIOLATION"}, state : {TERMINATED}, sleep : {0},
                    pins : {FALSE}]
    BY <2>4 DEF States
  <2> QED
    BY <2>1, <2>2, <2>3, <2>4 DEF Outcomes
<1>3. Charged(o, p) \in Nat /\ Executed(p, o) \in Nat
  BY DEF Inv, TypeOK, Charged, Executed
<1>4. coreTickCounters' \in [CoreIds -> Nat]
  <2>1. \/ coreTickCounters' = [coreTickCounters EXCEPT ![core] = 0]
        \/ coreTickCounters' = [coreTickCounters EXCEPT ![core] = @ + 1]
    BY DEF Attempt
  <2>2. coreTickCounters \in [CoreIds -> Nat]
    BY DEF Inv, TypeOK
  <2> QED
    BY <1>1, <2>1, <2>2
<1> QED
  BY <1>1, <1>2, <1>3, <1>4 DEF Inv, TypeOK, Attempt

------------------------------------------------------------------------------
(* A process added between two ticks is ready, and known to the allocator. *)
LEMMA AddProcessStep ==
  ASSUME Inv, NEW p \in Pids, NEW size \in MemSizes, AddProcess(p, size)
  PROVE  Inv'
<1>1. p \notin Range(readyQueue)
  BY StatesDiffer DEF Inv, Placement, AddProcess
<1>2. /\ readyQueue' \in Seq(Pids)
      /\ IsInjective(readyQueue')
      /\ Range(readyQueue') = Range(readyQueue) \cup {p}
  BY <1>1, AppendNew DEF Inv, TypeOK, Placement, AddProcess
<1>3. TypeOK'
  BY <1>2 DEF Inv, TypeOK, AddProcess, history, States
<1>4. Placement'
  <2>1. /\ state[p] = None /\ state' = [state EXCEPT ![p] = READY]
        /\ UNCHANGED <<sleepingQueue, finishedQueue, cores, attachedCore>>
    BY DEF AddProcess
  <2>2. \A q \in Pids : state'[q] = IF q = p THEN READY ELSE state[q]
    BY <2>1 DEF Inv, TypeOK
  <2>3. /\ READY \notin Done \cup {SLEEPING, RUNNING}
        /\ None \notin Done \cup {SLEEPING, RUNNING}
    BY StatesDiffer DEF Done
  <2> QED
    BY <1>2, <2>1, <2>2, <2>3 DEF Inv, Placement
<1>5. TablesOfTheLiving' /\ PinnedOnlyOnCore'
  BY StatesDiffer DEF Inv, TypeOK, TablesOfTheLiving, PinnedOnlyOnCore, AddProcess
<1>6. SleepClock'
  BY StatesDiffer DEF Inv, TypeOK, SleepClock, AddProcess, history
<1> QED
  BY <1>3, <1>4, <1>5, <1>6 DEF Inv

(* Waking moves sleepers, in their order, behind the ready processes.      *)
LEMMA WakeSleepersStep ==
  ASSUME Inv, WakeSleepers
  PROVE  Inv'
<1> DEFINE sleepers == Range(sleepingQueue)
           woken    == Without(sleepingQueue, sleepers \ Woken)
<1>1. sleepers \subseteq Pids /\ Woken \subseteq sleepers
  BY DEF Inv, TypeOK, Range, Woken
<1>2. /\ woken \in Seq(Pids) /\ IsInjective(woken) /\ Range(woken) = Woken
      /\ sleepingQueue' \in Seq(Pids) /\ IsInjective(sleepingQueue')
      /\ Range(sleepingQueue') = sleepers \ Woken
  <2>1. sleepers \ (sleepers \ Woken) = Woken
    BY <1>1
  <2> HIDE DEF sleepers
  <2>2. sleepingQueue \in Seq(Pids) /\ IsInjective(sleepingQueue)
    BY DEF Inv, TypeOK, Placement
  <2>3. sleepers = Range(sleepingQueue)
    BY DEF sleepers
  <2>4. /\ woken \in Seq(Pids) /\ IsInjective(woken)
        /\ Range(woken) = sleepers \ (sleepers \ Woken)
    BY <2>2, <2>3, WithoutRange, WithoutInjective
  <2>5. sleepingQueue' = Without(sleepingQueue, Woken)
    BY DEF WakeSleepers
  <2>6. /\ sleepingQueue' \in Seq(Pids) /\ IsInjective(sleepingQueue')
        /\ Range(sleepingQueue') = sleepers \ Woken
    BY <2>2, <2>3, <2>5, WithoutRange, WithoutInjective
  <2> QED
    BY <2>1, <2>4, <2>6
<1>3. /\ readyQueue' \in Seq(Pids) /\ IsInjective(readyQueue')
      /\ Range(readyQueue') = Range(readyQueue) \cup Woken
  <2>1. Range(readyQueue) \cap Range(woken) = {}
    BY <1>1, <1>2, StatesDiffer DEF Inv, Placement
  <2> HIDE DEF woken
  <2>2. readyQueue' = readyQueue \o woken
    BY DEF WakeSleepers, woken
  <2> QED
    BY <1>2, <2>1, <2>2, ConcatNew DEF Inv, TypeOK, Placement
<1> HIDE DEF woken
<1>4. TypeOK'
  <2>1. ticksLeft' \in [Pids -> Nat]
    BY <1>1 DEF Inv, TypeOK, WakeSleepers, Woken
  <2>2. slept' \in [Pids -> [asked : Nat, passed : Nat]]
    <3>1. slept \in [Pids -> [asked : Nat, passed : Nat]]
      BY DEF Inv, TypeOK
    <3>2. \A q \in Pids : [slept[q] EXCEPT !.passed = @ + 1] \in [asked : Nat, passed : Nat]
      BY <3>1
    <3> QED
      BY <3>1, <3>2 DEF WakeSleepers
  <2>3. state' \in [Pids -> States \cup {None}]
    BY DEF Inv, TypeOK, WakeSleepers, States
  <2>4. core' \in 0 .. NumCpu
    BY SchedulerConstants DEF WakeSleepers
  <2> QED
    BY <1>2, <1>3, <2>1, <2>2, <2>3, <2>4 DEF Inv, TypeOK, WakeSleepers
<1>5. Placement'
  BY <1>1, <1>2, <1>3, StatesDiffer DEF Inv, TypeOK, Placement, WakeSleepers, Done
<1>6. TablesOfTheLiving' /\ PinnedOnlyOnCore'
  BY <1>1, StatesDiffer
     DEF Inv, TypeOK, Placement, TablesOfTheLiving, PinnedOnlyOnCore, WakeSleepers
<1>7. SleepClock'
  <2> SUFFICES ASSUME NEW q \in Pids, state'[q] = SLEEPING
               PROVE  /\ ticksLeft'[q] > 0
                      /\ slept'[q].asked = slept'[q].passed + ticksLeft'[q]
    BY DEF SleepClock
  <2>1. q \in sleepers \ Woken /\ state[q] = SLEEPING
    BY StatesDiffer DEF Inv, TypeOK, Placement, WakeSleepers
  <2>2. /\ ticksLeft[q] - 1 > 0 /\ ticksLeft[q] \in Nat
        /\ slept[q].asked = slept[q].passed + ticksLeft[q]
        /\ slept[q].passed \in Nat
    BY <2>1 DEF Inv, TypeOK, SleepClock, Woken
  <2>3. /\ ticksLeft'[q] = ticksLeft[q] - 1
        /\ slept'[q] = [slept[q] EXCEPT !.passed = @ + 1]
    BY <2>1 DEF WakeSleepers
  <2>4. slept[q] \in [asked : Nat, passed : Nat]
    BY DEF Inv, TypeOK
  <2>5. slept'[q].asked = slept[q].asked /\ slept'[q].passed = slept[q].passed + 1
    BY <2>3, <2>4
  <2> QED
    BY <2>2, <2>3, <2>5
<1> QED
  BY <1>4, <1>5, <1>6, <1>7 DEF Inv

(* The steps that move nothing.                                            *)
LEMMA NothingMoves ==
  ASSUME Inv, EmptyCore \/ StartDispatch \/ NoDispatch \/ EndTick \/ UNCHANGED vars
  PROVE  Inv'
<1>1. /\ UNCHANGED <<policy, queues, cores, process, coreTickCounters,
                     cpuQuantumCounter, allocated, pinned, busy, history>>
      /\ phase' \in {"between", "cores", "dispatch"}
      /\ core' \in 0 .. NumCpu
  BY SchedulerConstants
     DEF Inv, TypeOK, EmptyCore, StartDispatch, NoDispatch, EndTick, vars
<1> QED
  BY <1>1 DEF Inv, TypeOK, Placement, TablesOfTheLiving, PinnedOnlyOnCore,
     SleepClock, queues, process, history

(* A core that its process leaves, in whatever state, is nobody's core.     *)
LEMMA LeftCore ==
  ASSUME Inv, NEW p \in Pids,
         core \in CoreIds, cores[core] = p,
         cores' = [cores EXCEPT ![core] = None],
         state'[p] # RUNNING,
         \A q \in Pids \ {p} :
           state'[q] = state[q] /\ attachedCore'[q] = attachedCore[q]
  PROVE  \A q \in Pids, i \in CoreIds :
           cores'[i] = q <=> state'[q] = RUNNING /\ attachedCore'[q] = i
<1> SUFFICES ASSUME NEW q \in Pids, NEW i \in CoreIds
             PROVE  cores'[i] = q <=> state'[q] = RUNNING /\ attachedCore'[q] = i
  OBVIOUS
<1>1. cores'[i] = (IF i = core THEN None ELSE cores[i]) /\ None \notin Pids
  BY NoneIsNothing DEF Inv, TypeOK
<1>2. \A r \in Pids : cores[i] = r <=> state[r] = RUNNING /\ attachedCore[r] = i
  BY DEF Inv, Placement
<1>3. cores'[i] = q <=> q # p /\ cores[i] = q
  <2>1. cores[core] = p => (cores[i] = p => i = core)
    <3>1. \A j \in CoreIds : cores[j] = p => attachedCore[p] = j
      BY DEF Inv, Placement
    <3> QED
      BY <3>1
  <2> QED
    BY <1>1, <2>1
<1>4. CASE q = p
  BY <1>3, <1>4
<1>5. CASE q # p
  <2>1. state'[q] = state[q] /\ attachedCore'[q] = attachedCore[q]
    BY <1>5
  <2> QED
    BY <1>2, <1>3, <1>5, <2>1
<1> QED
  BY <1>4, <1>5

(* A finished process is in the finished queue and nowhere else.           *)
LEMMA FinishStep ==
  ASSUME Inv, NEW p \in Pids, NEW o \in Outcomes \cup {Waiting}, Finish(p, o)
  PROVE  Inv'
<1>1. /\ core \in CoreIds /\ cores[core] = p
      /\ state[p] = RUNNING /\ attachedCore[p] = core
      /\ p \notin Range(readyQueue) /\ p \notin Range(sleepingQueue)
      /\ p \notin Range(finishedQueue)
  BY AttemptedProcess DEF Finish
<1>2. /\ finishedQueue' \in Seq(Pids) /\ IsInjective(finishedQueue')
      /\ Range(finishedQueue') = Range(finishedQueue) \cup {p}
  BY <1>1, AppendNew DEF Inv, TypeOK, Placement, Finish
<1>3. TypeOK'
  BY <1>2, AttemptTypes DEF Inv, TypeOK, Finish, LeaveCore, Attempt, TablesWithout
<1>4. Placement'
  <2>1. /\ state' = [state EXCEPT ![p] = o.state] /\ o.state \in Done
        /\ \A q \in Pids : q # p => attachedCore'[q] = attachedCore[q]
        /\ cores' = [cores EXCEPT ![core] = None]
        /\ UNCHANGED <<readyQueue, sleepingQueue>>
    BY DEF Finish, LeaveCore, Inv, TypeOK
  <2>2. Done \cap {READY, RUNNING, SLEEPING, None} = {}
    BY StatesDiffer DEF Done
  <2>3. \A q \in Pids : state'[q] = IF q = p THEN o.state ELSE state[q]
    BY <2>1 DEF Inv, TypeOK
  <2>4. \A q \in Pids, i \in CoreIds :
          cores'[i] = q <=> state'[q] = RUNNING /\ attachedCore'[q] = i
    BY <1>1, <2>1, <2>2, <2>3, LeftCore
  <2> QED
    BY <1>1, <1>2, <2>1, <2>2, <2>3, <2>4 DEF Inv, Placement
<1>5. TablesOfTheLiving' /\ PinnedOnlyOnCore'
  BY <1>1, StatesDiffer DEF Inv, TypeOK, TablesOfTheLiving, PinnedOnlyOnCore,
     Finish, TablesWithout, Done
<1>6. SleepClock'
  BY StatesDiffer DEF Inv, TypeOK, SleepClock, Finish, Done
<1> QED
  BY <1>3, <1>4, <1>5, <1>6 DEF Inv

(* A process that executed SLEEP is in the sleeping queue and nowhere else. *)
LEMMA FallAsleepStep ==
  ASSUME Inv, NEW p \in Pids, NEW o \in Outcomes \cup {Waiting}, FallAsleep(p, o)
  PROVE  Inv'
<1>1. /\ core \in CoreIds /\ cores[core] = p
      /\ state[p] = RUNNING /\ attachedCore[p] = core
      /\ p \notin Range(readyQueue) /\ p \notin Range(sleepingQueue)
      /\ p \notin Range(finishedQueue)
  BY AttemptedProcess DEF FallAsleep
<1>2. /\ sleepingQueue' \in Seq(Pids) /\ IsInjective(sleepingQueue')
      /\ Range(sleepingQueue') = Range(sleepingQueue) \cup {p}
  BY <1>1, AppendNew DEF Inv, TypeOK, Placement, FallAsleep
<1>3. o.sleep \in Nat
  BY AttemptTypes DEF FallAsleep
<1>4. TypeOK'
  BY <1>2, <1>3, AttemptTypes
     DEF Inv, TypeOK, FallAsleep, LeaveCore, Attempt, PinsReleased, States
<1>5. Placement'
  <2>1. /\ state' = [state EXCEPT ![p] = SLEEPING]
        /\ attachedCore' = [attachedCore EXCEPT ![p] = -1]
        /\ cores' = [cores EXCEPT ![core] = None]
        /\ UNCHANGED <<readyQueue, finishedQueue>>
    BY DEF FallAsleep, LeaveCore
  <2>2. SLEEPING \notin Done \cup {RUNNING, None, READY}
    BY StatesDiffer DEF Done
  <2>3. \A q \in Pids : attachedCore'[q] = IF q = p THEN -1 ELSE attachedCore[q]
    BY <2>1 DEF Inv, TypeOK
  <2>4. \A q \in Pids : state'[q] = IF q = p THEN SLEEPING ELSE state[q]
    BY <2>1 DEF Inv, TypeOK
  <2>5. \A q \in Pids, i \in CoreIds :
          cores'[i] = q <=> state'[q] = RUNNING /\ attachedCore'[q] = i
    BY <1>1, <2>1, <2>2, <2>3, <2>4, LeftCore
  <2> QED
    BY <1>1, <1>2, <2>1, <2>2, <2>3, <2>4, <2>5, StatesDiffer DEF Inv, Placement
<1>6. TablesOfTheLiving' /\ PinnedOnlyOnCore'
  BY <1>1, StatesDiffer DEF Inv, TypeOK, TablesOfTheLiving, PinnedOnlyOnCore,
     FallAsleep, PinsReleased
<1>7. SleepClock'
  BY <1>3, StatesDiffer DEF Inv, TypeOK, SleepClock, FallAsleep
<1> QED
  BY <1>4, <1>5, <1>6, <1>7 DEF Inv

(* A preempted process is in the ready queue and nowhere else.             *)
LEMMA PreemptStep ==
  ASSUME Inv, NEW p \in Pids, NEW o \in Outcomes \cup {Waiting}, Preempt(p, o)
  PROVE  Inv'
<1>1. /\ core \in CoreIds /\ cores[core] = p
      /\ state[p] = RUNNING /\ attachedCore[p] = core
      /\ p \notin Range(readyQueue) /\ p \notin Range(sleepingQueue)
      /\ p \notin Range(finishedQueue)
  BY AttemptedProcess DEF Preempt
<1>2. /\ readyQueue' \in Seq(Pids) /\ IsInjective(readyQueue')
      /\ Range(readyQueue') = Range(readyQueue) \cup {p}
  BY <1>1, AppendNew DEF Inv, TypeOK, Placement, Preempt, Requeued
<1>3. TypeOK'
  BY <1>2, AttemptTypes
     DEF Inv, TypeOK, Preempt, LeaveCore, Attempt, PinsReleased, States
<1>4. Placement'
  <2>1. /\ state' = [state EXCEPT ![p] = READY]
        /\ attachedCore' = [attachedCore EXCEPT ![p] = -1]
        /\ cores' = [cores EXCEPT ![core] = None]
        /\ UNCHANGED <<sleepingQueue, finishedQueue>>
    BY DEF Preempt, LeaveCore
  <2>2. READY \notin Done \cup {RUNNING, None, SLEEPING}
    BY StatesDiffer DEF Done
  <2>3. \A q \in Pids : attachedCore'[q] = IF q = p THEN -1 ELSE attachedCore[q]
    BY <2>1 DEF Inv, TypeOK
  <2>4. \A q \in Pids : state'[q] = IF q = p THEN READY ELSE state[q]
    BY <2>1 DEF Inv, TypeOK
  <2>5. \A q \in Pids, i \in CoreIds :
          cores'[i] = q <=> state'[q] = RUNNING /\ attachedCore'[q] = i
    BY <1>1, <2>1, <2>2, <2>3, <2>4, LeftCore
  <2> QED
    BY <1>1, <1>2, <2>1, <2>2, <2>3, <2>4, <2>5, StatesDiffer DEF Inv, Placement
<1>5. TablesOfTheLiving' /\ PinnedOnlyOnCore'
  BY <1>1, StatesDiffer DEF Inv, TypeOK, TablesOfTheLiving, PinnedOnlyOnCore,
     Preempt, PinsReleased
<1>6. SleepClock'
  BY StatesDiffer DEF Inv, TypeOK, SleepClock, Preempt
<1> QED
  BY <1>3, <1>4, <1>5, <1>6 DEF Inv

(* A process that keeps its core is where it was.                          *)
LEMMA StayOnCoreStep ==
  ASSUME Inv, NEW p \in Pids, NEW o \in Outcomes \cup {Waiting}, StayOnCore(p, o)
  PROVE  Inv'
<1>1. state[p] = RUNNING
  BY AttemptedProcess DEF StayOnCore
<1>2. pinned' \subseteq pinned \cup {p}
  BY DEF StayOnCore, PinsAfter
<1>3. TypeOK'
  BY <1>2, AttemptTypes DEF Inv, TypeOK, StayOnCore, Attempt, queues
<1>4. Placement' /\ TablesOfTheLiving' /\ PinnedOnlyOnCore' /\ SleepClock'
  BY <1>1, <1>2 DEF Inv, TypeOK, Placement, TablesOfTheLiving, PinnedOnlyOnCore,
     SleepClock, StayOnCore, queues
<1> QED
  BY <1>3, <1>4 DEF Inv

(* A dispatched process has left the ready queue and is on an empty core.  *)
LEMMA DispatchStep ==
  ASSUME Inv, NEW p \in Pids, Dispatch(p)
  PROVE  Inv'
<1>1. core \in CoreIds /\ core + 1 \in 0 .. NumCpu
  BY SchedulerConstants DEF Inv, TypeOK, Dispatch, CoreIds
<1>2. p \in Range(readyQueue) /\ state[p] = READY
  BY DEF Inv, Placement, Dispatch, IsCandidate, IsFirstOutside, Range
<1>3. /\ readyQueue' \in Seq(Pids) /\ IsInjective(readyQueue')
      /\ Range(readyQueue') = Range(readyQueue) \ {p}
  BY WithoutRange, WithoutInjective
     DEF Inv, TypeOK, Placement, Dispatch, ReadyWithout
<1>4. TypeOK'
  BY <1>1, <1>3 DEF Inv, TypeOK, Dispatch, States
<1>5. Placement'
  <2>1. /\ state' = [state EXCEPT ![p] = RUNNING]
        /\ attachedCore' = [attachedCore EXCEPT ![p] = core]
        /\ cores[core] = None /\ cores' = [cores EXCEPT ![core] = p]
        /\ UNCHANGED <<sleepingQueue, finishedQueue>>
    BY DEF Dispatch
  <2>2. /\ cores \in [CoreIds -> Pids \cup {None}] /\ None \notin Pids
        /\ \A q \in Pids : state'[q] = IF q = p THEN RUNNING ELSE state[q]
        /\ \A q \in Pids :
             attachedCore'[q] = IF q = p THEN core ELSE attachedCore[q]
    BY <2>1, NoneIsNothing DEF Inv, TypeOK
  <2>3. ASSUME NEW q \in Pids, NEW i \in CoreIds
        PROVE  cores'[i] = q <=> state'[q] = RUNNING /\ attachedCore'[q] = i
    <3>1. cores[i] = q <=> state[q] = RUNNING /\ attachedCore[q] = i
      BY DEF Inv, Placement
    <3>2. cores'[i] = IF i = core THEN p ELSE cores[i]
      BY <2>1, <2>2
    <3>3. CASE q = p
      BY <1>2, <2>1, <2>2, <3>1, <3>2, <3>3, StatesDiffer
    <3>4. CASE q # p
      BY <2>1, <2>2, <3>1, <3>2, <3>4
    <3> QED
      BY <3>3, <3>4
  <2>4. core # -1 /\ RUNNING \notin Done \cup {READY, SLEEPING, None}
    BY <1>1, StatesDiffer DEF CoreIds, Done
  <2>5. state[p] \notin Done \cup {SLEEPING}
    BY <1>2, StatesDiffer DEF Done
  <2> QED
    BY <1>2, <1>3, <2>1, <2>2, <2>3, <2>4, <2>5 DEF Inv, Placement
<1>6. TablesOfTheLiving' /\ PinnedOnlyOnCore'
  BY <1>2, StatesDiffer
     DEF Inv, TypeOK, TablesOfTheLiving, PinnedOnlyOnCore, Dispatch
<1>7. SleepClock'
  BY StatesDiffer DEF Inv, TypeOK, SleepClock, Dispatch
<1> QED
  BY <1>4, <1>5, <1>6, <1>7 DEF Inv

LEMMA InitInv == Init => Inv
<1> SUFFICES ASSUME Init
             PROVE  Inv
  OBVIOUS
<1>1. /\ <<>> \in Seq(Pids) /\ IsInjective(<<>>) /\ Range(<<>>) = {}
  BY DEF IsInjective, Range
<1>2. TypeOK
  BY <1>1, SchedulerConstants DEF Init, TypeOK
<1> QED
  BY <1>1, <1>2, StatesDiffer, NoneIsNothing
     DEF Init, Inv, Placement, TablesOfTheLiving, PinnedOnlyOnCore, SleepClock

LEMMA NextInv == Inv /\ [Next]_vars => Inv'
<1> SUFFICES ASSUME Inv, [Next]_vars
             PROVE  Inv'
  OBVIOUS
<1>1. CASE \E p \in Pids, size \in MemSizes : AddProcess(p, size)
  BY <1>1, AddProcessStep
<1>2. CASE WakeSleepers
  BY <1>2, WakeSleepersStep
<1>3. CASE EmptyCore \/ StartDispatch \/ NoDispatch \/ EndTick \/ UNCHANGED vars
  BY <1>3, NothingMoves
<1>4. CASE \E p \in Pids, o \in Outcomes \cup {Waiting} : RunCore(p, o)
  <2>1. PICK p \in Pids, o \in Outcomes \cup {Waiting} : RunCore(p, o)
    BY <1>4
  <2> QED
    BY <2>1, FinishStep, FallAsleepStep, PreemptStep, StayOnCoreStep DEF RunCore
<1>5. CASE \E p \in Pids : Dispatch(p)
  BY <1>5, DispatchStep
<1> QED
  BY <1>1, <1>2, <1>3, <1>4, <1>5 DEF Next, Tick

------------------------------------------------------------------------------
THEOREM Invariance == Spec => []Inv
  BY InitInv, NextInv, PTL DEF Spec

(* Every queue, table, counter and clock keeps its type.                   *)
THEOREM TypeCorrect == Spec => []TypeOK
<1>1. Inv => TypeOK
  BY DEF Inv
<1> QED
  BY <1>1, Invariance, PTL

(* No process is lost by the queues and the cores, and none is in two of   *)
(* them, whatever the attempts come to.                                    *)
THEOREM EveryProcessInOnePlace == Spec => []Placement
<1>1. Inv => Placement
  BY DEF Inv
<1> QED
  BY <1>1, Invariance, PTL

(* Finished processes and violators leave nothing in the allocator, the    *)
(* others have their tables there.                                         *)
THEOREM TablesFollowLife == Spec => []TablesOfTheLiving
<1>1. Inv => TablesOfTheLiving
  BY DEF Inv
<1> QED
  BY <1>1, Invariance, PTL

(* Pins are held only by processes on cores.                               *)
THEOREM PinsFollowCores == Spec => []PinnedOnlyOnCore
<1>1. Inv => PinnedOnlyOnCore
  BY DEF Inv
<1> QED
  BY <1>1, Invariance, PTL

------------------------------------------------------------------------------
(* A step changes the state of sleepers it wakes, of the process the core  *)
(* runs, of a process it dispatches or of one it creates; no others.       *)
LEMMA StateChanges ==
  ASSUME Inv, [Next]_vars, NEW p \in Pids, state'[p] # state[p]
  PROVE  \/ WakeSleepers /\ state[p] = SLEEPING /\ state'[p] = READY
         \/ state[p] = RUNNING
         \/ Dispatch(p)
         \/ state[p] = None
<1>1. CASE \E q \in Pids, size \in MemSizes : AddProcess(q, size)
  BY <1>1 DEF AddProcess, Inv, TypeOK
<1>2. CASE WakeSleepers
  <2>1. p \in Range(sleepingQueue) /\ state'[p] = READY
    BY <1>2 DEF WakeSleepers, Woken
  <2> QED
    BY <1>2, <2>1 DEF Inv, Placement
<1>3. CASE EmptyCore \/ StartDispatch \/ NoDispatch \/ EndTick \/ UNCHANGED vars
  BY <1>3 DEF EmptyCore, StartDispatch, NoDispatch, EndTick, vars, process
<1>4. CASE \E q \in Pids, o \in Outcomes \cup {Waiting} : RunCore(q, o)
  <2>1. PICK q \in Pids, o \in Outcomes \cup {Waiting} : RunCore(q, o)
    BY <1>4
  <2>2. state[q] = RUNNING
    BY <2>1, AttemptedProcess DEF RunCore, Finish, FallAsleep, Preempt, StayOnCore
  <2>3. \A r \in Pids \ {q} : state'[r] = state[r]
    BY <2>1 DEF RunCore, Finish, FallAsleep, Preempt, StayOnCore, Inv, TypeOK
  <2> QED
    BY <2>2, <2>3
<1>5. CASE \E q \in Pids : Dispatch(q)
  <2>1. PICK q \in Pids : Dispatch(q)
    BY <1>5
  <2>2. \A r \in Pids \ {q} : state'[r] = state[r]
    BY <2>1 DEF Dispatch, Inv, TypeOK
  <2> QED
    BY <2>1, <2>2
<1> QED
  BY <1>1, <1>2, <1>3, <1>4, <1>5 DEF Next, Tick

(* A sleeper is woken in the tick in which its last asked tick passes.     *)
THEOREM SleepIsExact == Spec => SleepsItsTicks
<1> DEFINE Exact == \A p \in Pids : state[p] = SLEEPING =>
                      (state'[p] = SLEEPING <=> slept'[p].passed < slept'[p].asked)
<1>1. Inv /\ [Next]_vars => [Exact]_vars
  <2> SUFFICES ASSUME Inv, [Next]_vars, NEW p \in Pids, state[p] = SLEEPING
               PROVE  state'[p] = SLEEPING <=> slept'[p].passed < slept'[p].asked
    BY DEF Exact
  <2>1. /\ slept[p] \in [asked : Nat, passed : Nat] /\ ticksLeft[p] \in Nat
        /\ ticksLeft[p] > 0 /\ slept[p].asked = slept[p].passed + ticksLeft[p]
    BY DEF Inv, TypeOK, SleepClock
  <2>2. CASE WakeSleepers
    <3>1. p \in Range(sleepingQueue)
      BY DEF Inv, Placement
    <3>2. slept'[p].asked = slept[p].asked /\ slept'[p].passed = slept[p].passed + 1
      BY <2>1, <2>2, <3>1 DEF WakeSleepers
    <3>3. state'[p] = SLEEPING <=> p \notin Woken
      BY <2>2, StatesDiffer DEF WakeSleepers
    <3> QED
      BY <2>1, <3>1, <3>2, <3>3 DEF Woken
  <2>3. CASE ~ WakeSleepers
    <3>1. state'[p] = SLEEPING
      BY <2>3, StateChanges, StatesDiffer
         DEF Dispatch, IsCandidate, IsFirstOutside, Range, Inv, Placement
    <3>2. slept'[p] = slept[p]
      <4>1. CASE \E q \in Pids, o \in Outcomes \cup {Waiting} : RunCore(q, o)
        <5>1. PICK q \in Pids, o \in Outcomes \cup {Waiting} : RunCore(q, o)
          BY <4>1
        <5>2. state[q] = RUNNING
          BY <5>1, AttemptedProcess DEF RunCore, Finish, FallAsleep, Preempt, StayOnCore
        <5>3. p # q
          BY <5>2, StatesDiffer
        <5> QED
          BY <5>1, <5>3 DEF RunCore, Finish, FallAsleep, Preempt, StayOnCore, Inv, TypeOK
      <4>2. CASE ~ \E q \in Pids, o \in Outcomes \cup {Waiting} : RunCore(q, o)
        BY <2>3, <4>2 DEF Next, Tick, AddProcess, EmptyCore, StartDispatch, Dispatch,
           NoDispatch, EndTick, vars, history
      <4> QED
        BY <4>1, <4>2
    <3> QED
      BY <2>1, <3>1, <3>2
  <2> QED
    BY <2>2, <2>3
<1> QED
  BY <1>1, Invariance, PTL DEF Spec, SleepsItsTicks

(* The history adds nothing to what the scheduler does.                    *)
LEMMA OrderedIsScheduler == OrderedSpec => Spec
<1>1. OrderedInit => Init
  BY DEF OrderedInit
<1>2. [OrderedNext]_<<vars, ahead>> => [Next]_vars
  BY DEF OrderedNext
<1> QED
  BY <1>1, <1>2, PTL DEF OrderedSpec, Spec

(* Who has been waiting longer stands further ahead in the queue.          *)
QueuedInOrder ==
  \A pr \in ahead : pr \in Pids \X Pids /\ IsBefore(readyQueue, pr[1], pr[2])

(* What is queued behind those that wait began to wait after them.         *)
LEMMA QueuedBehind ==
  ASSUME Inv, Inv', QueuedInOrder, ahead' = NextAhead,
         NEW t \in Seq(Pids), readyQueue' = readyQueue \o t
  PROVE  QueuedInOrder'
<1> SUFFICES ASSUME NEW pr \in ahead'
             PROVE  pr \in Pids \X Pids /\ IsBefore(readyQueue', pr[1], pr[2])
  BY DEF QueuedInOrder
<1>1. /\ pr \in Pids \X Pids /\ pr[1] \in Pids /\ pr[2] \in Pids
      /\ state'[pr[1]] = READY /\ state'[pr[2]] = READY
      /\ pr \in ahead \/ (state[pr[1]] = READY /\ state[pr[2]] # READY)
  BY DEF NextAhead
<1>2. readyQueue \in Seq(Pids)
  BY DEF Inv, TypeOK
<1>3. CASE pr \in ahead
  BY <1>1, <1>2, <1>3, ConcatKeepsOrder DEF QueuedInOrder
<1>4. CASE state[pr[1]] = READY /\ state[pr[2]] # READY
  <2>1. pr[1] \in Range(readyQueue) /\ pr[2] \notin Range(readyQueue)
    BY <1>1, <1>4 DEF Inv, Placement
  <2>2. pr[2] \in Range(readyQueue')
    BY <1>1 DEF Inv, Placement
  <2>3. pr[2] \in Range(t)
    <3>1. PICK k \in DOMAIN (readyQueue \o t) : (readyQueue \o t)[k] = pr[2]
      BY <2>2 DEF Range
    <3>2. CASE k \in 1 .. Len(readyQueue)
      BY <1>2, <2>1, <3>1, <3>2 DEF Range
    <3>3. CASE k \notin 1 .. Len(readyQueue)
      <4>1. k - Len(readyQueue) \in 1 .. Len(t)
        BY <1>2, <3>1, <3>3
      <4>2. (readyQueue \o t)[k] = t[k - Len(readyQueue)]
        BY <1>2, <3>1, <3>3
      <4> QED
        BY <3>1, <4>1, <4>2 DEF Range
    <3> QED
      BY <3>2, <3>3
  <2> QED
    BY <1>1, <1>2, <2>1, <2>3, ConcatKeepsOrder
<1> QED
  BY <1>1, <1>3, <1>4

(* Whoever is dispatched leaves the others as they stood.                  *)
LEMMA DispatchedFrom ==
  ASSUME Inv, QueuedInOrder, ahead' = NextAhead, NEW q \in Pids, Dispatch(q)
  PROVE  QueuedInOrder'
<1> SUFFICES ASSUME NEW pr \in ahead'
             PROVE  pr \in Pids \X Pids /\ IsBefore(readyQueue', pr[1], pr[2])
  BY DEF QueuedInOrder
<1>1. /\ pr \in Pids \X Pids /\ pr[1] \in Pids /\ pr[2] \in Pids
      /\ state'[pr[1]] = READY /\ state'[pr[2]] = READY
      /\ pr \in ahead \/ (state[pr[1]] = READY /\ state[pr[2]] # READY)
  BY DEF NextAhead
<1>2. state'[q] = RUNNING /\ \A r \in Pids \ {q} : state'[r] = state[r]
  BY DEF Dispatch, Inv, TypeOK
<1>3. pr[1] # q /\ pr[2] # q /\ pr \in ahead
  BY <1>1, <1>2, StatesDiffer
<1>4. readyQueue \in Seq(Pids) /\ readyQueue' = Without(readyQueue, {q})
  BY DEF Inv, TypeOK, Dispatch, ReadyWithout
<1> QED
  BY <1>1, <1>3, <1>4, WithoutKeepsOrder DEF QueuedInOrder

LEMMA QueuedInOrderStep ==
  ASSUME Inv, Inv', QueuedInOrder, [OrderedNext]_<<vars, ahead>>
  PROVE  QueuedInOrder'
<1>1. CASE UNCHANGED <<vars, ahead>>
  BY <1>1 DEF vars, queues, QueuedInOrder
<1>2. CASE OrderedNext
  <2>1. Next /\ ahead' = NextAhead
    BY <1>2 DEF OrderedNext
  <2>2. CASE UNCHANGED readyQueue
    <3>1. readyQueue' = readyQueue \o <<>> /\ <<>> \in Seq(Pids)
      BY <2>2 DEF Inv, TypeOK
    <3> QED
      BY <2>1, <3>1, QueuedBehind
  <2>3. CASE \E q \in Pids, size \in MemSizes : AddProcess(q, size)
    <3>1. PICK q \in Pids : readyQueue' = Append(readyQueue, q)
      BY <2>3 DEF AddProcess
    <3>2. readyQueue \in Seq(Pids)
      BY DEF Inv, TypeOK
    <3>3. readyQueue' = readyQueue \o <<q>> /\ <<q>> \in Seq(Pids)
      BY <3>1, <3>2
    <3> QED
      BY <2>1, <3>3, QueuedBehind
  <2>4. CASE WakeSleepers
    <3>1. sleepingQueue \in Seq(Pids)
      BY DEF Inv, TypeOK
    <3>2. Without(sleepingQueue, Range(sleepingQueue) \ Woken) \in Seq(Pids)
      BY <3>1, WithoutRange
    <3> QED
      BY <2>1, <2>4, <3>2, QueuedBehind DEF WakeSleepers
  <2>5. CASE \E q \in Pids, o \in Outcomes \cup {Waiting} : RunCore(q, o)
    <3>1. PICK q \in Pids, o \in Outcomes \cup {Waiting} : RunCore(q, o)
      BY <2>5
    <3>2. CASE Preempt(q, o)
      <4>1. readyQueue' = readyQueue \o <<q>> /\ <<q>> \in Seq(Pids)
        BY <3>2 DEF Preempt, Requeued, Inv, TypeOK
      <4> QED
        BY <2>1, <4>1, QueuedBehind
    <3>3. CASE ~ Preempt(q, o)
      BY <2>2, <3>1, <3>3 DEF RunCore, Finish, FallAsleep, StayOnCore, queues
    <3> QED
      BY <3>2, <3>3
  <2>6. CASE \E q \in Pids : Dispatch(q)
    BY <2>1, <2>6, DispatchedFrom
  <2>7. CASE EmptyCore \/ StartDispatch \/ NoDispatch \/ EndTick
    BY <2>2, <2>7 DEF EmptyCore, StartDispatch, NoDispatch, EndTick, queues
  <2> QED
    BY <2>1, <2>3, <2>4, <2>5, <2>6, <2>7 DEF Next, Tick
<1> QED
  BY <1>1, <1>2

(* Processes that fit get their cores in the order they began to wait,     *)
(* under either policy: the queue, filled in three phases of a tick and by *)
(* two threads, keeps that order (QueuedInOrder), and the dispatch search  *)
(* passes over nobody that fits.                                           *)
THEOREM ServedInOrder == OrderedSpec => FirstComeFirstServed
<1> DEFINE Order == \A pr \in ahead :
              Admitted(pr[1]) /\ state'[pr[1]] = READY => state'[pr[2]] = READY
<1>1. OrderedInit => QueuedInOrder
  BY DEF OrderedInit, QueuedInOrder
<1>2. Inv /\ QueuedInOrder /\ [OrderedNext]_<<vars, ahead>> => [Order]_<<vars, ahead>>
  <2> SUFFICES ASSUME Inv, QueuedInOrder, OrderedNext, NEW pr \in ahead,
                      Admitted(pr[1]), state'[pr[1]] = READY, state'[pr[2]] # READY
               PROVE  FALSE
    BY DEF Order
  <2> DEFINE p == pr[1]
             r == pr[2]
  <2>1. p \in Pids /\ r \in Pids
    BY DEF QueuedInOrder
  <2>2. PICK i \in DOMAIN readyQueue, j \in DOMAIN readyQueue :
          i < j /\ readyQueue[i] = p /\ readyQueue[j] = r
    BY DEF QueuedInOrder, IsBefore
  <2>3. state[r] = READY
    BY <2>1, <2>2 DEF Inv, Placement, Range
  <2>4. Dispatch(r)
    BY <2>1, <2>3, StateChanges, StatesDiffer DEF OrderedNext
  <2>5. PICK k \in DOMAIN readyQueue :
          readyQueue[k] = r /\ \A l \in 1 .. k - 1 : readyQueue[l] \in Oversize
    BY <2>4 DEF Dispatch, IsCandidate, IsFirstOutside
  <2>6. k = j
    BY <2>2, <2>5 DEF Inv, Placement, IsInjective
  <2>7. i \in 1 .. k - 1
    <3>1. DOMAIN readyQueue = 1 .. Len(readyQueue) /\ Len(readyQueue) \in Nat
      BY DEF Inv, TypeOK
    <3> QED
      BY <2>2, <2>6, <3>1
  <2> QED
    BY <2>2, <2>5, <2>7 DEF Oversize
<1>3. Inv /\ Inv' /\ QueuedInOrder /\ [OrderedNext]_<<vars, ahead>> => QueuedInOrder'
  BY QueuedInOrderStep
<1> QED
  BY <1>1, <1>2, <1>3, OrderedIsScheduler, Invariance, PTL
     DEF OrderedSpec, FirstComeFirstServed

(* The dispatch loop has filled the cores it passed, or nothing fits.      *)
DispatchedSoFar ==
  phase = "dispatch" =>
    \/ \A i \in CoreIds : i < core => cores[i] # None
    \/ \A p \in Range(readyQueue) : ~ Admitted(p)

LEMMA DispatchLoop == Inv /\ DispatchedSoFar /\ [Next]_vars => DispatchedSoFar'
<1> SUFFICES ASSUME Inv, DispatchedSoFar, [Next]_vars, phase' = "dispatch"
             PROVE  \/ \A i \in CoreIds : i < core' => cores'[i] # None
                    \/ \A p \in Range(readyQueue') : ~ Admitted(p)'
  BY DEF DispatchedSoFar
<1>1. CASE UNCHANGED vars
  BY <1>1 DEF DispatchedSoFar, vars, queues, process, Admitted
<1>2. CASE StartDispatch
  BY <1>2 DEF StartDispatch, CoreIds
<1>3. CASE NoDispatch
  <2>1. /\ phase = "dispatch" /\ core \in 0 .. NumCpu /\ core' = core + 1
        /\ UNCHANGED <<readyQueue, cores, memorySize>>
    BY <1>3 DEF NoDispatch, queues, process, Inv, TypeOK
  <2>2. CASE cores[core] # None
    <3>1. \A i \in CoreIds : i < core + 1 => i < core \/ i = core
      BY <2>1 DEF CoreIds
    <3> QED
      BY <2>1, <2>2, <3>1 DEF DispatchedSoFar, Admitted
  <2>3. CASE ~ \E p \in Pids : IsCandidate(p)
    <3>1. Range(readyQueue) \ Oversize = {}
      BY <2>3, FirstOutsideExists DEF IsCandidate, Inv, TypeOK
    <3> QED
      BY <2>1, <3>1 DEF Oversize, Admitted, Inv, TypeOK, Range
  <2> QED
    BY <1>3, <2>2, <2>3 DEF NoDispatch
<1>4. CASE \E p \in Pids : Dispatch(p)
  <2>1. PICK p \in Pids : Dispatch(p)
    BY <1>4
  <2>2. /\ phase = "dispatch" /\ core \in CoreIds /\ core' = core + 1
        /\ cores' = [cores EXCEPT ![core] = p] /\ UNCHANGED memorySize
    BY <2>1, SchedulerConstants DEF Dispatch, CoreIds, Inv, TypeOK
  <2>3. Range(readyQueue') \subseteq Range(readyQueue)
    BY <2>1, WithoutRange DEF Dispatch, ReadyWithout, Inv, TypeOK
  <2>4. \A i \in CoreIds : i < core + 1 => i < core \/ i = core
    BY <2>2 DEF CoreIds
  <2> QED
    BY <2>2, <2>3, <2>4, NoneIsNothing DEF DispatchedSoFar, Admitted, Inv, TypeOK
<1> QED
  BY <1>1, <1>2, <1>3, <1>4 DEF Next, Tick, AddProcess, WakeSleepers, EmptyCore,
     RunCore, Finish, FallAsleep, Preempt, StayOnCore, Attempt, EndTick

(* At the end of a tick an idle core means nothing was left to run.        *)
THEOREM WorkConserving == Spec => []NoCoreIdleForNothing
<1>1. Init => DispatchedSoFar
  BY DEF Init, DispatchedSoFar
<1>2. Inv /\ DispatchedSoFar => NoCoreIdleForNothing
  BY SchedulerConstants DEF DispatchedSoFar, NoCoreIdleForNothing, CoreIds
<1> QED
  BY <1>1, <1>2, DispatchLoop, Invariance, PTL DEF Spec

(* Under round robin the quantum counter of a process on a core is what it *)
(* executed there, and below the quantum.                                  *)
QuantumClock ==
  policy = "rr" =>
    \A p \in Pids : state[p] = RUNNING =>
      executed[p] = cpuQuantumCounter[p] /\ cpuQuantumCounter[p] < QuantumCycles

(* The configuration is read once.                                         *)
LEMMA PolicyFixed == [Next]_vars => policy' = policy
  BY DEF Next, Tick, AddProcess, WakeSleepers, EmptyCore, RunCore, Finish,
     FallAsleep, Preempt, StayOnCore, Attempt, StartDispatch, Dispatch,
     NoDispatch, EndTick, vars

LEMMA QuantumStep ==
  ASSUME ToInt(QuantumCycles) = QuantumCycles
  PROVE  Inv /\ QuantumClock /\ [Next]_vars => QuantumClock'
<1> SUFFICES ASSUME Inv, QuantumClock, [Next]_vars, policy = "rr",
                    NEW p \in Pids, state'[p] = RUNNING
             PROVE  /\ executed'[p] = cpuQuantumCounter'[p]
                    /\ cpuQuantumCounter'[p] < QuantumCycles
  BY PolicyFixed DEF QuantumClock
<1>0. /\ executed \in [Pids -> Nat] /\ cpuQuantumCounter \in [Pids -> Nat]
      /\ state \in [Pids -> States \cup {None}]
      /\ QuantumCycles \in Nat \ {0}
  BY SchedulerConstants DEF Inv, TypeOK
<1>1. CASE \E q \in Pids : Dispatch(q)
  <2>1. PICK q \in Pids : Dispatch(q)
    BY <1>1
  <2> QED
    BY <1>0, <2>1 DEF Dispatch, QuantumClock
<1>2. CASE \E q \in Pids, o \in Outcomes \cup {Waiting} : RunCore(q, o)
  <2>1. PICK q \in Pids, o \in Outcomes \cup {Waiting} : RunCore(q, o)
    BY <1>2
  <2>2. state[q] = RUNNING
    BY <2>1, AttemptedProcess DEF RunCore, Finish, FallAsleep, Preempt, StayOnCore
  <2>3. CASE p # q
    BY <1>0, <2>1, <2>3 DEF RunCore, Finish, FallAsleep, Preempt, StayOnCore,
       LeaveCore, QuantumClock
  <2>4. CASE p = q
    <3>1. StayOnCore(p, o)
      BY <1>0, <2>1, <2>4, StatesDiffer DEF RunCore, Finish, FallAsleep, Preempt, Done
    <3>2. executed[p] = cpuQuantumCounter[p] /\ cpuQuantumCounter[p] < QuantumCycles
      BY <2>2, <2>4 DEF QuantumClock
    <3>3. /\ executed'[p] = Executed(p, o)
          /\ cpuQuantumCounter'[p] = Charged(o, p)
          /\ ~ Charged(o, p) >= QuantumCycles
      BY <1>0, <3>1 DEF StayOnCore, QuantumOver, Quantum
    <3> QED
      BY <1>0, <3>2, <3>3 DEF Executed, Charged
  <2> QED
    BY <2>3, <2>4
<1>3. CASE /\ ~ \E q \in Pids : Dispatch(q)
           /\ ~ \E q \in Pids, o \in Outcomes \cup {Waiting} : RunCore(q, o)
  <2>1. UNCHANGED <<executed, cpuQuantumCounter>>
    BY <1>3 DEF Next, Tick, AddProcess, WakeSleepers, EmptyCore, StartDispatch,
       NoDispatch, EndTick, vars, history
  <2>2. state[p] = RUNNING
    <3>1. CASE \E q \in Pids, size \in MemSizes : AddProcess(q, size)
      BY <1>0, <3>1, StatesDiffer DEF AddProcess
    <3>2. CASE ~ \E q \in Pids, size \in MemSizes : AddProcess(q, size)
      BY <1>3, <3>2, StatesDiffer DEF WakeSleepers, EmptyCore, StartDispatch,
         NoDispatch, EndTick, vars, process, Next, Tick
    <3> QED
      BY <3>1, <3>2
  <2> QED
    BY <2>1, <2>2 DEF QuantumClock
<1> QED
  BY <1>1, <1>2, <1>3

(* If the quantum fits an int, a process is preempted only by round robin  *)
(* and after exactly quantum-cycles completed instructions.                *)
THEOREM QuantumIsExact ==
  ASSUME ToInt(QuantumCycles) = QuantumCycles
  PROVE  Spec => PreemptedAfterQuantum
<1> DEFINE Exact == \A p \in Pids : state[p] = RUNNING /\ state'[p] = READY =>
                      policy = "rr" /\ executed'[p] = QuantumCycles
<1>1. Init => QuantumClock
  BY StatesDiffer DEF Init, QuantumClock
<1>2. Inv /\ QuantumClock /\ [Next]_vars => [Exact]_vars
  <2> SUFFICES ASSUME Inv, QuantumClock, [Next]_vars, NEW p \in Pids,
                      state[p] = RUNNING, state'[p] = READY
               PROVE  policy = "rr" /\ executed'[p] = QuantumCycles
    BY DEF Exact
  <2>0. /\ executed \in [Pids -> Nat] /\ cpuQuantumCounter \in [Pids -> Nat]
        /\ state \in [Pids -> States \cup {None}]
        /\ QuantumCycles \in Nat \ {0}
    BY SchedulerConstants DEF Inv, TypeOK
  <2>1. PICK q \in Pids, o \in Outcomes \cup {Waiting} : RunCore(q, o)
    <3>1. ~ WakeSleepers
      BY StatesDiffer DEF WakeSleepers, Woken, Inv, Placement
    <3> QED
      BY <2>0, <3>1, StatesDiffer DEF Next, Tick, AddProcess, EmptyCore, StartDispatch,
         Dispatch, NoDispatch, EndTick, vars, process
  <2>2. p = q
    BY <2>0, <2>1, StatesDiffer DEF RunCore, Finish, FallAsleep, Preempt, StayOnCore
  <2>3. Preempt(p, o)
    BY <2>0, <2>1, <2>2, StatesDiffer DEF RunCore, Finish, FallAsleep, StayOnCore, Done
  <2>4. policy = "rr" /\ Charged(o, p) >= QuantumCycles
    BY <2>3 DEF Preempt, QuantumOver, Quantum
  <2>5. executed[p] = cpuQuantumCounter[p] /\ cpuQuantumCounter[p] < QuantumCycles
    BY <2>4 DEF QuantumClock
  <2>6. executed'[p] = Executed(p, o)
    BY <2>0, <2>3 DEF Preempt
  <2> QED
    BY <2>0, <2>4, <2>5, <2>6 DEF Charged, Executed
<1>3. Inv /\ QuantumClock /\ [Next]_vars => QuantumClock'
  BY QuantumStep
<1> QED
  BY <1>1, <1>2, <1>3, Invariance, PTL DEF Spec, PreemptedAfterQuantum
===============================================================================

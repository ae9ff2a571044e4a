------------------------------ MODULE Scheduler ------------------------------
(***************************************************************************)
(* Scheduler::onTick() and the queues it moves processes between.          *)
(*                                                                         *)
(* A tick holds schedulerMutex from start to end, so processes are added   *)
(* only between two ticks.  It is one step per core nevertheless: what one *)
(* core leaves in the queues and in the allocator, the next one finds.     *)
(*                                                                         *)
(* Process::advance() is any of Outcomes here, whatever the instruction;   *)
(* the allocator is reduced to which processes it knows (allocated) and    *)
(* which of them it holds frames pinned for (pinned).  sleepRemaining is   *)
(* set and consumed within one step, so it is no variable.  Of the         *)
(* idle/active tick counters only the current tick's share is kept (busy). *)
(* Snapshots, trace files and the names of processes are left out.         *)
(***************************************************************************)
EXTENDS Integers, Sequences, FiniteSets, Functions, FifoQueue

CONSTANTS
  Pids,          \* the processes that may be created; ids are never reused
  NumCpu,        \* num-cpu
  Policies,      \* what scheduler may say: "rr", "fcfs"
  QuantumCycles, \* quantum-cycles, a uint32
  DelayPerExec,  \* delay-per-exec, a uint32
  IntBits,       \* width of int, 32 in the program
  TotalMemory,   \* max-overall-mem
  MemSizes,      \* address-space sizes of the processes
  MaxSleep,      \* bound: the longest SLEEP
  None           \* no process, no state

CoreIds == 0 .. NumCpu - 1

READY      == "READY"
RUNNING    == "RUNNING"
SLEEPING   == "SLEEPING"
FINISHED   == "FINISHED"
TERMINATED == "TERMINATED"

States == {READY, RUNNING, SLEEPING, FINISHED, TERMINATED}
Done   == {FINISHED, TERMINATED}     \* isFinished()

ASSUME SchedulerConstants ==
  /\ IsFiniteSet(Pids)
  /\ NumCpu \in Nat \ {0}
  /\ Policies \subseteq {"rr", "fcfs"}
  /\ IntBits \in Nat \ {0}
  /\ QuantumCycles \in Nat \ {0}
  /\ DelayPerExec \in Nat
  /\ TotalMemory \in Nat
  /\ MemSizes \subseteq Nat \ {0}
  /\ MaxSleep \in Nat

ASSUME NoneIsNothing == None \notin Pids /\ None \notin States

VARIABLES
  policy,             \* config.scheduler, never changed
  readyQueue,         \* waiting for a core, oldest first
  sleepingQueue,      \* asleep, in the order they fell asleep
  finishedQueue,      \* in the order they finished
  cores,              \* core -> process or None
  state,              \* process -> state, None while not created
  attachedCore,       \* process -> core, -1 when on none
  memorySize,         \* process -> size of its address space
  ticksLeft,          \* second of the process's pair in sleepingQueue
  coreTickCounters,   \* core -> ticks since its process's last attempt
  cpuQuantumCounter,  \* process -> instructions charged; 0 also when absent
  allocated,          \* the processes the allocator has tables for
  pinned,             \* the processes the allocator holds pinned frames for
  phase,              \* "between" ticks, running the "cores", or "dispatch"
  core,               \* the core the phase is at
  busy,               \* the cores that did useful work this tick
  executed,           \* history: instructions completed since the dispatch
  slept               \* history: ticks asked of the last SLEEP, and passed

queues  == <<readyQueue, sleepingQueue, finishedQueue>>
process == <<state, attachedCore, memorySize, ticksLeft>>
history == <<executed, slept>>
vars == <<policy, queues, cores, process, coreTickCounters, cpuQuantumCounter,
          allocated, pinned, phase, core, busy, history>>

(* static_cast<int> of a uint32: two's complement in IntBits bits.         *)
ToInt(n) ==
  LET m == n % 2^IntBits IN IF m < 2^(IntBits - 1) THEN m ELSE m - 2^IntBits

(* quantum: 0 unless round robin.                                          *)
Quantum == IF policy = "rr" THEN QuantumCycles ELSE 0

Admitted(p) == memorySize[p] <= TotalMemory
Oversize    == {p \in Pids : ~ Admitted(p)}

(***************************************************************************)
(* What an attempt at an instruction can come to: completed, perhaps the   *)
(* last one, perhaps a SLEEP (a last SLEEP is both); stalled on a page     *)
(* fault with what it got pinned, or with nothing; killed by a violation.  *)
(* Waiting stands for a tick without an attempt.                           *)
(***************************************************************************)
Completed == [result : {"COMPLETED"}, state : {RUNNING, FINISHED},
              sleep : 0 .. MaxSleep, pins : BOOLEAN]
Outcomes ==
  Completed
  \cup [result : {"PAGE_FAULT"}, state : {RUNNING}, sleep : {0}, pins : BOOLEAN]
  \cup [result : {"VIOLATION"}, state : {TERMINATED}, sleep : {0}, pins : {FALSE}]
Waiting == [result |-> "NONE", state |-> RUNNING, sleep |-> 0, pins |-> FALSE]

------------------------------------------------------------------------------
(***************************************************************************)
(* Faulty forms of the definitions that follow, one plausible slip each;   *)
(* no specification uses them, the properties are tested against them.     *)
(***************************************************************************)
ChargesStalls(o, p) ==                         \* a page fault costs quantum
  IF policy = "rr" /\ o # Waiting THEN cpuQuantumCounter[p] + 1
                                  ELSE cpuQuantumCounter[p]
WokenBelow == {p \in Range(sleepingQueue) : ticksLeft[p] < 0} \* tests too early
WokenLate == {p \in Range(sleepingQueue) : ticksLeft[p] - 1 < 0}
KeepsPins(p) == pinned                         \* leaves the core, pins kept
KeepsTables(p) == allocated                    \* finishes, tables kept
HeadOnly(p) == readyQueue # <<>> /\ Head(readyQueue) = p /\ Admitted(p)
AnyAdmitted(p) == IsSomeOutside(readyQueue, Oversize, p)
RequeuesFirst(p) == <<p>> \o readyQueue        \* preempted, but queued first
StaysQueued(p) == readyQueue                   \* dispatched, but still queued
AnyPolicy(p, o) ==                             \* preempts under fcfs too
  cpuQuantumCounter[p] >= ToInt(Quantum)
------------------------------------------------------------------------------

(* The sleepers whose last tick this is.                                   *)
Woken == {p \in Range(sleepingQueue) : ticksLeft[p] - 1 <= 0}

(* cpuQuantumCounter[p] after the attempt: only execution is charged.      *)
Charged(o, p) ==
  IF policy = "rr" /\ o.result = "COMPLETED" THEN cpuQuantumCounter[p] + 1
                                             ELSE cpuQuantumCounter[p]

(* The pins p has after the attempt.                                       *)
PinsAfter(o, p) ==
  CASE o = Waiting -> pinned
    [] o # Waiting /\ o.pins -> pinned \cup {p}
    [] OTHER -> pinned \ {p}

(* releasePins() and destroyProcess(), in the allocator.                   *)
PinsReleased(p) == pinned \ {p}
TablesWithout(p) == allocated \ {p}

(* What is left of the ready queue once p got a core.                      *)
ReadyWithout(p) == Without(readyQueue, {p})

(* The ready queue once p was preempted.                                   *)
Requeued(p) == Append(readyQueue, p)

(* Admission control: the oldest ready process that fits in memory.        *)
IsCandidate(p) == IsFirstOutside(readyQueue, Oversize, p)

Init ==
  /\ policy \in Policies
  /\ readyQueue = <<>> /\ sleepingQueue = <<>> /\ finishedQueue = <<>>
  /\ cores = [i \in CoreIds |-> None]
  /\ state = [p \in Pids |-> None]
  /\ attachedCore = [p \in Pids |-> -1]
  /\ memorySize = [p \in Pids |-> 0]
  /\ ticksLeft = [p \in Pids |-> 0]
  /\ coreTickCounters = [i \in CoreIds |-> 0]
  /\ cpuQuantumCounter = [p \in Pids |-> 0]
  /\ allocated = {} /\ pinned = {}
  /\ phase = "between" /\ core = 0
  /\ busy = {}
  /\ executed = [p \in Pids |-> 0]
  /\ slept = [p \in Pids |-> [asked |-> 0, passed |-> 0]]

(* From the console or from the batch generator: the page table is built   *)
(* at creation, whatever the size.                                         *)
AddProcess(p, size) ==
  /\ phase = "between"
  /\ state[p] = None
  /\ state' = [state EXCEPT ![p] = READY]
  /\ memorySize' = [memorySize EXCEPT ![p] = size]
  /\ allocated' = allocated \cup {p}
  /\ readyQueue' = Append(readyQueue, p)
  /\ UNCHANGED <<policy, sleepingQueue, finishedQueue, cores, attachedCore,
                 ticksLeft, coreTickCounters, cpuQuantumCounter, pinned, phase,
                 core, busy, history>>

(* Phase 1: one tick less to sleep for all, and those at zero are ready.   *)
WakeSleepers ==
  /\ phase = "between"
  /\ phase' = "cores" /\ core' = 0
  /\ busy' = {}
  /\ readyQueue' =
       readyQueue \o Without(sleepingQueue, Range(sleepingQueue) \ Woken)
  /\ sleepingQueue' = Without(sleepingQueue, Woken)
  /\ ticksLeft' = [p \in Pids |-> IF p \in Range(sleepingQueue) \ Woken
                                  THEN ticksLeft[p] - 1 ELSE 0]
  /\ state' = [p \in Pids |-> IF p \in Woken THEN READY ELSE state[p]]
  /\ slept' = [p \in Pids |-> IF p \in Range(sleepingQueue)
                              THEN [slept[p] EXCEPT !.passed = @ + 1]
                              ELSE slept[p]]
  /\ UNCHANGED <<policy, finishedQueue, cores, attachedCore, memorySize,
                 coreTickCounters, cpuQuantumCounter, allocated, pinned,
                 executed>>

(* Phase 2: the core holds no process.                                     *)
EmptyCore ==
  /\ phase = "cores" /\ core < NumCpu
  /\ cores[core] = None
  /\ core' = core + 1
  /\ UNCHANGED <<policy, queues, cores, process, coreTickCounters,
                 cpuQuantumCounter, allocated, pinned, phase, busy, history>>

(* The core holds p: its tick passes with an attempt of outcome o, or with *)
(* none while delay-per-exec has not passed.  A process on a core is never *)
(* finished (Placement), so the branch for one that is has no action.      *)
Attempt(p, o) ==
  /\ phase = "cores" /\ core < NumCpu
  /\ cores[core] = p /\ state[p] \notin Done
  /\ IF coreTickCounters[core] + 1 >= ToInt(DelayPerExec)
     THEN /\ o \in Outcomes
          /\ coreTickCounters' = [coreTickCounters EXCEPT ![core] = 0]
     ELSE /\ o = Waiting
          /\ coreTickCounters' = [coreTickCounters EXCEPT ![core] = @ + 1]
  /\ busy' = IF o.result = "PAGE_FAULT" THEN busy ELSE busy \cup {core}
  /\ core' = core + 1
  /\ UNCHANGED <<policy, phase, memorySize>>

(* The instructions p completed since its dispatch, counted up to one more *)
(* than its quantum.                                                       *)
Executed(p, o) ==
  IF o.result = "COMPLETED" /\ executed[p] <= QuantumCycles
  THEN executed[p] + 1 ELSE executed[p]

(* p leaves the core: the core is empty and its quantum counter erased.    *)
LeaveCore(p) ==
  /\ cores' = [cores EXCEPT ![core] = None]
  /\ cpuQuantumCounter' = [cpuQuantumCounter EXCEPT ![p] = 0]

(* The last instruction, or a violation, which raiseViolation() recorded.  *)
Finish(p, o) ==
  /\ Attempt(p, o)
  /\ o.state \in Done
  /\ state' = [state EXCEPT ![p] = o.state]
  /\ attachedCore' = [attachedCore EXCEPT ![p] =
                        IF o.state = TERMINATED THEN -1 ELSE @]
  /\ allocated' = TablesWithout(p)
  /\ pinned' = pinned \ {p}
  /\ finishedQueue' = Append(finishedQueue, p)
  /\ LeaveCore(p)
  /\ executed' = [executed EXCEPT ![p] = 0]
  /\ UNCHANGED <<readyQueue, sleepingQueue, ticksLeft, slept>>

(* SLEEP: the pins are dropped with the core.                              *)
FallAsleep(p, o) ==
  /\ Attempt(p, o)
  /\ o.state = RUNNING /\ o.sleep > 0
  /\ pinned' = PinsReleased(p)
  /\ sleepingQueue' = Append(sleepingQueue, p)
  /\ ticksLeft' = [ticksLeft EXCEPT ![p] = o.sleep]
  /\ state' = [state EXCEPT ![p] = SLEEPING]
  /\ attachedCore' = [attachedCore EXCEPT ![p] = -1]
  /\ slept' = [slept EXCEPT ![p] = [asked |-> o.sleep, passed |-> 0]]
  /\ LeaveCore(p)
  /\ executed' = [executed EXCEPT ![p] = 0]
  /\ UNCHANGED <<readyQueue, finishedQueue, allocated>>

QuantumOver(p, o) == policy = "rr" /\ Charged(o, p) >= ToInt(Quantum)

(* Round robin: the quantum is used up.                                    *)
Preempt(p, o) ==
  /\ Attempt(p, o)
  /\ o.state = RUNNING /\ o.sleep = 0 /\ QuantumOver(p, o)
  /\ pinned' = PinsReleased(p)
  /\ readyQueue' = Requeued(p)
  /\ state' = [state EXCEPT ![p] = READY]
  /\ attachedCore' = [attachedCore EXCEPT ![p] = -1]
  /\ LeaveCore(p)
  /\ executed' = [executed EXCEPT ![p] = Executed(p, o)]
  /\ UNCHANGED <<sleepingQueue, finishedQueue, ticksLeft, allocated, slept>>

StayOnCore(p, o) ==
  /\ Attempt(p, o)
  /\ o.state = RUNNING /\ o.sleep = 0 /\ ~ QuantumOver(p, o)
  /\ pinned' = PinsAfter(o, p)
  /\ cpuQuantumCounter' = [cpuQuantumCounter EXCEPT ![p] = Charged(o, p)]
  /\ executed' = [executed EXCEPT ![p] = Executed(p, o)]
  /\ UNCHANGED <<queues, cores, state, attachedCore, ticksLeft, allocated,
                 slept>>

(* Phase 2b is over with the last core: every core is busy or not.         *)
StartDispatch ==
  /\ phase = "cores" /\ core = NumCpu
  /\ phase' = "dispatch" /\ core' = 0
  /\ UNCHANGED <<policy, queues, cores, process, coreTickCounters,
                 cpuQuantumCounter, allocated, pinned, busy, history>>

(* Phase 3: an idle core gets the oldest ready process that fits.          *)
Dispatch(p) ==
  /\ phase = "dispatch" /\ core < NumCpu
  /\ cores[core] = None
  /\ IsCandidate(p)
  /\ cores' = [cores EXCEPT ![core] = p]
  /\ readyQueue' = ReadyWithout(p)
  /\ state' = [state EXCEPT ![p] = RUNNING]
  /\ attachedCore' = [attachedCore EXCEPT ![p] = core]
  /\ coreTickCounters' = [coreTickCounters EXCEPT ![core] = 0]
  /\ cpuQuantumCounter' = [cpuQuantumCounter EXCEPT ![p] = 0]
  /\ executed' = [executed EXCEPT ![p] = 0]
  /\ core' = core + 1
  /\ UNCHANGED <<policy, sleepingQueue, finishedQueue, memorySize, ticksLeft,
                 allocated, pinned, phase, busy, slept>>

(* The core is occupied, or nothing can be dispatched (the loop's breaks). *)
NoDispatch ==
  /\ phase = "dispatch" /\ core < NumCpu
  /\ cores[core] # None \/ ~ \E p \in Pids : IsCandidate(p)
  /\ core' = core + 1
  /\ UNCHANGED <<policy, queues, cores, process, coreTickCounters,
                 cpuQuantumCounter, allocated, pinned, phase, busy, history>>

(* schedulerMutex is released.                                             *)
EndTick ==
  /\ phase = "dispatch" /\ core = NumCpu
  /\ phase' = "between" /\ core' = 0
  /\ UNCHANGED <<policy, queues, cores, process, coreTickCounters,
                 cpuQuantumCounter, allocated, pinned, busy, history>>

RunCore(p, o) ==
  Finish(p, o) \/ FallAsleep(p, o) \/ Preempt(p, o) \/ StayOnCore(p, o)

Tick ==
  \/ WakeSleepers
  \/ EmptyCore
  \/ \E p \in Pids, o \in Outcomes \cup {Waiting} : RunCore(p, o)
  \/ StartDispatch
  \/ \E p \in Pids : Dispatch(p)
  \/ NoDispatch
  \/ EndTick

Next ==
  \/ \E p \in Pids, size \in MemSizes : AddProcess(p, size)
  \/ Tick

Spec == Init /\ [][Next]_vars

------------------------------------------------------------------------------
TypeOK ==
  /\ policy \in Policies
  /\ readyQueue \in Seq(Pids)
  /\ sleepingQueue \in Seq(Pids)
  /\ finishedQueue \in Seq(Pids)
  /\ cores \in [CoreIds -> Pids \cup {None}]
  /\ state \in [Pids -> States \cup {None}]
  /\ attachedCore \in [Pids -> CoreIds \cup {-1}]
  /\ memorySize \in [Pids -> {0} \cup MemSizes]
  /\ ticksLeft \in [Pids -> Nat]
  /\ coreTickCounters \in [CoreIds -> Nat]
  /\ cpuQuantumCounter \in [Pids -> Nat]
  /\ allocated \in SUBSET Pids
  /\ pinned \in SUBSET Pids
  /\ phase \in {"between", "cores", "dispatch"}
  /\ core \in 0 .. NumCpu
  /\ busy \in SUBSET CoreIds
  /\ executed \in [Pids -> Nat]
  /\ slept \in [Pids -> [asked : Nat, passed : Nat]]

(* A created process is in exactly one place, once: the ready queue, the   *)
(* sleeping queue, the finished queue or one core; its state and the core  *)
(* screen-ls prints for it say which.  A process in two places would run   *)
(* twice, one in none would never run again.                               *)
Placement ==
  /\ IsInjective(readyQueue) /\ IsInjective(sleepingQueue)
  /\ IsInjective(finishedQueue)
  /\ \A p \in Pids :
       /\ p \in Range(readyQueue)    <=> state[p] = READY
       /\ p \in Range(sleepingQueue) <=> state[p] = SLEEPING
       /\ p \in Range(finishedQueue) <=> state[p] \in Done
       /\ \A i \in CoreIds :
            cores[i] = p <=> state[p] = RUNNING /\ attachedCore[p] = i
       /\ state[p] = RUNNING => attachedCore[p] # -1
       /\ state[p] \in {None, READY, SLEEPING} => attachedCore[p] = -1

(* The allocator knows exactly the processes that were created and have    *)
(* not finished, so a finished process (or a violator) leaks no frame, and *)
(* a process that may still run always finds its page table.               *)
TablesOfTheLiving ==
  allocated = {p \in Pids : state[p] \in {READY, RUNNING, SLEEPING}}

(* Only a process on a core has frames pinned: nothing that sleeps, waits  *)
(* or is dead can block the page faults of those that run.                 *)
PinnedOnlyOnCore == \A p \in pinned : state[p] = RUNNING

(* A process stays asleep until the ticks its SLEEP asked for have passed, *)
(* and is ready in the tick in which the last of them passes.              *)
SleepsItsTicks ==
  [][\A p \in Pids : state[p] = SLEEPING =>
       (state'[p] = SLEEPING <=> slept'[p].passed < slept'[p].asked)]_vars

(* A process that still has instructions loses its core to another only    *)
(* under round robin, and only once it completed quantum-cycles of them    *)
(* since its dispatch, however many ticks it was stalled or delayed.       *)
PreemptedAfterQuantum ==
  [][\A p \in Pids : state[p] = RUNNING /\ state'[p] = READY =>
       policy = "rr" /\ executed'[p] = QuantumCycles]_vars

(* At the end of a tick no core is idle while a process that fits in       *)
(* memory waits: one that does not fit blocks nobody queued behind it.     *)
NoCoreIdleForNothing ==
  phase = "dispatch" /\ core = NumCpu =>
    \/ \A i \in CoreIds : cores[i] # None
    \/ \A p \in Range(readyQueue) : ~ Admitted(p)
==============================================================================

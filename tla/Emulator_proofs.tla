---------------------------- MODULE Emulator_proofs ----------------------------
(***************************************************************************)
(* The scheduler and the allocator working together, for any number of     *)
(* processes, cores and frames and any programs.  Every step of the system *)
(* is a step of each of the two, so what is proved of them alone holds of  *)
(* them together; SystemInv is what neither says alone: whose attempt is   *)
(* going on, and what the one may believe of the other meanwhile.          *)
(***************************************************************************)
EXTENDS Emulator, Scheduler_proofs

(* A created process has a program and an address space; one that lives    *)
(* is at an instruction of it, with some of its regions had, unless it has *)
(* just executed the last one.                                             *)
ProcessesLoaded ==
  \A p \in Pids : state[p] # None =>
    program[p] \in Programs /\ memorySize[p] \in MemSizes

Over(p) == outcome # None /\ cores[core] = p /\ outcome.state = FINISHED

AtInstruction ==
  /\ program \in [Pids -> Programs \cup {None}]
  /\ line \in [Pids -> Nat \ {0}] /\ instrPhase \in [Pids -> Nat]
  /\ \A p \in Pids : state[p] = None => line[p] = 1 /\ instrPhase[p] = 0
  /\ \A p \in allocated : ~ Over(p) =>
       line[p] <= Len(program[p]) /\ instrPhase[p] <= Len(Current(p).asks)
  /\ scan # None => instrPhase[running] < Len(Current(running).asks)

(* An attempt is made at the core the tick is at, when its delay is over,  *)
(* and its outcome is kept until that core's turn is over.                 *)
AttemptAtCore ==
  /\ outcome \in Outcomes \cup {None}
  /\ running # None => outcome = None /\ running = cores[core]
  /\ running # None \/ outcome # None =>
       /\ phase = "cores" /\ core < NumCpu
       /\ cores[core] \in Pids
       /\ coreTickCounters[core] + 1 >= ToInt(DelayPerExec)

RunningFits == \A p \in Pids : state[p] = RUNNING => Admitted(p)

(* The allocator's tables are one assignment of frames to pages, all of    *)
(* them pages of the processes it knows.                                   *)
MemTables ==
  OneTable(Frames, Mem!Pages, None, pageTable, frameTable, freeFrames, fifoFrames)

ResidentLive == \A page \in Mem!Pages : Mem!Resident(page) => Mem!LivePage(page)

MemCalls ==
  /\ pinnedFrames \subseteq Frames
  /\ running \in Pids \cup {None}
  /\ running # None => Mem!Live(running) /\ Mem!Admitted(running)
  /\ running = None => scan = None /\ reply = None
  /\ scan # None => scan.vpn \in Nat

(* The scheduler's idea of who holds frames is right but for the process   *)
(* whose attempt is not over, and its outcome sets that right.             *)
InAttempt(p) == running = p \/ (outcome # None /\ cores[core] = p)

PinsTracked ==
  /\ \A p \in Pids : InAttempt(p) \/ (p \in pinned <=> p \in PinOwners)
  /\ outcome # None =>
       outcome.state = TERMINATED \/ (outcome.pins <=> cores[core] \in PinOwners)

SystemInv ==
  /\ Inv
  /\ ProcessesLoaded /\ AtInstruction /\ AttemptAtCore /\ RunningFits
  /\ MemTables /\ ResidentLive /\ MemCalls /\ PinsTracked

------------------------------------------------------------------------------
(***************************************************************************)
(* Every step is a step of the scheduler.                                  *)
(***************************************************************************)
LEMMA TurnOverRuns ==
  ASSUME NEW p \in Pids, NEW o, TurnOver(p, o)
  PROVE  o \in Outcomes \cup {Waiting} /\ RunCore(p, o)
<1>1. RunCore(p, o)
  BY DEF TurnOver, RunCore
<1>2. Attempt(p, o)
  BY <1>1 DEF RunCore, Finish, FallAsleep, Preempt, StayOnCore
<1> QED
  BY <1>1, <1>2 DEF Attempt

LEMMA SchedulerStep == [SystemNext]_all => [Next]_vars
<1> SUFFICES ASSUME [SystemNext]_all
             PROVE  [Next]_vars
  OBVIOUS
<1>1. CASE UNCHANGED all
  BY <1>1 DEF all, scheduling
<1>2. ASSUME NEW p \in Pids, NEW size \in MemSizes, NEW prog \in Programs,
             Create(p, size, prog)
      PROVE  Next
  BY <1>2 DEF Create, Next
<1>3. ASSUME NEW p \in Pids, Advance(p)
      PROVE  UNCHANGED vars
  BY <1>3 DEF Advance, StepOver, Begin, Violate, Ask, Answer, Execute, Stall, scheduling
<1>4. ASSUME NEW p \in Pids, NEW o \in {outcome, Waiting}, TurnOver(p, o)
      PROVE  Next
  <2>1. o \in Outcomes \cup {Waiting} /\ RunCore(p, o)
    BY <1>4, TurnOverRuns
  <2> QED
    BY <2>1 DEF Next, Tick
<1>5. CASE Service
  BY <1>5 DEF Service, scheduling
<1>6. CASE Bookkeeping
  BY <1>6 DEF Bookkeeping, Next, Tick
<1> QED
  BY <1>1, <1>2, <1>3, <1>4, <1>5, <1>6 DEF SystemNext, SystemTick

(* The system is a scheduler whose attempts come to what the allocator's   *)
(* answers make of them: all that is proved of Scheduler holds here.       *)
THEOREM SystemSchedules == SystemSpec => Spec
<1>1. SystemInit => Init
  BY DEF SystemInit
<1> QED
  BY <1>1, SchedulerStep, PTL DEF SystemSpec, Spec
------------------------------------------------------------------------------
(***************************************************************************)
(* Every step is a step of the allocator.                                  *)
(***************************************************************************)
(* Who runs lives, and is known to the allocator with its size.            *)
LEMMA RunningIsKnown ==
  ASSUME SystemInv, NEW p \in Pids, state[p] = RUNNING
  PROVE  /\ p \in allocated /\ state[p] # None
         /\ program[p] \in Programs /\ memorySize[p] \in MemSizes
         /\ TableSize[p] = memorySize[p]
         /\ Mem!Live(p) /\ Mem!Admitted(p)
<1>1. p \in allocated /\ state[p] # None
  BY StatesDiffer DEF SystemInv, Inv, TablesOfTheLiving
<1>2. program[p] \in Programs /\ memorySize[p] \in MemSizes
  BY <1>1 DEF SystemInv, ProcessesLoaded
<1>3. TableSize[p] = memorySize[p]
  BY <1>1 DEF TableSize
<1>4. memorySize[p] # 0
  BY <1>2, SchedulerConstants
<1>5. memorySize[p] <= Cardinality(Frames) * FrameSize
  BY EmulatorConstants DEF SystemInv, RunningFits, Admitted
<1>6. Mem!Live(p)
  BY <1>3, <1>4 DEF Mem!Live
<1>7. Mem!Admitted(p)
  BY <1>3, <1>5 DEF Mem!Admitted, Mem!TotalBytes, Mem!Cardinality, Cardinality
<1> QED
  BY <1>1, <1>2, <1>3, <1>6, <1>7

(* The process on the core the tick is at runs.                            *)
LEMMA AttemptIsRunning ==
  ASSUME SystemInv, running # None \/ outcome # None
  PROVE  /\ core \in CoreIds /\ cores[core] \in Pids /\ state[cores[core]] = RUNNING
         /\ phase = "cores" /\ core < NumCpu
         /\ coreTickCounters[core] + 1 >= ToInt(DelayPerExec)
<1>1. /\ core \in CoreIds /\ cores[core] \in Pids
      /\ phase = "cores" /\ core < NumCpu
      /\ coreTickCounters[core] + 1 >= ToInt(DelayPerExec)
  BY SchedulerConstants DEF SystemInv, Inv, TypeOK, AttemptAtCore, CoreIds
<1> QED
  BY <1>1 DEF SystemInv, Inv, Placement

LEMMA DueIsRunning ==
  ASSUME SystemInv, NEW p \in Pids, Due(p)
  PROVE  state[p] = RUNNING /\ core \in CoreIds
<1>1. core \in CoreIds /\ cores[core] = p
  BY SchedulerConstants DEF SystemInv, Inv, TypeOK, Due, CoreIds
<1> QED
  BY <1>1 DEF SystemInv, Inv, Placement

(* A process in the middle of an attempt is at an instruction.             *)
LEMMA CurrentType ==
  ASSUME SystemInv, NEW p \in Pids, state[p] = RUNNING, outcome = None
  PROVE  /\ program[p] \in Seq(Instructions) /\ program[p] # <<>>
         /\ line[p] \in 1 .. Len(program[p])
         /\ Current(p) \in Instructions
         /\ instrPhase[p] \in 0 .. Len(Current(p).asks)
<1>1. p \in allocated /\ program[p] \in Programs
  BY RunningIsKnown
<1>2. program[p] \in Seq(Instructions) /\ program[p] # <<>>
  BY <1>1, EmulatorConstants
<1>3. line[p] \in Nat \ {0} /\ line[p] <= Len(program[p])
  BY <1>1 DEF SystemInv, AtInstruction, Over
<1>4. line[p] \in 1 .. Len(program[p])
  BY <1>2, <1>3
<1>5. Current(p) \in Instructions
  BY <1>2, <1>4 DEF Current
<1>6. instrPhase[p] \in Nat /\ instrPhase[p] <= Len(Current(p).asks)
  BY <1>1 DEF SystemInv, AtInstruction, Over
<1>7. Len(Current(p).asks) \in Nat
  BY <1>5 DEF Instructions
<1> QED
  BY <1>2, <1>4, <1>5, <1>6, <1>7

(* What advance() asks for is a region of the process.                     *)
LEMMA AskedRegion ==
  ASSUME SystemInv, NEW p \in Pids, Ask(p)
  PROVE  Region(p) \in Mem!Regions(TableSize[p])
<1>1. running = p /\ ~ Violates(p) /\ instrPhase[p] < Len(Current(p).asks)
  BY DEF Ask
<1>2. running # None /\ outcome = None /\ p = cores[core]
  BY <1>1, NoneIsNothing DEF SystemInv, AttemptAtCore
<1>3. state[p] = RUNNING
  BY <1>2, AttemptIsRunning
<1>4. TableSize[p] = memorySize[p]
  BY <1>3, RunningIsKnown
<1> DEFINE asks == Current(p).asks
           a    == Asked(p)
<1>5. asks \in Seq(0 .. Segment) /\ instrPhase[p] \in 0 .. Len(asks)
  BY <1>2, <1>3, CurrentType DEF Instructions
<1>6. instrPhase[p] + 1 \in DOMAIN asks /\ a = asks[instrPhase[p] + 1]
  BY <1>1, <1>5 DEF Asked
<1> HIDE DEF asks, a
<1>7. a \in 0 .. Segment /\ a \in Range(asks)
  <2>1. asks[instrPhase[p] + 1] \in 0 .. Segment
    <3>1. \A T : asks \in Seq(T) => \A i \in DOMAIN asks : asks[i] \in T
      OBVIOUS
    <3> QED
      BY <1>5, <1>6, <3>1
  <2>2. asks[instrPhase[p] + 1] \in Range(asks)
    BY <1>6 DEF Range
  <2> QED
    BY <1>6, <2>1, <2>2
<1>8. CASE a = Segment
  BY <1>4, <1>8 DEF Region, Mem!Regions, a
<1>9. CASE a # Segment
  <2>1. ~ (a + 2 > memorySize[p])
    BY <1>1, <1>7, <1>9 DEF Violates, asks
  <2>2. memorySize[p] \in Nat /\ MaxMemSize \in Nat
    BY <1>3, RunningIsKnown, SchedulerConstants, EmulatorConstants
  <2>3. a \in 0 .. MaxMemSize - 1 /\ a + 2 <= memorySize[p]
    BY <1>7, <1>9, <2>1, <2>2 DEF Segment
  <2>4. Region(p) = [addr |-> a, len |-> 2]
    BY <1>9 DEF Region, a
  <2> QED
    BY <1>4, <2>3, <2>4 DEF Mem!Regions
<1> QED
  BY <1>8, <1>9

(* A step of the scheduler that neither creates nor finishes a process     *)
(* leaves what the allocator knows of its size.                            *)
LEMMA SizesKept ==
  ASSUME UNCHANGED <<memorySize, allocated>>
  PROVE  UNCHANGED TableSize
  BY DEF TableSize

LEMMA BookkeepingKeeps ==
  ASSUME Bookkeeping
  PROVE  UNCHANGED <<memorySize, allocated, pinned>>
  BY DEF Bookkeeping, WakeSleepers, EmptyCore, StartDispatch, NoDispatch, EndTick,
         Dispatch, process

LEMMA AllocatorStep ==
  ASSUME SystemInv, [SystemNext]_all
  PROVE  [Mem!Next]_(Mem!vars)
<1>1. CASE UNCHANGED all
  BY <1>1, SizesKept DEF all, scheduling, vars, process, memory, Mem!vars,
     Mem!frameVars, Mem!callVars
<1>2. ASSUME NEW p \in Pids, NEW size \in MemSizes, NEW prog \in Programs,
             Create(p, size, prog)
      PROVE  Mem!Next
  BY <1>2 DEF Create, Mem!Next
<1>3. ASSUME NEW p \in Pids, Advance(p)
      PROVE  [Mem!Next]_(Mem!vars)
  <2>1. CASE StepOver(p)
    <3>1. UNCHANGED <<memorySize, allocated, memory>>
      BY <2>1 DEF StepOver, scheduling, vars, process
    <3> QED
      BY <3>1, SizesKept DEF memory, Mem!vars, Mem!frameVars, Mem!callVars
  <2>2. CASE Begin(p)
    BY <2>2 DEF Begin, Mem!Next
  <2>3. CASE Violate(p) \/ Execute(p) \/ Stall(p)
    BY <2>3 DEF Violate, Execute, Stall, Mem!Next
  <2>4. CASE Ask(p)
    <3>1. running = p /\ p # None /\ Mem!EnsureResident(Region(p))
      BY <2>4, NoneIsNothing DEF Ask
    <3>2. Region(p) \in Mem!Regions(TableSize[running])
      BY <2>4, <3>1, AskedRegion
    <3> QED
      BY <3>1, <3>2 DEF Mem!Next
  <2>5. CASE Answer(p)
    BY <2>5 DEF Answer, Mem!Next
  <2> QED
    BY <1>3, <2>1, <2>2, <2>3, <2>4, <2>5 DEF Advance
<1>4. ASSUME NEW p \in Pids, NEW o \in {outcome, Waiting}, TurnOver(p, o)
      PROVE  [Mem!Next]_(Mem!vars)
  <2>1. CASE Mem!DestroyProcess(p) \/ Mem!ReleasePins(p)
    BY <2>1 DEF Mem!Next
  <2>2. CASE StayOnCore(p, o) /\ UNCHANGED memory
    <3>1. UNCHANGED <<memorySize, allocated>>
      BY <2>2 DEF StayOnCore, Attempt
    <3> QED
      BY <2>2, <3>1, SizesKept DEF memory, Mem!vars, Mem!frameVars, Mem!callVars
  <2> QED
    BY <1>4, <2>1, <2>2 DEF TurnOver, DropPins
<1>5. CASE Service
  BY <1>5 DEF Service, Mem!Next
<1>6. CASE Bookkeeping
  <2>1. UNCHANGED <<memorySize, allocated, memory>>
    BY <1>6, BookkeepingKeeps DEF Bookkeeping
  <2> QED
    BY <2>1, SizesKept DEF memory, Mem!vars, Mem!frameVars, Mem!callVars
<1> QED
  BY <1>1, <1>2, <1>3, <1>4, <1>5, <1>6 DEF SystemNext, SystemTick
------------------------------------------------------------------------------
(***************************************************************************)
(* Whose turn it is.                                                       *)
(***************************************************************************)
(* The scheduler does nothing else while an attempt is not over.           *)
LEMMA NothingElse ==
  ASSUME SystemInv
  PROVE  /\ Bookkeeping => running = None /\ outcome = None
         /\ \A p \in Pids, size \in MemSizes, prog \in Programs :
              Create(p, size, prog) => running = None /\ outcome = None
<1> SUFFICES ASSUME running # None \/ outcome # None
             PROVE  /\ ~ Bookkeeping
                    /\ \A p \in Pids, size \in MemSizes, prog \in Programs :
                         ~ Create(p, size, prog)
  OBVIOUS
<1>1. phase = "cores" /\ core \in CoreIds /\ core < NumCpu /\ cores[core] # None
  BY AttemptIsRunning, NoneIsNothing
<1>2. core # NumCpu
  BY <1>1, SchedulerConstants DEF CoreIds
<1> QED
  BY <1>1, <1>2 DEF Bookkeeping, WakeSleepers, EmptyCore, StartDispatch, NoDispatch,
     EndTick, Dispatch, Create, AddProcess

(* A core's turn ends with the outcome of the attempt at it, if there was  *)
(* one.                                                                    *)
LEMMA TurnOfCore ==
  ASSUME SystemInv, NEW p \in Pids, NEW o \in {outcome, Waiting}, TurnOver(p, o)
  PROVE  /\ o \in Outcomes \cup {Waiting} /\ RunCore(p, o) /\ Attempt(p, o)
         /\ running = None /\ outcome' = None /\ running' = None
         /\ core \in CoreIds /\ cores[core] = p /\ state[p] = RUNNING
         /\ \/ outcome # None /\ o = outcome
            \/ outcome = None /\ o = Waiting
<1>1. o \in Outcomes \cup {Waiting} /\ RunCore(p, o)
  BY TurnOverRuns
<1>2. Attempt(p, o)
  BY <1>1 DEF RunCore, Finish, FallAsleep, Preempt, StayOnCore
<1>3. running = None /\ outcome' = None /\ running' = None
  BY DEF TurnOver, Mem!DestroyProcess, DropPins, Mem!ReleasePins, Mem!callVars, memory
<1>4. core \in CoreIds /\ cores[core] = p /\ state[p] = RUNNING
  BY <1>1, <1>2, AttemptedProcess DEF SystemInv
<1>5. Waiting \notin Outcomes
  BY DEF Waiting, Outcomes, Completed
<1>6. \/ outcome # None /\ o = outcome
      \/ outcome = None /\ o = Waiting
  <2>1. CASE coreTickCounters[core] + 1 >= ToInt(DelayPerExec)
    BY <1>2, <1>5, <2>1, NoneIsNoDatum DEF Attempt
  <2>2. CASE ~ (coreTickCounters[core] + 1 >= ToInt(DelayPerExec))
    <3>1. o = Waiting
      BY <1>2, <2>2 DEF Attempt
    <3>2. outcome = None
      BY <2>2 DEF SystemInv, AttemptAtCore
    <3> QED
      BY <3>1, <3>2
  <2> QED
    BY <2>1, <2>2
<1> QED
  BY <1>1, <1>2, <1>3, <1>4, <1>6

(* The core's own process makes the attempt.                               *)
LEMMA AttemptOfCore ==
  ASSUME SystemInv, NEW p \in Pids,
         \/ StepOver(p) \/ Begin(p)
         \/ Violate(p) \/ Ask(p) \/ Answer(p) \/ Execute(p) \/ Stall(p)
  PROVE  /\ outcome = None /\ cores[core] = p /\ state[p] = RUNNING
         /\ phase = "cores" /\ core < NumCpu /\ core \in CoreIds
         /\ coreTickCounters[core] + 1 >= ToInt(DelayPerExec)
<1>1. CASE StepOver(p) \/ Begin(p)
  <2>1. Due(p)
    BY <1>1 DEF StepOver, Begin
  <2> QED
    BY <2>1, DueIsRunning DEF Due
<1>2. CASE Violate(p) \/ Ask(p) \/ Answer(p) \/ Execute(p) \/ Stall(p)
  <2>1. running = p /\ p # None
    BY <1>2, NoneIsNothing DEF Violate, Ask, Answer, Execute, Stall
  <2>2. outcome = None /\ cores[core] = p
    BY <2>1 DEF SystemInv, AttemptAtCore
  <2> QED
    BY <2>1, <2>2, AttemptIsRunning
<1> QED
  BY <1>1, <1>2

(* What an attempt comes to is one of the outcomes.                        *)
LEMMA OutcomeTypes ==
  ASSUME SystemInv, NEW p \in Pids,
         StepOver(p) \/ Execute(p) \/ Violate(p) \/ Stall(p)
  PROVE  outcome' \in Outcomes /\ outcome' # None
<1>1. CASE StepOver(p) \/ Execute(p)
  <2>1. outcome = None /\ state[p] = RUNNING
    BY <1>1, AttemptOfCore
  <2>2. Current(p).sleep \in 0 .. MaxSleep
    BY <2>1, CurrentType DEF Instructions
  <2>3. Complete(p)
    BY <1>1 DEF StepOver, Execute
  <2>4. outcome' \in Completed
    BY <2>2, <2>3 DEF Complete, Completed
  <2> QED
    BY <2>4, NoneIsNoDatum DEF Outcomes
<1>2. CASE Violate(p)
  <2>1. outcome' \in Outcomes
    BY <1>2 DEF Violate, Outcomes
  <2> QED
    BY <2>1, NoneIsNoDatum
<1>3. CASE Stall(p)
  <2>1. outcome' \in Outcomes
    BY <1>3 DEF Stall, Outcomes
  <2> QED
    BY <2>1, NoneIsNoDatum
<1> QED
  BY <1>1, <1>2, <1>3

LEMMA AttemptAtCoreStep ==
  ASSUME SystemInv, [SystemNext]_all
  PROVE  AttemptAtCore'
<1>1. CASE UNCHANGED all
  BY <1>1 DEF SystemInv, AttemptAtCore, all, scheduling, vars, memory
<1>2. ASSUME NEW p \in Pids, NEW size \in MemSizes, NEW prog \in Programs,
             Create(p, size, prog)
      PROVE  AttemptAtCore'
  <2>1. running = None /\ outcome = None
    BY <1>2, NothingElse
  <2>2. running' = running /\ outcome' = outcome
    BY <1>2 DEF Create, Mem!CreateProcess, Mem!callVars
  <2> QED
    BY <2>1, <2>2 DEF AttemptAtCore
<1>3. ASSUME NEW p \in Pids, Advance(p)
      PROVE  AttemptAtCore'
  <2>1. UNCHANGED <<phase, core, cores, coreTickCounters>>
    BY <1>3 DEF Advance, StepOver, Begin, Violate, Ask, Answer, Execute, Stall,
       scheduling, vars
  <2>2. /\ outcome = None /\ cores[core] = p
        /\ phase = "cores" /\ core < NumCpu
        /\ coreTickCounters[core] + 1 >= ToInt(DelayPerExec)
    BY <1>3, AttemptOfCore DEF Advance
  <2>3. \/ outcome' = None /\ running' \in {None, p}
        \/ outcome' \in Outcomes /\ running' = None
    <3>1. CASE StepOver(p) \/ Execute(p) \/ Violate(p) \/ Stall(p)
      <4>1. running' = None
        BY <3>1 DEF StepOver, Execute, Violate, Stall, Mem!EndAttempt, memory
      <4> QED
        BY <3>1, <4>1, OutcomeTypes
    <3>2. CASE Begin(p) \/ Ask(p) \/ Answer(p)
      BY <2>2, <3>2 DEF Begin, Ask, Answer, Mem!BeginInstruction, Mem!EnsureResident, Mem!Return
    <3> QED
      BY <1>3, <3>1, <3>2 DEF Advance
  <2> QED
    BY <2>1, <2>2, <2>3, NoneIsNoDatum DEF AttemptAtCore
<1>4. ASSUME NEW p \in Pids, NEW o \in {outcome, Waiting}, TurnOver(p, o)
      PROVE  AttemptAtCore'
  BY <1>4, TurnOfCore DEF AttemptAtCore
<1>5. CASE Service
  BY <1>5 DEF SystemInv, AttemptAtCore, Service, scheduling, vars, Mem!PageHit,
     Mem!PageInFree, Mem!PageInEvict, Mem!PageUnavailable, Mem!Pin
<1>6. CASE Bookkeeping
  BY <1>6, NothingElse DEF Bookkeeping, AttemptAtCore, memory
<1> QED
  BY <1>1, <1>2, <1>3, <1>4, <1>5, <1>6 DEF SystemNext, SystemTick
------------------------------------------------------------------------------
(***************************************************************************)
(* What a process is, while it lives.                                      *)
(***************************************************************************)
(* A tick neither creates a process nor makes one forgotten or larger, and *)
(* runs none that does not fit.                                            *)
LEMMA TickKeeps ==
  ASSUME Inv, Tick \/ UNCHANGED vars
  PROVE  /\ memorySize' = memorySize /\ allocated' \subseteq allocated
         /\ \A q \in Pids :
              /\ state'[q] = None <=> state[q] = None
              /\ state'[q] = RUNNING => state[q] = RUNNING \/ Admitted(q)
<1>1. CASE WakeSleepers
  <2>1. \A q \in Woken : q \in Pids /\ state[q] = SLEEPING
    BY DEF Woken, Inv, TypeOK, Range, Placement
  <2>2. /\ memorySize' = memorySize /\ allocated' = allocated
        /\ \A q \in Pids : state'[q] = IF q \in Woken THEN READY ELSE state[q]
    BY <1>1 DEF WakeSleepers
  <2> QED
    BY <2>1, <2>2, StatesDiffer
<1>2. CASE EmptyCore \/ StartDispatch \/ NoDispatch \/ EndTick \/ UNCHANGED vars
  BY <1>2 DEF EmptyCore, StartDispatch, NoDispatch, EndTick, vars, process
<1>3. ASSUME NEW p \in Pids, NEW o \in Outcomes \cup {Waiting}, RunCore(p, o)
      PROVE  /\ memorySize' = memorySize /\ allocated' \subseteq allocated
             /\ \A q \in Pids :
                  /\ state'[q] = None <=> state[q] = None
                  /\ state'[q] = RUNNING => state[q] = RUNNING
  <2>1. Attempt(p, o)
    BY <1>3 DEF RunCore, Finish, FallAsleep, Preempt, StayOnCore
  <2>2. state[p] = RUNNING
    BY <2>1, AttemptedProcess
  <2>3. /\ memorySize' = memorySize /\ allocated' \subseteq allocated
        /\ state \in [Pids -> States \cup {None}]
    BY <1>3, <2>1 DEF Attempt, RunCore, Finish, FallAsleep, Preempt, StayOnCore,
       TablesWithout, Inv, TypeOK
  <2>4. \E s \in Done \cup {SLEEPING, READY, RUNNING} : state' = [state EXCEPT ![p] = s]
    BY <1>3, <2>2, <2>3 DEF RunCore, Finish, FallAsleep, Preempt, StayOnCore
  <2> QED
    BY <2>2, <2>3, <2>4, StatesDiffer
<1>4. ASSUME NEW p \in Pids, Dispatch(p)
      PROVE  /\ memorySize' = memorySize /\ allocated' \subseteq allocated
             /\ \A q \in Pids :
                  /\ state'[q] = None <=> state[q] = None
                  /\ state'[q] = RUNNING => state[q] = RUNNING \/ Admitted(q)
  <2>1. state[p] = READY /\ Admitted(p)
    BY <1>4 DEF Dispatch, IsCandidate, IsFirstOutside, Oversize, Range, Inv, Placement
  <2>2. /\ memorySize' = memorySize /\ allocated' = allocated
        /\ state' = [state EXCEPT ![p] = RUNNING]
        /\ state \in [Pids -> States \cup {None}]
    BY <1>4 DEF Dispatch, Inv, TypeOK
  <2> QED
    BY <2>1, <2>2, StatesDiffer
<1> QED
  BY <1>1, <1>2, <1>3, <1>4 DEF Tick

LEMMA TickOfSystem == SystemTick \/ UNCHANGED all => Tick \/ UNCHANGED vars
<1> SUFFICES ASSUME SystemTick \/ UNCHANGED all
             PROVE  Tick \/ UNCHANGED vars
  OBVIOUS
<1>1. CASE UNCHANGED all
  BY <1>1 DEF all, scheduling
<1>2. ASSUME NEW p \in Pids, Advance(p)
      PROVE  UNCHANGED vars
  BY <1>2 DEF Advance, StepOver, Begin, Violate, Ask, Answer, Execute, Stall, scheduling
<1>3. ASSUME NEW p \in Pids, NEW o \in {outcome, Waiting}, TurnOver(p, o)
      PROVE  Tick
  BY <1>3, TurnOverRuns DEF Tick
<1>4. CASE Service
  BY <1>4 DEF Service, scheduling
<1>5. CASE Bookkeeping
  BY <1>5 DEF Bookkeeping, Tick
<1> QED
  BY <1>1, <1>2, <1>3, <1>4, <1>5 DEF SystemTick

LEMMA CreateKeeps ==
  ASSUME SystemInv, NEW p \in Pids, NEW size \in MemSizes, NEW prog \in Programs,
         Create(p, size, prog)
  PROVE  /\ state[p] = None /\ p \notin allocated
         /\ state'[p] = READY /\ memorySize'[p] = size /\ program'[p] = prog
         /\ allocated' = allocated \cup {p}
         /\ \A q \in Pids \ {p} : /\ state'[q] = state[q]
                                  /\ memorySize'[q] = memorySize[q]
                                  /\ program'[q] = program[q]
<1>1. state[p] = None /\ p \notin allocated
  BY StatesDiffer DEF Create, AddProcess, SystemInv, Inv, TablesOfTheLiving
<1> QED
  BY <1>1 DEF Create, AddProcess, SystemInv, Inv, TypeOK, AtInstruction

LEMMA ProcessesLoadedStep ==
  ASSUME SystemInv, [SystemNext]_all
  PROVE  ProcessesLoaded' /\ RunningFits'
<1>1. ASSUME NEW p \in Pids, NEW size \in MemSizes, NEW prog \in Programs,
             Create(p, size, prog)
      PROVE  ProcessesLoaded' /\ RunningFits'
  BY <1>1, CreateKeeps, StatesDiffer
     DEF SystemInv, ProcessesLoaded, RunningFits, Admitted
<1>2. CASE SystemTick \/ UNCHANGED all
  <2>1. /\ memorySize' = memorySize
        /\ \A q \in Pids :
              /\ state'[q] = None <=> state[q] = None
              /\ state'[q] = RUNNING => state[q] = RUNNING \/ Admitted(q)
    BY <1>2, TickOfSystem, TickKeeps DEF SystemInv
  <2>2. program' = program
    BY <1>2 DEF SystemTick, Advance, StepOver, Begin, Violate, Ask, Answer, Execute,
       Stall, Complete, TurnOver, Service, Bookkeeping, processes, all
  <2> QED
    BY <2>1, <2>2 DEF SystemInv, ProcessesLoaded, RunningFits, Admitted
<1> QED
  BY <1>1, <1>2 DEF SystemNext
(* Where the processes are does not change by what others do.              *)
LEMMA InstructionKept ==
  ASSUME SystemInv, UNCHANGED <<processes, cores, core>>,
         outcome' = outcome \/ (outcome = None /\ outcome'.state # FINISHED),
         allocated' \subseteq allocated,
         \A q \in Pids : state'[q] = None <=> state[q] = None,
         scan' = None \/ (scan' # None /\ scan # None /\ running' = running)
  PROVE  AtInstruction'
<1>1. UNCHANGED <<program, line, instrPhase>>
  BY DEF processes
<1>2. \A q : Current(q)' = Current(q)
  BY <1>1 DEF Current
<1>3. \A q : Over(q)' <=> Over(q)
  BY DEF Over
<1> QED
  BY <1>1, <1>2, <1>3 DEF SystemInv, AtInstruction

(* advance() goes to the next instruction, or back to the first.           *)
LEMMA CompleteStep ==
  ASSUME SystemInv, NEW p \in Pids, StepOver(p) \/ Execute(p)
  PROVE  AtInstruction'
<1>1. /\ outcome = None /\ cores[core] = p /\ state[p] = RUNNING
      /\ Complete(p) /\ UNCHANGED <<state, allocated, cores, core, program>>
      /\ scan' = None
  BY AttemptOfCore
     DEF StepOver, Execute, Complete, scheduling, vars, process, memory, Mem!EndAttempt,
         SystemInv, MemCalls
<1>2. /\ program[p] \in Seq(Instructions) /\ program[p] # <<>>
      /\ line[p] \in 1 .. Len(program[p])
  BY <1>1, CurrentType
<1>3. p \in allocated /\ state[p] # None
  BY <1>1, RunningIsKnown
<1>4. /\ line \in [Pids -> Nat \ {0}] /\ instrPhase \in [Pids -> Nat]
      /\ program \in [Pids -> Programs \cup {None}]
  BY DEF SystemInv, AtInstruction
<1>5. Len(program[p]) \in Nat \ {0}
  BY <1>2
<1>6. /\ instrPhase' = [instrPhase EXCEPT ![p] = 0]
      /\ line' = [line EXCEPT ![p] = IF AtEnd(p) /\ program[p] \in Endless THEN 1 ELSE @ + 1]
      /\ outcome' = [result |-> "COMPLETED",
                     state  |-> IF AtEnd(p) /\ program[p] \notin Endless
                                THEN FINISHED ELSE RUNNING,
                     sleep  |-> Current(p).sleep,
                     pins   |-> p \in PinOwners]
      /\ outcome' # None
  BY <1>1, OutcomeTypes DEF Complete
<1>7. outcome'.state = FINISHED <=> AtEnd(p) /\ program[p] \notin Endless
  BY <1>6, StatesDiffer
<1>8. line' \in [Pids -> Nat \ {0}] /\ instrPhase' \in [Pids -> Nat]
  BY <1>4, <1>6
<1>9. \A q \in Pids : state'[q] = None => line'[q] = 1 /\ instrPhase'[q] = 0
  <2>1. \A q \in Pids \ {p} : line'[q] = line[q] /\ instrPhase'[q] = instrPhase[q]
    BY <1>4, <1>6
  <2> QED
    BY <1>1, <1>3, <2>1 DEF SystemInv, AtInstruction
<1>10. ASSUME NEW q \in allocated, ~ Over(q)'
       PROVE  line'[q] <= Len(program[q]) /\ instrPhase'[q] <= Len(Current(q)'.asks)
  <2>1. CASE q = p
    <3>1. ~ (AtEnd(p) /\ program[p] \notin Endless)
      BY <1>1, <1>6, <1>7, <1>10, <2>1 DEF Over
    <3>2. line'[p] \in 1 .. Len(program[p])
      <4>1. CASE AtEnd(p)
        BY <1>4, <1>5, <1>6, <3>1, <4>1
      <4>2. CASE ~ AtEnd(p)
        <5>1. line'[p] = line[p] + 1 /\ line[p] # Len(program[p])
          BY <1>4, <1>6, <4>2 DEF AtEnd
        <5> QED
          BY <1>2, <1>5, <5>1
      <4> QED
        BY <4>1, <4>2
    <3>3. instrPhase'[p] = 0
      BY <1>4, <1>6
    <3>4. Current(p)' \in Instructions
      <4>1. Current(p)' = program[p][line'[p]]
        BY <1>1 DEF Current
      <4> QED
        BY <1>2, <3>2, <4>1
    <3>5. Len(Current(p)'.asks) \in Nat
      BY <3>4 DEF Instructions
    <3> QED
      BY <1>5, <2>1, <3>2, <3>3, <3>5
  <2>2. CASE q # p
    <3>1. q \in Pids
      BY DEF SystemInv, Inv, TypeOK
    <3>2. line'[q] = line[q] /\ instrPhase'[q] = instrPhase[q]
      BY <1>4, <1>6, <2>2, <3>1
    <3>3. Current(q)' = Current(q)
      BY <1>1, <3>2 DEF Current
    <3>4. ~ Over(q)
      BY <1>1 DEF Over
    <3> QED
      BY <3>2, <3>3, <3>4 DEF SystemInv, AtInstruction
  <2> QED
    BY <2>1, <2>2
<1> QED
  BY <1>1, <1>4, <1>8, <1>9, <1>10 DEF AtInstruction

(* A region more is had only when one was asked for.                       *)
LEMMA AnswerStep ==
  ASSUME SystemInv, NEW p \in Pids, Answer(p)
  PROVE  AtInstruction'
<1>1. /\ outcome = None /\ state[p] = RUNNING /\ running = p
      /\ UNCHANGED <<program, line, outcome, state, allocated>>
      /\ scan # None /\ scan' = None
      /\ instrPhase' = [instrPhase EXCEPT ![p] = PhaseAfter(p, reply')]
  BY AttemptOfCore DEF Answer, scheduling, vars, process, Mem!Return
<1>2. /\ instrPhase \in [Pids -> Nat] /\ instrPhase[p] < Len(Current(p).asks)
      /\ instrPhase[p] \in Nat /\ Len(Current(p).asks) \in Nat
  BY <1>1, CurrentType DEF SystemInv, AtInstruction, Instructions
<1>3. PhaseAfter(p, reply') \in {instrPhase[p], instrPhase[p] + 1}
  BY DEF PhaseAfter
<1>4. instrPhase' \in [Pids -> Nat] /\ instrPhase'[p] <= Len(Current(p).asks)
  BY <1>1, <1>2, <1>3
<1>5. \A q \in Pids \ {p} : instrPhase'[q] = instrPhase[q]
  BY <1>1, <1>2
<1>6. \A q : Current(q)' = Current(q)
  BY <1>1 DEF Current
<1>7. \A q : ~ Over(q) /\ ~ Over(q)'
  BY <1>1 DEF Over
<1>8. state[p] # None /\ allocated \subseteq Pids
  BY <1>1, StatesDiffer DEF SystemInv, Inv, TypeOK
<1> QED
  BY <1>1, <1>4, <1>5, <1>6, <1>7, <1>8 DEF SystemInv, AtInstruction

LEMMA CreateInstruction ==
  ASSUME SystemInv, NEW p \in Pids, NEW size \in MemSizes, NEW prog \in Programs,
         Create(p, size, prog)
  PROVE  AtInstruction'
<1>1. /\ state[p] = None /\ p \notin allocated
      /\ state'[p] = READY /\ program'[p] = prog
      /\ allocated' = allocated \cup {p}
      /\ \A q \in Pids \ {p} : state'[q] = state[q] /\ program'[q] = program[q]
  BY CreateKeeps
<1>2. /\ outcome = None /\ UNCHANGED <<line, instrPhase, outcome>>
      /\ scan = None /\ scan' = None
      /\ program' = [program EXCEPT ![p] = prog]
  BY NothingElse DEF Create, Mem!CreateProcess, Mem!callVars, SystemInv, MemCalls
<1>3. \A q : ~ Over(q) /\ ~ Over(q)'
  BY <1>2 DEF Over
<1>4. line[p] = 1 /\ instrPhase[p] = 0
  BY <1>1 DEF SystemInv, AtInstruction
<1>5. prog \in Seq(Instructions) /\ prog # <<>>
  BY EmulatorConstants
<1>6. Len(prog) \in Nat \ {0} /\ prog[1] \in Instructions
  BY <1>5
<1>7. Len(prog[1].asks) \in Nat
  BY <1>6 DEF Instructions
<1>8. line'[p] <= Len(program'[p]) /\ instrPhase'[p] <= Len(Current(p)'.asks)
  BY <1>1, <1>2, <1>4, <1>6, <1>7 DEF Current
<1>9. \A q \in Pids \ {p} : Current(q)' = Current(q)
  BY <1>1, <1>2 DEF Current
<1>10. allocated \subseteq Pids
  BY DEF SystemInv, Inv, TypeOK
<1>11. program' \in [Pids -> Programs \cup {None}]
  BY <1>2 DEF SystemInv, AtInstruction
<1>12. \A q \in allocated : line[q] <= Len(program'[q]) /\ instrPhase[q] <= Len(Current(q)'.asks)
  BY <1>1, <1>3, <1>9, <1>10 DEF SystemInv, AtInstruction
<1> QED
  BY <1>1, <1>2, <1>8, <1>11, <1>12, StatesDiffer DEF SystemInv, AtInstruction

LEMMA AtInstructionStep ==
  ASSUME SystemInv, [SystemNext]_all
  PROVE  AtInstruction'
<1>1. ASSUME NEW p \in Pids, NEW size \in MemSizes, NEW prog \in Programs,
             Create(p, size, prog)
      PROVE  AtInstruction'
  BY <1>1, CreateInstruction
<1>2. CASE UNCHANGED all
  BY <1>2, InstructionKept DEF all, scheduling, vars, process, memory
<1>3. ASSUME NEW p \in Pids, Advance(p)
      PROVE  AtInstruction'
  <2>1. CASE StepOver(p) \/ Execute(p)
    BY <2>1, CompleteStep
  <2>2. CASE Answer(p)
    BY <2>2, AnswerStep
  <2>3. CASE Begin(p)
    <3>1. scan' = None
      BY <2>3 DEF Begin, Mem!BeginInstruction, SystemInv, MemCalls
    <3> QED
      BY <2>3, <3>1, InstructionKept DEF Begin, scheduling, vars, process
  <2>4. CASE Violate(p) \/ Stall(p)
    <3>1. scan' = None /\ outcome = None
      BY <2>4, AttemptOfCore DEF Violate, Stall, Mem!EndAttempt
    <3>2. outcome'.state # FINISHED
      BY <2>4, StatesDiffer DEF Violate, Stall, TERMINATED, FINISHED
    <3> QED
      BY <2>4, <3>1, <3>2, InstructionKept DEF Violate, Stall, scheduling, vars, process
  <2>5. CASE Ask(p)
    <3>1. /\ running = p /\ running' = running /\ instrPhase[p] < Len(Current(p).asks)
          /\ UNCHANGED <<program, line, instrPhase, outcome, cores, core, state, allocated>>
      BY <2>5 DEF Ask, scheduling, vars, process, processes, Mem!EnsureResident
    <3>2. \A q : Current(q)' = Current(q) /\ (Over(q)' <=> Over(q))
      BY <3>1 DEF Current, Over
    <3> QED
      BY <3>1, <3>2 DEF SystemInv, AtInstruction
  <2> QED
    BY <1>3, <2>1, <2>2, <2>3, <2>4, <2>5 DEF Advance
<1>4. ASSUME NEW p \in Pids, NEW o \in {outcome, Waiting}, TurnOver(p, o)
      PROVE  AtInstruction'
  <2>1. /\ running = None /\ outcome' = None /\ cores[core] = p
        /\ o \in Outcomes \cup {Waiting} /\ RunCore(p, o)
        /\ outcome = None \/ o = outcome
        /\ UNCHANGED <<program, line, instrPhase>>
    BY <1>4, TurnOfCore DEF TurnOver, processes
  <2>2. /\ allocated' \subseteq allocated
        /\ \A q \in Pids : state'[q] = None <=> state[q] = None
    <3>1. Tick
      BY <2>1 DEF Tick
    <3> QED
      BY <3>1, TickKeeps DEF SystemInv
  <2>3. scan' = None
    <3>1. scan = None
      BY <2>1 DEF SystemInv, MemCalls
    <3> QED
      BY <1>4, <3>1 DEF TurnOver, memory, DropPins, Mem!DestroyProcess,
         Mem!ReleasePins, Mem!callVars
  <2>4. ASSUME NEW q \in allocated'
        PROVE  q \in allocated /\ ~ Over(q)
    <3>1. CASE q = p
      <4>1. ~ Finish(p, o)
        BY <3>1 DEF Finish, TablesWithout
      <4>2. o.state = RUNNING
        BY <2>1, <4>1 DEF RunCore, FallAsleep, Preempt, StayOnCore
      <4> QED
        BY <2>1, <2>2, <4>2, StatesDiffer DEF Over
    <3>2. CASE q # p
      BY <2>1, <2>2, <3>2 DEF Over
    <3> QED
      BY <3>1, <3>2
  <2>5. \A q : Current(q)' = Current(q)
    BY <2>1 DEF Current
  <2> QED
    BY <2>1, <2>2, <2>3, <2>4, <2>5 DEF SystemInv, AtInstruction
<1>5. CASE Service
  <2>1. scan # None /\ running' = running /\ UNCHANGED <<processes, outcome>>
    BY <1>5 DEF Service, Mem!PageHit, Mem!PageInFree, Mem!PageInEvict,
       Mem!PageUnavailable, Mem!Pin, Mem!InLoop
  <2> QED
    BY <1>5, <2>1, InstructionKept DEF Service, scheduling, vars, process
<1>6. CASE Bookkeeping
  <2>1. outcome = None /\ outcome' = None /\ scan' = None
    BY <1>6, NothingElse DEF Bookkeeping, memory, SystemInv, MemCalls
  <2>2. /\ allocated' \subseteq allocated
        /\ \A q \in Pids : state'[q] = None <=> state[q] = None
    BY <1>6, TickKeeps DEF Bookkeeping, Tick, SystemInv
  <2>3. UNCHANGED <<program, line, instrPhase>>
    BY <1>6 DEF Bookkeeping, processes
  <2>4. \A q : Current(q)' = Current(q) /\ ~ Over(q) /\ ~ Over(q)'
    BY <2>1, <2>3 DEF Current, Over
  <2> QED
    BY <2>1, <2>2, <2>3, <2>4 DEF SystemInv, AtInstruction
<1> QED
  BY <1>1, <1>2, <1>3, <1>4, <1>5, <1>6 DEF SystemNext, SystemTick
------------------------------------------------------------------------------
(***************************************************************************)
(* The allocator's tables under the system's steps.                        *)
(***************************************************************************)
(* No process has more pages than the largest has, a forgotten one none.   *)
LEMMA PageCounts ==
  ASSUME SystemInv, NEW p \in Pids
  PROVE  /\ TableSize[p] \in 0 .. MaxMemSize
         /\ Mem!NumPages(TableSize[p]) \in Nat
         /\ Mem!NumPages(TableSize[p]) <= Mem!NumPages(MaxMemSize)
         /\ Mem!NumPages(MaxMemSize) \in Nat
         /\ Mem!NumPages(0) = 0
<1>1. MaxMemSize \in Nat \ {0} /\ FrameSize \in Nat \ {0}
  BY EmulatorConstants
<1>2. TableSize[p] \in 0 .. MaxMemSize
  <2>1. CASE p \in allocated
    <3>1. state[p] # None
      BY <2>1, StatesDiffer DEF SystemInv, Inv, TablesOfTheLiving
    <3>2. memorySize[p] \in 1 .. MaxMemSize
      BY <3>1, EmulatorConstants DEF SystemInv, ProcessesLoaded
    <3> QED
      BY <1>1, <2>1, <3>2 DEF TableSize
  <2>2. CASE p \notin allocated
    BY <1>1, <2>2 DEF TableSize
  <2> QED
    BY <2>1, <2>2
<1> QED
  BY <1>1, <1>2 DEF Mem!NumPages

(* The allocator works for the process on the core, on a page it has.      *)
LEMMA ScannedPage ==
  ASSUME SystemInv, Mem!InLoop
  PROVE  /\ running \in Pids /\ running = cores[core] /\ outcome = None
         /\ Mem!ScanPage \in Mem!Pages /\ Mem!LivePage(Mem!ScanPage)
         /\ Mem!ScanPage[1] = running
<1>1. running \in Pids /\ running # None /\ scan.vpn \in Nat
  BY DEF SystemInv, MemCalls, Mem!InLoop
<1>2. running = cores[core] /\ outcome = None
  BY <1>1 DEF SystemInv, AttemptAtCore
<1>3. scan.vpn < Mem!NumPages(TableSize[running])
  BY DEF Mem!InLoop
<1>4. scan.vpn \in Mem!VPNs
  BY <1>1, <1>3, PageCounts DEF Mem!VPNs
<1> QED
  BY <1>1, <1>2, <1>3, <1>4 DEF Mem!ScanPage, Mem!Pages, Mem!LivePage

(* What serving a page request does to the tables: the page gets a free    *)
(* frame or that of a victim nobody has pinned, or has one, or gets none.  *)
LEMMA ServiceMoves ==
  ASSUME SystemInv, Service
  PROVE  /\ MemTables'
         /\ \A page \in Mem!Pages :
              Mem!Resident(page)' => Mem!Resident(page) \/ Mem!LivePage(page)
         /\ \A q \in Pids \ {running} : q \in PinOwners' <=> q \in PinOwners
         /\ pinnedFrames' \subseteq Frames
<1> DEFINE page == Mem!ScanPage
<1>1. /\ Mem!InLoop /\ page \in Mem!Pages /\ Mem!LivePage(page) /\ page[1] = running
      /\ running \in Pids
  BY ScannedPage DEF Service, Mem!PageHit, Mem!PageInFree, Mem!PageInEvict,
     Mem!PageUnavailable
<1>2. /\ MemTables /\ pinnedFrames \subseteq Frames
      /\ None \notin Frames /\ None \notin Mem!Pages
  BY NoneIsNoDatum DEF SystemInv, MemCalls
<1>3. /\ pageTable \in [Mem!Pages -> Frames \cup {None}]
      /\ frameTable \in [Frames -> Mem!Pages \cup {None}]
      /\ freeFrames \subseteq Frames
      /\ \A f \in Frames, p \in Mem!Pages : pageTable[p] = f <=> frameTable[f] = p
      /\ \A f \in Frames : f \in freeFrames <=> frameTable[f] = None
  BY <1>2 DEF MemTables, OneTable
<1>4. CASE Mem!PageHit
  <2>1. /\ UNCHANGED <<pageTable, frameTable, freeFrames, fifoFrames>>
        /\ pinnedFrames' = pinnedFrames \cup {pageTable[page]}
        /\ pageTable[page] # None
    BY <1>4 DEF Mem!PageHit, Mem!Pin, Mem!frameVars, Mem!Resident
  <2>2. pageTable[page] \in Frames /\ frameTable[pageTable[page]] = page
    BY <1>1, <1>3, <2>1
  <2> QED
    BY <1>1, <1>2, <2>1, <2>2 DEF MemTables, Mem!Resident, PinOwners
<1>5. CASE Mem!PageInFree
  <2>1. PICK f \in freeFrames :
          /\ freeFrames' = freeFrames \ {f}
          /\ pageTable'  = [pageTable EXCEPT ![page] = f]
          /\ frameTable' = [frameTable EXCEPT ![f] = page]
          /\ fifoFrames' = Append(fifoFrames, f)
          /\ pinnedFrames' = pinnedFrames \cup {f}
    BY <1>5 DEF Mem!PageInFree, Mem!Pin
  <2>2. pageTable[page] = None
    BY <1>5 DEF Mem!PageInFree, Mem!Resident
  <2> HIDE DEF page
  <2>3. MemTables'
    BY <1>1, <1>2, <2>1, <2>2, FrameTaken DEF MemTables
  <2>4. /\ f \in Frames /\ frameTable[f] = None /\ frameTable'[f] = page
        /\ \A g \in Frames \ {f} : frameTable'[g] = frameTable[g]
    BY <1>1, <1>3, <2>1
  <2>5. \A p \in Mem!Pages \ {page} : pageTable'[p] = pageTable[p]
    BY <1>1, <1>3, <2>1
  <2>6. ASSUME NEW q \in Pids \ {running}
        PROVE  q \in PinOwners' <=> q \in PinOwners
    BY <1>1, <1>2, <2>1, <2>4, <2>6 DEF PinOwners
  <2> QED
    BY <1>1, <1>2, <2>1, <2>3, <2>4, <2>5, <2>6 DEF Mem!Resident
<1>6. CASE Mem!PageInEvict
  <2>1. PICK f \in Frames :
          /\ Mem!IsVictim(f)
          /\ pageTable' =
               [p \in Mem!Pages |-> CASE p = page          -> f
                                      [] p = frameTable[f] -> None
                                      [] OTHER             -> pageTable[p]]
          /\ frameTable' = [frameTable EXCEPT ![f] = page]
          /\ fifoFrames' = Append(Mem!Without(fifoFrames, {f}), f)
          /\ pinnedFrames' = pinnedFrames \cup {f}
    BY <1>6 DEF Mem!PageInEvict, Mem!Pin
  <2>2. pageTable[page] = None /\ freeFrames = {} /\ freeFrames' = {}
    BY <1>6 DEF Mem!PageInEvict, Mem!Resident
  <2>3. f \notin pinnedFrames
    BY <2>1 DEF Mem!IsVictim, Mem!IsFirstOutside
  <2> HIDE DEF page
  <2> DEFINE pt2 == [p \in Mem!Pages |-> IF pageTable[p] \in {f} THEN None ELSE pageTable[p]]
             ft2 == [g \in Frames |-> IF g \in {f} THEN None ELSE frameTable[g]]
             q2  == Without(fifoFrames, {f})
  <2>4. OneTable(Frames, Mem!Pages, None, pt2, ft2, freeFrames \cup {f}, q2)
    BY <1>2, FramesGivenBack DEF MemTables
  <2>5. pt2[page] = None /\ f \in freeFrames \cup {f}
    BY <1>1, <2>2
  <2>6. pageTable' = [pt2 EXCEPT ![page] = f]
    <3>1. \A p \in Mem!Pages : p = frameTable[f] <=> pageTable[p] = f
      BY <1>3
    <3>2. \A p \in Mem!Pages :
            pageTable'[p] = IF p = page THEN f
                            ELSE IF pageTable[p] = f THEN None ELSE pageTable[p]
      BY <1>1, <2>1, <2>2, <3>1, NoneIsNoDatum
    <3>3. pageTable' = [p \in Mem!Pages |-> pageTable'[p]]
      BY <2>1
    <3> QED
      BY <3>2, <3>3
  <2>7. frameTable' = [ft2 EXCEPT ![f] = page]
    BY <1>3, <2>1
  <2>8. Mem!Without(fifoFrames, {f}) = q2
    BY DEF Mem!Without, Without, Mem!Kept, Kept, Mem!Rank, Rank, Mem!Cardinality, Cardinality
  <2>9. fifoFrames' = Append(q2, f) /\ freeFrames' = (freeFrames \cup {f}) \ {f}
    BY <2>1, <2>2, <2>8
  <2> HIDE DEF pt2, ft2, q2
  <2>10. MemTables'
    BY <1>1, <2>4, <2>5, <2>6, <2>7, <2>9, FrameTaken DEF MemTables
  <2>11. /\ frameTable'[f] = page
         /\ \A g \in Frames \ {f} : frameTable'[g] = frameTable[g]
    BY <1>1, <1>3, <2>1
  <2>12. \A p \in Mem!Pages \ {page} : pageTable'[p] \in {None, pageTable[p]}
    BY <1>1, <1>3, <2>1
  <2>13. ASSUME NEW q \in Pids \ {running}
         PROVE  q \in PinOwners' <=> q \in PinOwners
    BY <1>1, <1>2, <2>1, <2>3, <2>11, <2>13 DEF PinOwners
  <2> QED
    BY <1>1, <1>2, <2>1, <2>10, <2>12, <2>13 DEF Mem!Resident
<1>7. CASE Mem!PageUnavailable
  <2>1. /\ UNCHANGED <<pageTable, frameTable, freeFrames, fifoFrames>>
        /\ pinnedFrames' = Mem!PinsWithout(running)
    BY <1>7 DEF Mem!PageUnavailable, Mem!frameVars
  <2> QED
    BY <1>2, <2>1 DEF MemTables, Mem!Resident, PinOwners, Mem!PinsWithout
<1> QED
  BY <1>4, <1>5, <1>6, <1>7 DEF Service

(* A process that is over gives back every frame, pinned or not.           *)
LEMMA DestroyMoves ==
  ASSUME SystemInv, NEW p \in Pids, Mem!DestroyProcess(p)
  PROVE  /\ MemTables'
         /\ \A page \in Mem!Pages :
              Mem!Resident(page)' => Mem!Resident(page) /\ page[1] # p
         /\ \A q \in Pids : q \in PinOwners' <=> q \in PinOwners /\ q # p
         /\ pinnedFrames' \subseteq Frames
<1> DEFINE D == Mem!FramesOf(p)
           pt2 == [page \in Mem!Pages |-> IF pageTable[page] \in D THEN None
                                                                 ELSE pageTable[page]]
<1>1. /\ pageTable' = [page \in Mem!Pages |-> IF page[1] = p THEN None
                                                             ELSE pageTable[page]]
      /\ frameTable' = [f \in Frames |-> IF f \in D THEN None ELSE frameTable[f]]
      /\ freeFrames' = freeFrames \cup D
      /\ fifoFrames' = Mem!Without(fifoFrames, D)
      /\ pinnedFrames' = pinnedFrames \ D
  BY DEF Mem!DestroyProcess, Mem!ReturnedFrames, Mem!FifoAfterDestroy, Mem!PinsAfterDestroy
<1>2. /\ MemTables /\ pinnedFrames \subseteq Frames
      /\ None \notin Frames /\ None \notin Mem!Pages
  BY NoneIsNoDatum DEF SystemInv, MemCalls
<1>3. /\ pageTable \in [Mem!Pages -> Frames \cup {None}]
      /\ frameTable \in [Frames -> Mem!Pages \cup {None}]
      /\ \A f \in Frames, page \in Mem!Pages : pageTable[page] = f <=> frameTable[f] = page
  BY <1>2 DEF MemTables, OneTable
<1>4. D \subseteq Frames
  BY DEF Mem!FramesOf
<1>5. \A f \in Frames : f \in D <=> frameTable[f] # None /\ frameTable[f][1] = p
  <2>1. \A f \in Frames : f \in D <=> \E v \in Mem!VPNs : frameTable[f] = <<p, v>>
    BY <1>3 DEF Mem!FramesOf, Mem!Pages
  <2>2. \A page \in Mem!Pages : page = <<page[1], page[2]>> /\ page[2] \in Mem!VPNs
    BY DEF Mem!Pages
  <2>3. \A v \in Mem!VPNs : <<p, v>> # None /\ <<p, v>>[1] = p
    BY <1>2 DEF Mem!Pages
  <2> QED
    BY <1>3, <2>1, <2>2, <2>3
<1> HIDE DEF D
<1>6. \A page \in Mem!Pages : pageTable[page] \in D <=> page[1] = p /\ pageTable[page] # None
  BY <1>2, <1>3, <1>4, <1>5
<1>7. pageTable' = pt2
  BY <1>1, <1>6
<1>8. Mem!Without(fifoFrames, D) = Without(fifoFrames, D)
  BY DEF Mem!Without, Without, Mem!Kept, Kept, Mem!Rank, Rank, Mem!Cardinality, Cardinality
<1>9. MemTables'
  BY <1>1, <1>2, <1>4, <1>7, <1>8, FramesGivenBack DEF MemTables
<1>10. \A q \in Pids : q \in PinOwners' <=> q \in PinOwners /\ q # p
  <2>1. \A f \in pinnedFrames' : f \in pinnedFrames /\ f \notin D /\ frameTable'[f] = frameTable[f]
    BY <1>1, <1>2
  <2>2. \A f \in pinnedFrames : f \notin D => f \in pinnedFrames'
    BY <1>1
  <2> QED
    BY <1>2, <1>5, <2>1, <2>2 DEF PinOwners
<1> QED
  BY <1>1, <1>2, <1>9, <1>10 DEF Mem!Resident

(* Dropping the pins of one process takes nobody else's.                   *)
LEMMA PinsDropped ==
  ASSUME NEW p, pinnedFrames' = Mem!PinsWithout(p), UNCHANGED frameTable
  PROVE  \A q \in Pids : q \in PinOwners' <=> q \in PinOwners /\ q # p
  BY DEF Mem!PinsWithout, PinOwners

(* What the other steps do to the tables: nothing.                         *)
LEMMA TablesElsewhere ==
  ASSUME SystemInv, [SystemNext]_all, ~ Service,
         ~ \E p \in Pids : Mem!DestroyProcess(p)
  PROVE  /\ UNCHANGED <<pageTable, frameTable, freeFrames, fifoFrames>>
         /\ pinnedFrames' \subseteq pinnedFrames
<1>1. CASE UNCHANGED all
  BY <1>1 DEF all, memory
<1>2. ASSUME NEW p \in Pids, NEW size \in MemSizes, NEW prog \in Programs,
             Create(p, size, prog)
      PROVE  UNCHANGED <<pageTable, frameTable, freeFrames, fifoFrames, pinnedFrames>>
  BY <1>2 DEF Create, Mem!CreateProcess, Mem!frameVars
<1>3. ASSUME NEW p \in Pids, Advance(p)
      PROVE  /\ UNCHANGED <<pageTable, frameTable, freeFrames, fifoFrames>>
             /\ pinnedFrames' \subseteq pinnedFrames
  BY <1>3 DEF Advance, StepOver, Begin, Violate, Ask, Answer, Execute, Stall, memory,
     Mem!BeginInstruction, Mem!EnsureResident, Mem!Return, Mem!EndAttempt, Mem!frameVars,
     Mem!PinsWithout
<1>4. ASSUME NEW p \in Pids, NEW o \in {outcome, Waiting}, TurnOver(p, o)
      PROVE  /\ UNCHANGED <<pageTable, frameTable, freeFrames, fifoFrames>>
             /\ pinnedFrames' \subseteq pinnedFrames
  BY <1>4 DEF TurnOver, DropPins, Mem!ReleasePins, Mem!PinsWithout, Mem!frameVars, memory
<1>5. CASE Bookkeeping
  BY <1>5 DEF Bookkeeping, memory
<1> QED
  BY <1>1, <1>2, <1>3, <1>4, <1>5 DEF SystemNext, SystemTick

(* Only creation and destruction change the size the allocator knows.      *)
LEMMA SizesElsewhere ==
  ASSUME SystemInv, [SystemNext]_all
  PROVE  \/ UNCHANGED TableSize
         \/ \E p \in Pids : Mem!DestroyProcess(p)
         \/ \E p \in Pids, size \in MemSizes, prog \in Programs : Create(p, size, prog)
<1>1. CASE UNCHANGED all
  BY <1>1, SizesKept DEF all, scheduling, vars, process
<1>2. ASSUME NEW p \in Pids, Advance(p)
      PROVE  UNCHANGED TableSize
  BY <1>2, SizesKept DEF Advance, StepOver, Begin, Violate, Ask, Answer, Execute, Stall,
     scheduling, vars, process
<1>3. ASSUME NEW p \in Pids, NEW o \in {outcome, Waiting}, TurnOver(p, o)
      PROVE  UNCHANGED TableSize \/ Mem!DestroyProcess(p)
  BY <1>3, SizesKept DEF TurnOver, FallAsleep, Preempt, StayOnCore, Attempt
<1>4. CASE Service
  BY <1>4, SizesKept DEF Service, scheduling, vars, process
<1>5. CASE Bookkeeping
  BY <1>5, BookkeepingKeeps, SizesKept
<1> QED
  BY <1>1, <1>2, <1>3, <1>4, <1>5 DEF SystemNext, SystemTick

LEMMA MemTablesStep ==
  ASSUME SystemInv, [SystemNext]_all
  PROVE  MemTables' /\ ResidentLive'
<1>1. CASE Service
  <2>1. UNCHANGED TableSize
    BY <1>1, SizesKept DEF Service, scheduling, vars, process
  <2>2. /\ MemTables'
        /\ \A page \in Mem!Pages :
             Mem!Resident(page)' => Mem!Resident(page) \/ Mem!LivePage(page)
    BY <1>1, ServiceMoves
  <2> QED
    BY <2>1, <2>2 DEF SystemInv, ResidentLive, Mem!LivePage
<1>2. ASSUME NEW p \in Pids, Mem!DestroyProcess(p)
      PROVE  MemTables' /\ ResidentLive'
  <2>1. /\ MemTables'
        /\ \A page \in Mem!Pages : Mem!Resident(page)' => Mem!Resident(page) /\ page[1] # p
    BY <1>2, DestroyMoves
  <2>2. \A q \in Pids \ {p} : TableSize'[q] = TableSize[q]
    BY <1>2 DEF Mem!DestroyProcess, TableSize
  <2>3. \A page \in Mem!Pages : page[1] \in Pids
    BY DEF Mem!Pages
  <2> QED
    BY <2>1, <2>2, <2>3 DEF SystemInv, ResidentLive, Mem!LivePage
<1>3. ASSUME ~ Service, ~ \E p \in Pids : Mem!DestroyProcess(p)
      PROVE  MemTables' /\ ResidentLive'
  <2>1. UNCHANGED <<pageTable, frameTable, freeFrames, fifoFrames>>
    BY <1>3, TablesElsewhere
  <2>2. \A page \in Mem!Pages : Mem!Resident(page)' <=> Mem!Resident(page)
    BY <2>1 DEF Mem!Resident
  <2>3. CASE UNCHANGED TableSize
    BY <2>1, <2>2, <2>3 DEF SystemInv, MemTables, ResidentLive, Mem!LivePage
  <2>4. ASSUME NEW p \in Pids, NEW size \in MemSizes, NEW prog \in Programs,
               Create(p, size, prog)
        PROVE  MemTables' /\ ResidentLive'
    <3>1. TableSize[p] = 0 /\ \A q \in Pids \ {p} : TableSize'[q] = TableSize[q]
      BY <2>4 DEF Create, Mem!CreateProcess, Mem!Live, TableSize
    <3>2. Mem!NumPages(TableSize[p]) = 0
      BY <3>1, PageCounts
    <3>3. \A page \in Mem!Pages : page[1] \in Pids /\ page[2] \in Nat
      BY DEF Mem!Pages, Mem!VPNs
    <3>4. ASSUME NEW page \in Mem!Pages, Mem!Resident(page)
          PROVE  page[1] # p /\ TableSize'[page[1]] = TableSize[page[1]]
      BY <3>1, <3>2, <3>3, <3>4 DEF SystemInv, ResidentLive, Mem!LivePage
    <3> QED
      BY <2>1, <2>2, <3>4 DEF SystemInv, MemTables, ResidentLive, Mem!LivePage
  <2> QED
    BY <1>3, <2>3, <2>4, SizesElsewhere
<1> QED
  BY <1>1, <1>2, <1>3
------------------------------------------------------------------------------
(***************************************************************************)
(* What is under way in the allocator, and what the scheduler believes of  *)
(* its pins.                                                               *)
(***************************************************************************)
LEMMA AskedScan ==
  ASSUME SystemInv, NEW p \in Pids, Ask(p)
  PROVE  scan' # None => scan'.vpn \in Nat
<1>1. Region(p) \in Mem!Regions(TableSize[p])
  BY AskedRegion
<1>2. Region(p).addr \in Nat
  BY <1>1 DEF Mem!Regions, Mem!SymbolRegion
<1>3. scan'.vpn = Region(p).addr \div FrameSize
  BY DEF Ask, Mem!EnsureResident
<1> QED
  BY <1>2, <1>3, EmulatorConstants

LEMMA MemCallsStep ==
  ASSUME SystemInv, [SystemNext]_all
  PROVE  MemCalls'
<1>1. pinnedFrames' \subseteq Frames
  BY ServiceMoves, DestroyMoves, TablesElsewhere DEF SystemInv, MemCalls
<1>2. MemCalls
  BY DEF SystemInv
<1>3. CASE UNCHANGED all
  <2>1. UNCHANGED <<TableSize, running, scan, reply>>
    BY <1>3, SizesKept DEF all, scheduling, vars, process, memory
  <2> QED
    BY <1>1, <1>2, <2>1 DEF MemCalls, Mem!Live, Mem!Admitted, Mem!TotalBytes
<1>4. ASSUME NEW p \in Pids, NEW size \in MemSizes, NEW prog \in Programs,
             Create(p, size, prog)
      PROVE  MemCalls'
  BY <1>1, <1>2, <1>4 DEF MemCalls, Create, Mem!CreateProcess, Mem!callVars
<1>5. ASSUME NEW p \in Pids, Advance(p)
      PROVE  MemCalls'
  <2>1. UNCHANGED TableSize
    BY <1>5, SizesKept DEF Advance, StepOver, Begin, Violate, Ask, Answer, Execute, Stall,
       scheduling, vars, process
  <2>2. CASE StepOver(p)
    BY <1>1, <1>2, <2>2 DEF StepOver, memory, MemCalls
  <2>3. CASE Violate(p) \/ Execute(p) \/ Stall(p)
    BY <1>1, <1>2, <2>3 DEF Violate, Execute, Stall, Mem!EndAttempt, MemCalls
  <2>4. CASE Begin(p)
    BY <1>1, <1>2, <2>1, <2>4, NoneIsNothing
       DEF Begin, Mem!BeginInstruction, MemCalls, Mem!Live, Mem!Admitted, Mem!TotalBytes
  <2>5. CASE Ask(p)
    <3>1. running' = running /\ running = p
      BY <2>5 DEF Ask, Mem!EnsureResident
    <3> QED
      BY <1>1, <1>2, <2>1, <2>5, <3>1, AskedScan, NoneIsNothing
         DEF MemCalls, Mem!Live, Mem!Admitted, Mem!TotalBytes
  <2>6. CASE Answer(p)
    <3>1. running' = running /\ running = p /\ scan' = None
      BY <2>6 DEF Answer, Mem!Return
    <3> QED
      BY <1>1, <1>2, <2>1, <3>1, NoneIsNothing
         DEF MemCalls, Mem!Live, Mem!Admitted, Mem!TotalBytes
  <2> QED
    BY <1>5, <2>2, <2>3, <2>4, <2>5, <2>6 DEF Advance
<1>6. ASSUME NEW p \in Pids, NEW o \in {outcome, Waiting}, TurnOver(p, o)
      PROVE  MemCalls'
  <2>1. running = None /\ UNCHANGED <<running, scan, reply>>
    BY <1>6 DEF TurnOver, DropPins, Mem!ReleasePins, Mem!DestroyProcess, Mem!callVars, memory
  <2> QED
    BY <1>1, <1>2, <2>1 DEF MemCalls
<1>7. CASE Service
  <2>1. UNCHANGED <<TableSize, running>> /\ running # None
    BY <1>7, ScannedPage, SizesKept, NoneIsNothing DEF Service, scheduling, vars, process,
       Mem!PageHit, Mem!PageInFree, Mem!PageInEvict, Mem!PageUnavailable, Mem!Pin
  <2>2. scan' # None => scan'.vpn = scan.vpn + 1 /\ scan # None
    <3>1. ASSUME NEW f, NEW fault, Mem!Pin(f, fault)
          PROVE  scan'.vpn = scan.vpn + 1
      BY <3>1 DEF Mem!Pin
    <3>2. scan # None
      BY <1>7 DEF Service, Mem!PageHit, Mem!PageInFree, Mem!PageInEvict,
         Mem!PageUnavailable, Mem!InLoop
    <3>3. CASE Mem!PageUnavailable
      BY <3>3 DEF Mem!PageUnavailable
    <3>4. CASE Mem!PageHit \/ Mem!PageInFree \/ Mem!PageInEvict
      <4>1. \E f, fault : Mem!Pin(f, fault)
        BY <3>4 DEF Mem!PageHit, Mem!PageInFree, Mem!PageInEvict
      <4> QED
        BY <3>1, <3>2, <4>1
    <3> QED
      BY <1>7, <3>3, <3>4 DEF Service
  <2> QED
    BY <1>1, <1>2, <2>1, <2>2 DEF MemCalls, Mem!Live, Mem!Admitted, Mem!TotalBytes
<1>8. CASE Bookkeeping
  <2>1. running = None /\ UNCHANGED <<running, scan, reply>>
    BY <1>8, NothingElse DEF Bookkeeping, memory
  <2> QED
    BY <1>1, <1>2, <2>1 DEF MemCalls
<1> QED
  BY <1>3, <1>4, <1>5, <1>6, <1>7, <1>8 DEF SystemNext, SystemTick

(* An attempt changes the pins of the process that makes it, and reports   *)
(* them when it is over.                                                   *)
LEMMA AttemptPins ==
  ASSUME SystemInv, NEW p \in Pids, Advance(p)
  PROVE  PinsTracked'
<1>1. outcome = None /\ cores[core] = p /\ UNCHANGED <<cores, core, pinned>>
  BY AttemptOfCore DEF Advance, StepOver, Begin, Violate, Ask, Answer, Execute, Stall,
     scheduling, vars
<1>2. \A q \in Pids \ {p} : q \in pinned <=> q \in PinOwners
  <2>1. running \in {None, p}
    BY DEF Advance, StepOver, Begin, Violate, Ask, Answer, Execute, Stall,
       Mem!BeginInstruction, SystemInv
  <2> QED
    BY <1>1, <2>1, NoneIsNothing DEF SystemInv, PinsTracked, InAttempt
<1>3. CASE StepOver(p) \/ Violate(p) \/ Execute(p) \/ Stall(p)
  <2>1. PinOwners' = PinOwners
    BY <1>3 DEF StepOver, Violate, Execute, Stall, memory, Mem!EndAttempt, Mem!frameVars,
       PinOwners
  <2>2. outcome' # None
    BY <1>3, OutcomeTypes
  <2>3. outcome'.state = TERMINATED \/ (outcome'.pins <=> p \in PinOwners)
    <3>1. CASE Violate(p)
      BY <3>1 DEF Violate
    <3>2. CASE StepOver(p) \/ Execute(p)
      <4>1. Complete(p)
        BY <3>2 DEF StepOver, Execute
      <4>2. outcome'.pins = (p \in PinOwners)
        BY <4>1, Zenon DEF Complete
      <4> QED
        BY <4>2
    <3>3. CASE Stall(p)
      <4>1. outcome'.pins = (p \in PinOwners)
        BY <3>3, Zenon DEF Stall
      <4> QED
        BY <4>1
    <3> QED
      BY <1>3, <3>1, <3>2, <3>3
  <2> QED
    BY <1>1, <1>2, <2>1, <2>2, <2>3 DEF PinsTracked, InAttempt
<1>4. CASE Begin(p)
  <2>1. /\ running' = p /\ outcome' = None
        /\ pinnedFrames' = Mem!PinsWithout(p) /\ UNCHANGED frameTable
    BY <1>1, <1>4 DEF Begin, Mem!BeginInstruction, Mem!frameVars
  <2> QED
    BY <1>1, <1>2, <2>1, PinsDropped DEF PinsTracked, InAttempt
<1>5. CASE Ask(p) \/ Answer(p)
  <2>1. /\ running' = p /\ outcome' = None /\ PinOwners' = PinOwners
    BY <1>1, <1>5 DEF Ask, Answer, Mem!EnsureResident, Mem!Return, Mem!frameVars, PinOwners
  <2> QED
    BY <1>1, <1>2, <2>1 DEF PinsTracked, InAttempt
<1> QED
  BY <1>3, <1>4, <1>5 DEF Advance

(* After a core's turn the scheduler is right about everybody.             *)
LEMMA TurnPins ==
  ASSUME SystemInv, NEW p \in Pids, NEW o \in {outcome, Waiting}, TurnOver(p, o)
  PROVE  \A q \in Pids : q \in pinned' <=> q \in PinOwners'
<1>1. /\ running = None /\ cores[core] = p
      /\ \/ outcome # None /\ o = outcome
         \/ outcome = None /\ o = Waiting
  BY TurnOfCore
<1>2. /\ \A q \in Pids \ {p} : q \in pinned <=> q \in PinOwners
      /\ outcome = None => (p \in pinned <=> p \in PinOwners)
  BY <1>1, NoneIsNothing DEF SystemInv, PinsTracked, InAttempt
<1>3. CASE Finish(p, o) /\ Mem!DestroyProcess(p)
  BY <1>2, <1>3, DestroyMoves DEF Finish
<1>4. CASE (FallAsleep(p, o) \/ Preempt(p, o)) /\ DropPins(p)
  <2>1. /\ pinned' = pinned \ {p}
        /\ pinnedFrames' = Mem!PinsWithout(p) /\ UNCHANGED frameTable
    BY <1>4 DEF FallAsleep, Preempt, PinsReleased, DropPins, Mem!ReleasePins, Mem!frameVars
  <2> QED
    BY <1>2, <2>1, PinsDropped
<1>5. CASE StayOnCore(p, o) /\ UNCHANGED memory
  <2>1. pinned' = PinsAfter(o, p) /\ o.state = RUNNING /\ PinOwners' = PinOwners
    BY <1>5 DEF StayOnCore, memory, PinOwners
  <2>2. outcome # None => outcome # Waiting
    <3>1. Waiting \notin Outcomes
      BY DEF Waiting, Outcomes, Completed
    <3>2. outcome # None => outcome \in Outcomes
      BY DEF SystemInv, AttemptAtCore
    <3> QED
      BY <3>1, <3>2
  <2>3. outcome # None => (o.pins <=> p \in PinOwners)
    BY <1>1, <2>1, StatesDiffer DEF SystemInv, PinsTracked
  <2> QED
    BY <1>1, <1>2, <2>1, <2>2, <2>3 DEF PinsAfter
<1> QED
  BY <1>3, <1>4, <1>5 DEF TurnOver

LEMMA PinsTrackedStep ==
  ASSUME SystemInv, [SystemNext]_all
  PROVE  PinsTracked'
<1>1. CASE UNCHANGED all
  BY <1>1 DEF SystemInv, PinsTracked, InAttempt, PinOwners, all, scheduling, vars, memory
<1>2. ASSUME NEW p \in Pids, NEW size \in MemSizes, NEW prog \in Programs,
             Create(p, size, prog)
      PROVE  PinsTracked'
  <2>1. running = None /\ outcome = None
    BY <1>2, NothingElse
  <2>2. UNCHANGED <<running, outcome, pinned>> /\ PinOwners' = PinOwners
    BY <1>2 DEF Create, AddProcess, Mem!CreateProcess, Mem!callVars, Mem!frameVars, PinOwners
  <2> QED
    BY <2>1, <2>2, NoneIsNothing DEF SystemInv, PinsTracked, InAttempt
<1>3. ASSUME NEW p \in Pids, Advance(p)
      PROVE  PinsTracked'
  BY <1>3, AttemptPins
<1>4. ASSUME NEW p \in Pids, NEW o \in {outcome, Waiting}, TurnOver(p, o)
      PROVE  PinsTracked'
  BY <1>4, TurnPins, TurnOfCore DEF PinsTracked
<1>5. CASE Service
  <2>1. /\ UNCHANGED <<running, outcome, pinned, cores, core>>
        /\ running \in Pids /\ outcome = None
    BY <1>5, ScannedPage DEF Service, scheduling, vars, Mem!PageHit, Mem!PageInFree,
       Mem!PageInEvict, Mem!PageUnavailable, Mem!Pin
  <2>2. \A q \in Pids \ {running} : q \in PinOwners' <=> q \in PinOwners
    BY <1>5, ServiceMoves
  <2> QED
    BY <2>1, <2>2 DEF SystemInv, PinsTracked, InAttempt
<1>6. CASE Bookkeeping
  <2>1. running = None /\ outcome = None
    BY <1>6, NothingElse
  <2>2. UNCHANGED <<running, outcome, pinned>> /\ PinOwners' = PinOwners
    BY <1>6, BookkeepingKeeps DEF Bookkeeping, memory, PinOwners
  <2> QED
    BY <2>1, <2>2, NoneIsNothing DEF SystemInv, PinsTracked, InAttempt
<1> QED
  BY <1>1, <1>2, <1>3, <1>4, <1>5, <1>6 DEF SystemNext, SystemTick
------------------------------------------------------------------------------
(***************************************************************************)
(* The theorems.                                                           *)
(***************************************************************************)
LEMMA InitSystemInv == SystemInit => SystemInv
<1> SUFFICES ASSUME SystemInit
             PROVE  SystemInv
  OBVIOUS
<1>1. Inv
  BY InitInv DEF SystemInit
<1>2. /\ state = [p \in Pids |-> None] /\ allocated = {} /\ pinned = {}
      /\ outcome = None /\ running = None /\ scan = None /\ reply = None
      /\ pinnedFrames = {} /\ freeFrames = Frames /\ fifoFrames = <<>>
      /\ pageTable = [page \in Mem!Pages |-> None]
      /\ frameTable = [f \in Frames |-> None]
      /\ program = [p \in Pids |-> None]
      /\ line = [p \in Pids |-> 1] /\ instrPhase = [p \in Pids |-> 0]
  BY DEF SystemInit, Init, Mem!Init
<1>3. ProcessesLoaded /\ AttemptAtCore /\ RunningFits /\ MemCalls
  BY <1>2, StatesDiffer DEF ProcessesLoaded, AttemptAtCore, RunningFits, MemCalls
<1>4. AtInstruction
  BY <1>2 DEF AtInstruction
<1>5. MemTables /\ ResidentLive
  BY <1>2, NoneIsNoDatum
     DEF MemTables, OneTable, ResidentLive, Mem!Resident, IsInjective, Range
<1>6. PinsTracked
  BY <1>2 DEF PinsTracked, PinOwners
<1> QED
  BY <1>1, <1>3, <1>4, <1>5, <1>6 DEF SystemInv

LEMMA NextSystemInv == SystemInv /\ [SystemNext]_all => SystemInv'
<1> SUFFICES ASSUME SystemInv, [SystemNext]_all
             PROVE  SystemInv'
  OBVIOUS
<1>1. Inv'
  <2>1. Inv /\ [Next]_vars
    BY SchedulerStep DEF SystemInv
  <2> QED
    BY <2>1, NextInv
<1> QED
  BY <1>1, ProcessesLoadedStep, AtInstructionStep, AttemptAtCoreStep, MemTablesStep,
     MemCallsStep, PinsTrackedStep DEF SystemInv

THEOREM SystemInvariance == SystemSpec => []SystemInv
  BY InitSystemInv, NextSystemInv, PTL DEF SystemSpec

(* What is proved of the scheduler under any answers of the memory holds   *)
(* under those that the allocator gives.                                   *)
THEOREM SystemInherits ==
  SystemSpec => /\ [](Placement /\ TablesOfTheLiving /\ PinnedOnlyOnCore /\ NoCoreIdleForNothing)
                /\ SleepsItsTicks
  BY SystemSchedules, EveryProcessInOnePlace, TablesFollowLife, PinsFollowCores,
     WorkConserving, SleepIsExact, PTL

(* The system is an allocator called by the scheduler and by the process   *)
(* on a core, never by two processes at once, never for a process it does  *)
(* not know or that does not fit: whatever the composed system does, the   *)
(* allocator alone can do.                                                 *)
THEOREM SystemPages == SystemSpec => Mem!Spec
<1>1. SystemInit => Mem!Init
  BY DEF SystemInit
<1>2. SystemInv /\ [SystemNext]_all => [Mem!Next]_(Mem!vars)
  BY AllocatorStep
<1> QED
  BY <1>1, <1>2, SystemInvariance, PTL DEF SystemSpec, Mem!Spec

(* Between two attempts pinned says exactly who owns a pinned frame: no    *)
(* process that left its core or ended holds frames the scheduler does not *)
(* know of, and none on a core lost the ones it was counted with.          *)
THEOREM PinsAreKnown == SystemSpec => []PinsAgree
<1>1. SystemInv => PinsAgree
  <2> SUFFICES ASSUME SystemInv, running = None, outcome = None
               PROVE  pinned = PinOwners /\ \A p \in PinOwners : state[p] = RUNNING
    BY DEF PinsAgree
  <2>1. \A p \in Pids : p \in pinned <=> p \in PinOwners
    BY NoneIsNothing DEF SystemInv, PinsTracked, InAttempt
  <2>2. pinned \subseteq Pids
    BY DEF SystemInv, Inv, TypeOK
  <2>3. PinOwners \subseteq Pids
    BY DEF SystemInv, MemTables, OneTable, MemCalls, PinOwners, Mem!Pages
  <2>4. PinnedOnlyOnCore
    BY DEF SystemInv, Inv
  <2> QED
    BY <2>1, <2>2, <2>3, <2>4 DEF PinnedOnlyOnCore
<1> QED
  BY <1>1, SystemInvariance, PTL

(* A process with a page in a frame is one process-smi has a row for.      *)
LEMMA ResidentHasRow ==
  ASSUME SystemInv, NEW page \in Mem!Pages, Mem!Resident(page)
  PROVE  page[1] \in MemoryProcesses
<1> DEFINE p == page[1]
           held == {v \in Mem!VPNs : Mem!Resident(<<p, v>>)}
<1>1. p \in Pids /\ page[2] \in Mem!VPNs /\ page = <<p, page[2]>>
  BY DEF Mem!Pages
<1>2. page[2] \in Nat /\ page[2] < Mem!NumPages(TableSize[p])
  BY <1>1 DEF SystemInv, ResidentLive, Mem!LivePage, Mem!VPNs
<1>3. TableSize[p] # 0
  BY <1>1, <1>2, PageCounts
<1>4. p \in allocated
  BY <1>1, <1>3 DEF TableSize
<1>5. state[p] \notin Done \cup {None}
  BY <1>4, StatesDiffer DEF SystemInv, Inv, TablesOfTheLiving, Done
<1>6. IsFiniteSet(held) /\ Cardinality(held) \in Nat \ {0}
  <2>1. IsFiniteSet(Mem!VPNs)
    BY <1>1, PageCounts, FS_Interval DEF Mem!VPNs
  <2>2. IsFiniteSet(held)
    BY <2>1, FS_Subset
  <2>3. held # {}
    BY <1>1
  <2> QED
    BY <2>2, <2>3, FS_CardinalityType, FS_EmptySet
<1>7. Mem!ResidentMemory(p) > 0
  <2>1. Mem!ResidentMemory(p) = Cardinality(held) * FrameSize
    BY DEF Mem!ResidentMemory, Mem!Cardinality, Cardinality
  <2>2. FrameSize \in Nat \ {0}
    BY EmulatorConstants
  <2> QED
    BY <1>6, <2>1, <2>2
<1> QED
  BY <1>1, <1>5, <1>7 DEF MemoryProcesses

(* process-smi's rows leave no frame out and count none twice: their       *)
(* resident sizes sum to vmstat's used memory.                             *)
THEOREM RowsAddUp == SystemSpec => []RowsSumToUsed
<1>1. SystemInv => RowsSumToUsed
  <2> SUFFICES ASSUME SystemInv
               PROVE  RowsSumToUsed
    OBVIOUS
  <2> DEFINE shown == {page \in Mem!Pages : page[1] \in MemoryProcesses /\ Mem!Resident(page)}
             held  == {page \in Mem!Pages : pageTable[page] # None}
  <2>1. shown = held
    BY ResidentHasRow DEF Mem!Resident
  <2>2. Cardinality(held) = Cardinality(Frames) - Cardinality(freeFrames)
    <3>1. OneTable(Frames, Mem!Pages, None, pageTable, frameTable, freeFrames, fifoFrames)
      BY DEF SystemInv, MemTables
    <3>2. IsFiniteSet(Frames)
      BY EmulatorConstants
    <3> HIDE DEF shown
    <3> QED
      BY <3>1, <3>2, PagesInFrames
  <2>3. Mem!UsedMemory = (Cardinality(Frames) - Cardinality(freeFrames)) * FrameSize
    BY DEF Mem!UsedMemory, Mem!Cardinality, Cardinality
  <2> QED
    BY <2>1, <2>2, <2>3 DEF RowsSumToUsed
<1> QED
  BY <1>1, SystemInvariance, PTL

(* When no page can be evicted for a request, every frame is pinned; the   *)
(* process that asks has fewer pages than there are frames without the one *)
(* it asks for, so another has some of them.                               *)
LEMMA OthersHoldFrames ==
  ASSUME SystemInv, Mem!PageUnavailable
  PROVE  \E f \in Frames : /\ f \in pinnedFrames
                           /\ frameTable[f] \in Mem!Pages
                           /\ frameTable[f][1] # running
<1> DEFINE n    == Mem!NumPages(TableSize[running])
           rest == (0 .. n - 1) \ {scan.vpn}
<1>1. /\ OneTable(Frames, Mem!Pages, None, pageTable, frameTable, freeFrames, fifoFrames)
      /\ freeFrames = {} /\ ~ Mem!Resident(Mem!ScanPage)
      /\ ~ \E f \in Frames : Mem!IsVictim(f)
  BY DEF SystemInv, MemTables, Mem!PageUnavailable
<1>2. /\ Mem!InLoop /\ running \in Pids /\ Mem!ScanPage \in Mem!Pages
      /\ running # None /\ Mem!Admitted(running)
  BY ScannedPage, NoneIsNothing DEF Mem!PageUnavailable, SystemInv, MemCalls
<1>3. \A f \in Frames : f \in pinnedFrames
  <2>1. fifoFrames \in Seq(Frames) /\ Range(fifoFrames) = Frames
    BY <1>1 DEF OneTable
  <2>2. \A f \in Frames : ~ IsFirstOutside(fifoFrames, pinnedFrames, f)
    BY <1>1 DEF Mem!IsVictim, Mem!IsFirstOutside, IsFirstOutside
  <2>3. Range(fifoFrames) \ pinnedFrames = {}
    BY <2>1, <2>2, FirstOutsideExists
  <2> QED
    BY <2>1, <2>3
<1>4. \A f \in Frames : frameTable[f] \in Mem!Pages /\ pageTable[frameTable[f]] = f
  BY <1>1 DEF OneTable
<1>5. Mem!Pages = Pids \X Mem!VPNs
  BY DEF Mem!Pages
<1>6. n \in Nat /\ n <= Cardinality(Frames) /\ Cardinality(Frames) \in Nat
  <2>1. /\ Cardinality(Frames) \in Nat /\ FrameSize \in Nat \ {0}
        /\ TableSize[running] \in Nat /\ n \in Nat
    BY <1>2, PageCounts, EmulatorConstants, FS_CardinalityType
  <2>2. TableSize[running] <= Cardinality(Frames) * FrameSize
    BY <1>2 DEF Mem!Admitted, Mem!TotalBytes, Mem!Cardinality, Cardinality
  <2> QED
    BY <2>1, <2>2, PagesFit DEF Mem!NumPages
<1>7. scan.vpn \in 0 .. n - 1
  BY <1>2, <1>6 DEF Mem!InLoop, SystemInv, MemCalls
<1> HIDE DEF n
<1>8. IsFiniteSet(rest) /\ Cardinality(rest) = n - 1
  <2>1. IsFiniteSet(0 .. n - 1) /\ Cardinality(0 .. n - 1) = n
    <3>1. n \in Nat
      BY <1>6
    <3> QED
      BY <3>1, FS_Interval
  <2> QED
    BY <1>7, <2>1, FS_RemoveElement
<1> SUFFICES ASSUME \A f \in Frames : frameTable[f][1] = running
             PROVE  FALSE
  BY <1>3, <1>4
<1>9. ASSUME NEW f \in Frames
      PROVE  frameTable[f] # None /\ frameTable[f][2] \in rest
  <2> DEFINE page == frameTable[f]
  <2>1. page \in Mem!Pages /\ Mem!Resident(page) /\ page[1] = running
    BY <1>4, NoneIsNoDatum DEF Mem!Resident
  <2>2. page[2] \in 0 .. n - 1
    BY <1>6, <2>1 DEF SystemInv, ResidentLive, Mem!LivePage, Mem!Pages, Mem!VPNs, n
  <2>3. page # Mem!ScanPage /\ page = <<page[1], page[2]>>
    BY <1>1, <2>1 DEF Mem!Pages
  <2>4. page[2] # scan.vpn
    BY <2>1, <2>3 DEF Mem!ScanPage
  <2> QED
    BY <2>1, <2>2, <2>4, NoneIsNoDatum
<1> HIDE DEF rest
<1>10. Cardinality(Frames) <= Cardinality(rest)
  <2>1. OneTable(Frames, Pids \X Mem!VPNs, None, pageTable, frameTable, freeFrames, fifoFrames)
    BY <1>1, <1>5
  <2>2. AllHeldBy(Frames, frameTable, running, None, rest)
    BY <1>9 DEF AllHeldBy
  <2> QED
    BY <1>8, <2>1, <2>2, FramesOfOne
<1> QED
  BY <1>6, <1>8, <1>10

(* A failed request is another core's doing: the owner of a pin that is    *)
(* not the process asking is, by PinsTracked, one the scheduler counts,    *)
(* and so one that runs, elsewhere.                                        *)
LEMMA BlockedStep ==
  ASSUME SystemInv, SystemNext,
         reply' = Mem!UNAVAILABLE, reply # Mem!UNAVAILABLE
  PROVE  /\ core \in CoreIds
         /\ \E p \in PinOwners : /\ state[p] = RUNNING
                                 /\ attachedCore[p] \in CoreIds \ {core}
<1>1. Mem!PageUnavailable
  <2>1. [Mem!Next]_(Mem!vars)
    BY AllocatorStep
  <2>2. Mem!Next
    BY <2>1 DEF Mem!vars, Mem!callVars
  <2>3. Mem!UNAVAILABLE \notin {None, Mem!RESIDENT, Mem!FAULTED}
    BY NoneIsNoDatum DEF Mem!UNAVAILABLE, Mem!RESIDENT, Mem!FAULTED
  <2> QED
    BY <2>2, <2>3 DEF Mem!Next, Mem!CreateProcess, Mem!DestroyProcess, Mem!ReleasePins,
       Mem!BeginInstruction, Mem!EnsureResident, Mem!PageHit, Mem!PageInFree,
       Mem!PageInEvict, Mem!Pin, Mem!Return, Mem!ReadWord, Mem!WriteWord, Mem!EndAttempt,
       Mem!callVars
<1>2. PICK f \in Frames : /\ f \in pinnedFrames /\ frameTable[f] \in Mem!Pages
                          /\ frameTable[f][1] # running
  BY <1>1, OthersHoldFrames
<1> DEFINE p == frameTable[f][1]
<1>3. p \in Pids /\ p \in PinOwners
  BY <1>2, NoneIsNoDatum DEF PinOwners, Mem!Pages
<1>4. running = cores[core] /\ running \in Pids /\ outcome = None
  BY <1>1, ScannedPage DEF Mem!PageUnavailable
<1>5. core \in CoreIds
  BY <1>4, AttemptIsRunning, NoneIsNothing
<1>6. p \in pinned
  BY <1>2, <1>3, <1>4 DEF SystemInv, PinsTracked, InAttempt
<1>7. state[p] = RUNNING /\ attachedCore[p] \in CoreIds
  BY <1>3, <1>6 DEF SystemInv, Inv, PinnedOnlyOnCore, Placement, TypeOK
<1>8. attachedCore[p] # core
  BY <1>2, <1>3, <1>4, <1>5, <1>7 DEF SystemInv, Inv, Placement
<1> QED
  BY <1>3, <1>5, <1>7, <1>8

(* What keeps a core from its frames is another core at work.              *)
THEOREM BlockedElsewhere == SystemSpec => BlockedByAnotherCore
<1> DEFINE Elsewhere ==
      reply' = Mem!UNAVAILABLE /\ reply # Mem!UNAVAILABLE
        => \E p \in PinOwners : state[p] = RUNNING /\ attachedCore[p] # core
<1>1. SystemInv /\ [SystemNext]_all => [Elsewhere]_all
  BY BlockedStep DEF Elsewhere
<1> QED
  BY <1>1, SystemInvariance, PTL DEF SystemSpec, BlockedByAnotherCore, Elsewhere

(* With one core no request ever fails: a process that was admitted always *)
(* gets the pages its instruction needs.                                   *)
THEOREM OneCoreNeverBlocks ==
  ASSUME NumCpu = 1
  PROVE  SystemSpec => [](reply # Mem!UNAVAILABLE)
<1> DEFINE Served == reply # Mem!UNAVAILABLE
<1>1. SystemInit => Served
  BY NoneIsNoDatum DEF SystemInit, Mem!Init
<1>2. SystemInv /\ Served /\ [SystemNext]_all => Served'
  <2> SUFFICES ASSUME SystemInv, Served, [SystemNext]_all, ~ Served'
               PROVE  FALSE
    OBVIOUS
  <2>1. SystemNext /\ reply' = Mem!UNAVAILABLE
    BY DEF all, memory, Mem!UNAVAILABLE
  <2>2. core \in CoreIds /\ \E i \in CoreIds : i # core
    BY <2>1, BlockedStep
  <2> QED
    BY <2>2 DEF CoreIds
<1> HIDE DEF Served
<1>3. SystemSpec => []Served
  BY <1>1, <1>2, SystemInvariance, PTL DEF SystemSpec
<1> QED
  BY <1>3 DEF Served
===============================================================================

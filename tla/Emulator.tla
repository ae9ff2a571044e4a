------------------------------- MODULE Emulator -------------------------------
(***************************************************************************)
(* The scheduler, the processes and the allocator together: Scheduler with *)
(* the outcome of an attempt computed, not chosen.  Process::advance() asks *)
(* PagingAllocator for the regions of the current instruction and reports  *)
(* what the answers come to; the scheduler releases pins and destroys page *)
(* tables through the allocator's own actions.  An action of this module   *)
(* is the conjunction of actions of the two.                               *)
(*                                                                         *)
(* A program is its instructions with FOR blocks unrolled; an instruction  *)
(* is what it asks the memory for.  Values, names and bytes are elsewhere  *)
(* (Process, PagingAllocator): ByteBase is 1 here, every byte is 0.        *)
(***************************************************************************)
EXTENDS Scheduler

CONSTANTS
  Frames, FrameSize, MaxMemSize, SymbolTableBytes,   \* see PagingAllocator
  Programs,          \* what instruction lists processes are created with
  Endless            \* those that start over: FOR blocks of 65535 rounds in
                     \* one another outlast every other process

(* What an instruction asks for, in order: its symbol table segment or the *)
(* word at an address.  READ a: <<a, Segment>>; WRITE a of a variable:     *)
(* <<Segment, a>>, of a literal: <<a>>; an instruction with variables:     *)
(* <<Segment>>; PRINT of a text: <<>>.  FOR and SLEEP start no attempt.    *)
Segment == MaxMemSize
Opcodes == {"FOR", "SLEEP", "OTHER"}

Instructions == [opcode : Opcodes, asks : Seq(0 .. Segment), sleep : 0 .. MaxSleep]

ASSUME EmulatorConstants ==
  /\ IsFiniteSet(Frames) /\ Frames # {}
  /\ {FrameSize, MaxMemSize, SymbolTableBytes} \subseteq Nat \ {0}
  /\ MemSizes \subseteq 1 .. MaxMemSize
  /\ TotalMemory = Cardinality(Frames) * FrameSize
  /\ Pids \subseteq Nat
  /\ Endless \subseteq Programs
  /\ \A prog \in Programs :
       /\ prog \in Seq(Instructions)
       /\ prog # <<>> /\ prog[Len(prog)].opcode # "FOR"

VARIABLES
  program,      \* process -> its instructions, None while not created
  line,         \* process -> the instruction it is at
  instrPhase,   \* process -> how many of the regions it asked for it has
  outcome,      \* what advance() returned to the core's turn, or None
  pageTable, frameTable, freeFrames, fifoFrames, pinnedFrames, physicalMemory,
  pages, running, scan, reply, lastRead, promised    \* see PagingAllocator

processes  == <<program, line, instrPhase>>
memory     == <<pageTable, frameTable, freeFrames, fifoFrames, pinnedFrames,
                physicalMemory, pages, running, scan, reply, lastRead, promised>>
scheduling == vars
all        == <<scheduling, processes, outcome, memory>>

(* The allocator's map of processes has those it was told of and not yet   *)
(* told to forget.                                                         *)
TableSize == [p \in Pids |-> IF p \in allocated THEN memorySize[p] ELSE 0]

Mem == INSTANCE PagingAllocator WITH memorySize <- TableSize, ByteBase <- 1

ASSUME NoneIsNoDatum ==
  /\ None \notin Outcomes
  /\ None \notin Frames \cup Mem!Pages \cup Mem!Contents \cup Mem!Words
  /\ None \notin {Mem!RESIDENT, Mem!FAULTED, Mem!UNAVAILABLE}
  /\ None \notin [vpn : Nat, last : Nat, faulted : BOOLEAN]

Current(p) == program[p][line[p]]
Asked(p)   == Current(p).asks[instrPhase[p] + 1]
Region(p)  == IF Asked(p) = Segment THEN Mem!SymbolRegion(memorySize[p])
                                    ELSE [addr |-> Asked(p), len |-> 2]

(* READ and WRITE outside the address space.                               *)
Violates(p) ==
  \E a \in Range(Current(p).asks) \ {Segment} : a + 2 > memorySize[p]

(* The owners of the pinned frames.                                        *)
PinOwners == {frameTable[f][1] : f \in {g \in pinnedFrames : frameTable[g] # None}}

------------------------------------------------------------------------------
(***************************************************************************)
(* Faulty forms of the definitions that follow, one plausible slip each;   *)
(* no specification uses them, the properties are tested against them.     *)
(***************************************************************************)
LeavesPinned(p) == UNCHANGED memory
OnlyRunning == {p \in Pids : state[p] = RUNNING}
------------------------------------------------------------------------------

(* The phase after the answer r.  A fault on the way to the last region    *)
(* costs the tick but not the region: its word was fetched.                *)
PhaseAfter(p, r) ==
  IF \/ r = Mem!RESIDENT
     \/ r = Mem!FAULTED /\ instrPhase[p] + 1 < Len(Current(p).asks)
  THEN instrPhase[p] + 1 ELSE instrPhase[p]

(* releasePins(), when p leaves its core alive.                            *)
DropPins(p) == Mem!ReleasePins(p)

(* getMemoryProcesses(): the rows of process-smi.                          *)
MemoryProcesses ==
  {p \in Pids : /\ state[p] \notin Done \cup {None}
                /\ state[p] = RUNNING \/ Mem!ResidentMemory(p) > 0}

SystemInit ==
  /\ Init
  /\ program = [p \in Pids |-> None]
  /\ line = [p \in Pids |-> 1]
  /\ instrPhase = [p \in Pids |-> 0]
  /\ outcome = None
  /\ Mem!Init

(* addProcess(), generateBatchProcess(): the page table, then the queue.   *)
(* Ids are handed out in order (nextId).                                   *)
Create(p, size, prog) ==
  /\ \A q \in Pids : q < p => state[q] # None
  /\ AddProcess(p, size)
  /\ Mem!CreateProcess(p, size)
  /\ program' = [program EXCEPT ![p] = prog]
  /\ UNCHANGED <<line, instrPhase, outcome>>

------------------------------------------------------------------------------
(***************************************************************************)
(* Process::advance(), called at a core whose delay has passed.            *)
(***************************************************************************)
Due(p) ==
  /\ phase = "cores" /\ core < NumCpu
  /\ cores[core] = p /\ state[p] \notin Done
  /\ coreTickCounters[core] + 1 >= ToInt(DelayPerExec)
  /\ outcome = None

AtEnd(p) == line[p] = Len(program[p])

(* advance() returns: an instruction was completed, perhaps the last one.  *)
Complete(p) ==
  /\ outcome' = [result |-> "COMPLETED",
                 state  |-> IF AtEnd(p) /\ program[p] \notin Endless
                            THEN FINISHED ELSE RUNNING,
                 sleep  |-> Current(p).sleep,
                 pins   |-> p \in PinOwners]
  /\ line' = [line EXCEPT ![p] = IF AtEnd(p) /\ program[p] \in Endless
                                 THEN 1 ELSE @ + 1]
  /\ instrPhase' = [instrPhase EXCEPT ![p] = 0]
  /\ UNCHANGED program

(* FOR and SLEEP: the allocator is not told, old pins stay.                *)
StepOver(p) ==
  /\ Due(p) /\ running = None
  /\ Current(p).opcode # "OTHER"
  /\ Complete(p)
  /\ UNCHANGED <<scheduling, memory>>

Begin(p) ==
  /\ Due(p)
  /\ Current(p).opcode = "OTHER"
  /\ UNCHANGED <<scheduling, processes, outcome>>
  /\ Mem!BeginInstruction(p)

Violate(p) ==
  /\ running = p /\ Violates(p)
  /\ UNCHANGED <<scheduling, processes>>
  /\ Mem!EndAttempt
  /\ outcome' = [result |-> "VIOLATION", state |-> TERMINATED, sleep |-> 0,
                 pins |-> FALSE]

Ask(p) ==
  /\ running = p /\ ~ Violates(p)
  /\ instrPhase[p] < Len(Current(p).asks)
  /\ UNCHANGED <<scheduling, processes, outcome>>
  /\ Mem!EnsureResident(Region(p))

(* The allocator at work on one page of the region.                        *)
Service ==
  /\ UNCHANGED <<scheduling, processes, outcome>>
  /\ Mem!PageHit \/ Mem!PageInFree \/ Mem!PageInEvict \/ Mem!PageUnavailable

Answer(p) ==
  /\ running = p
  /\ UNCHANGED <<scheduling, program, line, outcome>>
  /\ Mem!Return
  /\ instrPhase' = [instrPhase EXCEPT ![p] = PhaseAfter(p, reply')]

(* Every region was had in some attempt, the last one in this attempt and  *)
(* without a fault.                                                        *)
Execute(p) ==
  /\ running = p /\ ~ Violates(p)
  /\ instrPhase[p] = Len(Current(p).asks)
  /\ UNCHANGED scheduling
  /\ Mem!EndAttempt
  /\ Complete(p)

Stall(p) ==
  /\ running = p
  /\ reply \in {Mem!FAULTED, Mem!UNAVAILABLE}
  /\ UNCHANGED <<scheduling, processes>>
  /\ Mem!EndAttempt
  /\ outcome' = [result |-> "PAGE_FAULT", state |-> RUNNING, sleep |-> 0,
                 pins |-> p \in PinOwners]

Advance(p) ==
  StepOver(p) \/ Begin(p) \/ Violate(p) \/ Ask(p) \/ Answer(p) \/ Execute(p)
  \/ Stall(p)

------------------------------------------------------------------------------
(* What onTick() does with p once advance() returned, or was not called.   *)
TurnOver(p, o) ==
  /\ running = None
  /\ \/ Finish(p, o) /\ Mem!DestroyProcess(p)
     \/ (FallAsleep(p, o) \/ Preempt(p, o)) /\ DropPins(p)
     \/ StayOnCore(p, o) /\ UNCHANGED memory
  /\ outcome' = None
  /\ UNCHANGED processes

(* The steps of a tick in which the allocator has no part.                 *)
Bookkeeping ==
  /\ \/ WakeSleepers \/ EmptyCore \/ StartDispatch \/ NoDispatch \/ EndTick
     \/ \E p \in Pids : Dispatch(p)
  /\ UNCHANGED <<processes, outcome, memory>>

SystemTick ==
  \/ \E p \in Pids : Advance(p) \/ \E o \in {outcome, Waiting} : TurnOver(p, o)
  \/ Service
  \/ Bookkeeping

SystemNext ==
  \/ \E p \in Pids, size \in MemSizes, prog \in Programs : Create(p, size, prog)
  \/ SystemTick

SystemSpec == SystemInit /\ [][SystemNext]_all

(* Ticks go on: nothing else is assumed, of the allocator in particular.   *)
SystemFairSpec == SystemSpec /\ WF_all(SystemTick)

------------------------------------------------------------------------------
(* Between attempts the scheduler and the allocator agree on who holds     *)
(* frames, and every owner of a pinned frame is on a core: nothing that    *)
(* sleeps, waits or is dead can block the page faults of those that run.   *)
PinsAgree ==
  running = None /\ outcome = None =>
    /\ pinned = PinOwners
    /\ \A p \in PinOwners : state[p] = RUNNING

(* process-smi: the resident sizes of its rows sum to the used memory, at  *)
(* whatever point between two ticks it is asked for.                       *)
RowsSumToUsed ==
  phase = "between" =>
    Cardinality({page \in Mem!Pages :
                   page[1] \in MemoryProcesses /\ Mem!Resident(page)}) * FrameSize
      = Mem!UsedMemory

(* A page request fails only because of a process that is on another core  *)
(* this very tick, in the middle of its own instruction: frames are never  *)
(* kept from a core by the process on it, by one that waits or sleeps or   *)
(* by one that is dead.                                                    *)
BlockedByAnotherCore ==
  [][reply' = Mem!UNAVAILABLE /\ reply # Mem!UNAVAILABLE
       => \E p \in PinOwners : state[p] = RUNNING /\ attachedCore[p] # core]_all

(* Every process that fits in memory finishes or is killed, though the     *)
(* frames are fewer than what the processes on the cores need together:    *)
(* they never evict or block each other for ever.                          *)
EveryAdmittedFinishes ==
  (\A p \in Pids : [](program[p] \notin Endless))
    => \A p \in Pids : state[p] # None /\ Admitted(p) ~> state[p] \in Done

(* Round robin starves nobody, whatever the others run and however they    *)
(* stall: an admitted process that waits for a core gets one.              *)
AdmittedGetsCore ==
  \A p \in Pids :
    policy = "rr" /\ state[p] = READY /\ Admitted(p) ~> state[p] = RUNNING
==============================================================================

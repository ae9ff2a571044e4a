------------------------------- MODULE Console -------------------------------
(***************************************************************************)
(* ConsoleManager: the thread that reads commands and the tick thread it   *)
(* starts, which share the scheduler, its mutex and three variables read   *)
(* without it: the scheduler pointer, batchRunning and cpuCycles.          *)
(*                                                                         *)
(* What a thread does under schedulerMutex is one step where the other     *)
(* thread cannot see a part of it; backgroundTickLoop() is several,        *)
(* because scheduler-stop does not take the mutex.  The scheduler is the   *)
(* list of its processes, with what screen -r asks of them, whether an     *)
(* access violation killed them; a tick may kill any of them, one for each *)
(* core.  Reports change nothing and are left out, and so is the parsing   *)
(* of commands: an instruction list is legal or the command does nothing.  *)
(***************************************************************************)
EXTENDS Integers, Sequences, Functions

CONSTANTS
  BatchProcessFreq,  \* batch-process-freq
  DelayPerExec,      \* delay-per-exec
  WordBits,          \* width of uint64, 64 in the program
  UserNames,         \* the names typed at the prompt
  BatchNames,        \* sequence: the names p01, p02, ... of generated processes
  MaxTicks,          \* bound: how far cpuCycles counts
  None               \* nobody, no process

ASSUME ConsoleConstants ==
  /\ BatchProcessFreq \in Nat \ {0} /\ DelayPerExec \in Nat
  /\ WordBits \in Nat \ {0}
  /\ BatchNames \in Seq(STRING) /\ UserNames \subseteq STRING
  /\ IsInjective(BatchNames)
  /\ MaxTicks \in Nat /\ MaxTicks < Len(BatchNames)
  /\ 2^WordBits \in Nat \ {0}
  /\ None # "tick"

VARIABLES
  \* the command thread
  mainPc,           \* at the "prompt", at the lock of "start", "join", "done"
  initialized,
  attached,         \* the name of the attached screen's process, or None
  \* the tick thread
  tickPc,           \* at the "loop", "asleep", "lock", "count", "check",
                    \* "generate", "tick", "done"
  currentTick,
  \* shared by the two
  running, batchRunning, scheduler, cpuCycles,
  mutex,            \* who holds schedulerMutex between two steps
  lastBatchGenerationTick,
  allProcs,         \* in the order they were created
  batchCounter,
  \* histories
  ticked,           \* the tick onTick() was called with last
  born,             \* the tick the last batch process was generated in
  late,             \* how many of them since the last scheduler-stop
  meant             \* the process the user attached to

main   == <<mainPc, initialized, attached, meant>>
ticker == <<tickPc, currentTick>>
procs  == <<allProcs, batchCounter, born, late>>
shared == <<running, batchRunning, scheduler, cpuCycles, mutex,
            lastBatchGenerationTick, procs, ticked>>
vars == <<main, ticker, shared>>

------------------------------------------------------------------------------
(***************************************************************************)
(* Faulty forms of the definitions that follow, one plausible slip each;   *)
(* no specification uses them, the properties are tested against them.     *)
(***************************************************************************)
SameTick == cpuCycles                       \* the counter is read, not moved
KeepsClock(t) == lastBatchGenerationTick    \* the batch clock is not restarted
RewindsClock(t) ==                          \* ... or set so that one is due
  t - BatchProcessFreq * (IF DelayPerExec > 0 THEN DelayPerExec ELSE 1)
DueTooLate(t) ==                            \* > for >=
  batchRunning /\ t - lastBatchGenerationTick
                    > BatchProcessFreq * (IF DelayPerExec > 0 THEN DelayPerExec ELSE 1)
IgnoresStop(t) ==                           \* due, whatever the user said
  t - lastBatchGenerationTick >= BatchProcessFreq
LastNamed(n) ==                           \* searches from the back
  CHOOSE i \in DOMAIN allProcs :
    /\ allProcs[i].name = n
    /\ \A j \in DOMAIN allProcs : allProcs[j].name = n => j <= i
NeverStops == TRUE                          \* the tick loop does not look
------------------------------------------------------------------------------

NextTick == cpuCycles + 1

(* batch-process-freq counts instruction opportunities, which are          *)
(* delay-per-exec ticks apart.                                             *)
ExecutionPeriod == IF DelayPerExec > 0 THEN DelayPerExec ELSE 1
BatchPeriod == BatchProcessFreq * ExecutionPeriod

(* Both factors are 32-bit and the clocks 64-bit.                          *)
ASSUME PeriodFits == BatchPeriod + 1 < 2^WordBits

(* A batch process is due at tick t: unsigned arithmetic.                  *)
IsDue(t) ==
  batchRunning /\ (t - lastBatchGenerationTick) % 2^WordBits >= BatchPeriod

(* The batch clock after a process was generated at tick t.                *)
BatchClock(t) == t

(* The first process of that name: find_if over getAllProcesses().         *)
FirstNamed(n) ==
  CHOOSE i \in DOMAIN allProcs :
    /\ allProcs[i].name = n
    /\ \A j \in DOMAIN allProcs : allProcs[j].name = n => i <= j

Killed(i) == allProcs[i].killed

NewProcess(n) == [name |-> n, killed |-> FALSE]

(* generateBatchProcess() at tick t, when the other processes are ps.      *)
GenerateBatchProcess(t, ps) ==
  /\ batchCounter' = batchCounter + 1
  /\ allProcs' = Append(ps, NewProcess(BatchNames[batchCounter + 1]))
  /\ lastBatchGenerationTick' = BatchClock(t)
  /\ born' = t

(* The processes after a call of onTick(): any of them were killed.        *)
AfterTick ==
  {[i \in DOMAIN allProcs |-> [allProcs[i] EXCEPT !.killed = @ \/ i \in K]] :
     K \in SUBSET DOMAIN allProcs}

(* ScreenManager: which process's screen is shown, by the process's name.  *)
AttachToProcess(n, i) == attached' = n /\ meant' = i
Detach == attached' = None /\ meant' = None

------------------------------------------------------------------------------
Init ==
  /\ mainPc = "prompt" /\ initialized = FALSE /\ attached = None /\ meant = None
  /\ tickPc = "loop" /\ currentTick = 0
  /\ running = TRUE /\ batchRunning = FALSE /\ scheduler = FALSE
  /\ cpuCycles = 0 /\ mutex = None /\ lastBatchGenerationTick = 0
  /\ allProcs = <<>> /\ batchCounter = 0 /\ born = 0 /\ late = 0
  /\ ticked = 0

(***************************************************************************)
(* The command thread.                                                     *)
(***************************************************************************)
(* A command of the main menu that needs the scheduler.                    *)
Command == mainPc = "prompt" /\ attached = None /\ initialized

(* The pointer is written without the mutex, once.                         *)
Initialize ==
  /\ mainPc = "prompt" /\ ~ initialized
  /\ initialized' = TRUE /\ scheduler' = TRUE
  /\ UNCHANGED <<mainPc, attached, meant, ticker, running, batchRunning,
                 cpuCycles, mutex, lastBatchGenerationTick, procs, ticked>>

SchedulerStart ==
  /\ Command /\ ~ batchRunning
  /\ cpuCycles < MaxTicks
  /\ mainPc' = "start"
  /\ UNCHANGED <<initialized, attached, meant, ticker, shared>>

(* Under the mutex: the first process of the batch, and a tick of its own, *)
(* in which it may be dispatched but does not run yet.                     *)
StartBatch ==
  /\ mainPc = "start" /\ mutex = None
  /\ cpuCycles' = NextTick
  /\ \E ps \in AfterTick : GenerateBatchProcess(cpuCycles', ps)
  /\ late' = 0
  /\ ticked' = cpuCycles'
  /\ batchRunning' = TRUE
  /\ mainPc' = "prompt"
  /\ UNCHANGED <<initialized, attached, meant, ticker, running, scheduler, mutex>>

(* The mutex is not taken: the tick thread may be anywhere in its loop.    *)
SchedulerStop ==
  /\ Command /\ batchRunning
  /\ batchRunning' = FALSE
  /\ late' = 0
  /\ UNCHANGED <<main, ticker, running, scheduler, cpuCycles, mutex,
                 lastBatchGenerationTick, allProcs, batchCounter, born, ticked>>

(* screen -s and screen -c: a name in use is refused.  Only screen -s      *)
(* moves to the process screen.                                            *)
CreateScreen(n, attach) ==
  /\ Command /\ mutex = None
  /\ \A i \in DOMAIN allProcs : allProcs[i].name # n
  /\ allProcs' = Append(allProcs, NewProcess(n))
  /\ IF attach THEN AttachToProcess(n, Len(allProcs) + 1)
               ELSE UNCHANGED <<attached, meant>>
  /\ UNCHANGED <<mainPc, initialized, ticker, running, batchRunning, scheduler,
                 cpuCycles, mutex, lastBatchGenerationTick, batchCounter, born,
                 late, ticked>>

(* screen -r: how a killed process died is reported; any other is attached *)
(* to, a finished one too.                                                 *)
Reattach(n) ==
  /\ Command /\ mutex = None
  /\ \E i \in DOMAIN allProcs : allProcs[i].name = n
  /\ ~ \E i \in DOMAIN allProcs : allProcs[i].name = n /\ Killed(i)
  /\ AttachToProcess(n, FirstNamed(n))
  /\ UNCHANGED <<mainPc, initialized, ticker, shared>>

LeaveScreen ==
  /\ mainPc = "prompt" /\ attached # None
  /\ Detach
  /\ UNCHANGED <<mainPc, initialized, ticker, shared>>

(* exit at the main menu, or the end of the input on any screen.           *)
Exit ==
  /\ mainPc = "prompt"
  /\ running' = FALSE
  /\ mainPc' = "join"
  /\ UNCHANGED <<initialized, attached, meant, ticker, batchRunning, scheduler,
                 cpuCycles, mutex, lastBatchGenerationTick, procs, ticked>>

Join ==
  /\ mainPc = "join" /\ tickPc = "done"
  /\ mainPc' = "done"
  /\ UNCHANGED <<initialized, attached, meant, ticker, shared>>

(***************************************************************************)
(* The tick thread: backgroundTickLoop().                                  *)
(***************************************************************************)
GoOn == running

Loop ==
  /\ tickPc = "loop"
  /\ GoOn => cpuCycles < MaxTicks
  /\ tickPc' = IF GoOn THEN "asleep" ELSE "done"
  /\ UNCHANGED <<main, currentTick, shared>>

(* Fifty milliseconds later the pointer is read, without the mutex.        *)
WakeUp ==
  /\ tickPc = "asleep"
  /\ tickPc' = IF scheduler THEN "lock" ELSE "count"
  /\ UNCHANGED <<main, currentTick, shared>>

CountOnly ==
  /\ tickPc = "count"
  /\ cpuCycles' = NextTick
  /\ tickPc' = "loop"
  /\ UNCHANGED <<main, currentTick, running, batchRunning, scheduler, mutex,
                 lastBatchGenerationTick, procs, ticked>>

LockAndCount ==
  /\ tickPc = "lock" /\ mutex = None
  /\ mutex' = "tick"
  /\ cpuCycles' = NextTick /\ currentTick' = cpuCycles'
  /\ tickPc' = "check"
  /\ UNCHANGED <<main, running, batchRunning, scheduler,
                 lastBatchGenerationTick, procs, ticked>>

CheckBatch ==
  /\ tickPc = "check"
  /\ tickPc' = IF IsDue(currentTick) THEN "generate" ELSE "tick"
  /\ UNCHANGED <<main, currentTick, shared>>

TickGenerates ==
  /\ tickPc = "generate"
  /\ GenerateBatchProcess(currentTick, allProcs)
  /\ late' = IF batchRunning THEN late ELSE late + 1
  /\ tickPc' = "tick"
  /\ UNCHANGED <<main, currentTick, running, batchRunning, scheduler, cpuCycles,
                 mutex, ticked>>

OnTick ==
  /\ tickPc = "tick"
  /\ allProcs' \in AfterTick
  /\ ticked' = currentTick
  /\ mutex' = None
  /\ tickPc' = "loop"
  /\ UNCHANGED <<main, currentTick, running, batchRunning, scheduler, cpuCycles,
                 lastBatchGenerationTick, batchCounter, born, late>>

Main == \/ Initialize \/ SchedulerStart \/ StartBatch \/ SchedulerStop
        \/ \E n \in UserNames : \/ \E attach \in BOOLEAN : CreateScreen(n, attach)
                                \/ Reattach(n)
        \/ LeaveScreen \/ Exit \/ Join

Ticker == \/ Loop \/ WakeUp \/ CountOnly \/ LockAndCount \/ CheckBatch
          \/ TickGenerates \/ OnTick

Next == Main \/ Ticker

Spec == Init /\ [][Next]_vars

(* The tick thread is scheduled by the host's operating system, and so is  *)
(* the command thread while it has something to do; nobody has to type.    *)
FairSpec == Spec /\ WF_vars(Ticker) /\ WF_vars(Join)

------------------------------------------------------------------------------
TypeOK ==
  /\ mainPc \in {"prompt", "start", "join", "done"}
  /\ initialized \in BOOLEAN
  /\ attached \in UserNames \cup {None}
  /\ tickPc \in {"loop", "asleep", "lock", "count", "check", "generate",
                 "tick", "done"}
  /\ currentTick \in Nat /\ cpuCycles \in Nat /\ lastBatchGenerationTick \in Nat
  /\ running \in BOOLEAN /\ batchRunning \in BOOLEAN /\ scheduler \in BOOLEAN
  /\ mutex \in {None, "tick"}
  /\ allProcs \in Seq([name : Range(BatchNames) \cup UserNames, killed : BOOLEAN])
  /\ batchCounter \in 0 .. Len(allProcs)
  /\ ticked \in Nat /\ born \in Nat
  /\ late \in Nat /\ meant \in DOMAIN allProcs \cup {None}

(* onTick() is called with strictly growing ticks, whichever thread calls  *)
(* it, also when initialize overtakes a loop round that saw no scheduler:  *)
(* no snapshot period or log flush is repeated.                            *)
TicksInOrder == [][OnTick \/ StartBatch => ticked' > ticked]_vars

(* A batch period, in ticks; of a period of one tick, the first after a    *)
(* scheduler-start may take two, when initialize and the start both        *)
(* overtook a round of the tick thread that saw no scheduler: that round   *)
(* counts a tick and looks at no batch.                                    *)
OnePeriod(d) == d = BatchPeriod \/ (BatchPeriod = 1 /\ d = 2)

(* The tick thread generates a process exactly a batch period after the    *)
(* process before, whoever generated that one, and no tick of it leaves    *)
(* the batch overdue; the unsigned difference never wraps.  A              *)
(* scheduler-start generates one at once whatever the clock says, and      *)
(* starts the clock again: that step alone is under no distance.           *)
BatchSpacing ==
  [][/\ TickGenerates => OnePeriod(currentTick - born)
     /\ OnTick /\ batchRunning => currentTick - born < BatchPeriod]_vars

(* README.md:62: batch-process-freq is the "Ticks between generated        *)
(* processes" (the code multiplies it by delay-per-exec).                  *)
FreqIsInTicks ==
  [][TickGenerates => currentTick - born = BatchProcessFreq]_vars

(* A scheduler-stop that meets the tick thread between its look at         *)
(* batchRunning and the generation lets that one process through, and no   *)
(* other before the next scheduler-start.                                  *)
AtMostOneAfterStop == late <= 1

(* The screen shows the process the user attached to, whatever the batch   *)
(* creates and kills meanwhile: it is looked up by name every time.        *)
ScreenKeepsItsProcess == attached # None => FirstNamed(attached) = meant

(* README.md: screen -r re-attaches to a process, by its name.             *)
Reached(n) ==
  IF \E i \in DOMAIN allProcs : allProcs[i].name = n /\ Killed(i)
  THEN CHOOSE i \in DOMAIN allProcs : allProcs[i].name = n /\ Killed(i)
  ELSE FirstNamed(n)
EveryProcessReached == \A i \in DOMAIN allProcs : Reached(allProcs[i].name) = i

(* exit ends the program: the tick thread is joined, whatever it is doing. *)
ExitEnds == ~ running ~> mainPc = "done"
==============================================================================

# Verification of the CSOPESY emulator

TLA+ models of the operating-system emulator in `src/`, checked with TLC on
small instances and, for the memory, the scheduler, their composition, the
interpreter, the threads of the console and the log files, proved with TLAPS for
every value of the constants.

The emulator runs simulated processes on simulated cores. A process is a list of
instructions over a private address space; the address space is paged on demand
into a few frames; a scheduler moves processes between queues and cores, one tick
every 50 ms; a console thread takes commands while a second thread ticks.

## The system

| Component | State it keeps | Operations | Talks to |
|---|---|---|---|
| Paging allocator (`PagingAllocator.*`) | page table per process, frame table, free list, FIFO queue, pinned frames, the bytes of the frames | create, destroy, releasePins, beginInstruction, ensureResident, readWord, writeWord | called by scheduler and processes; calls the backing store |
| Backing store (`BackingStore.*`) | the bytes of pages not resident, the events not yet in the log file | addProcess, removeProcess, store, load, remove, logEvent, appendEvents | called by the allocator; appends to the log at the end of a tick |
| Process (`Process.*`) | line, FOR contexts, phase of a READ or WRITE, symbol table, state, trace lines not yet in its file | advance (one instruction attempt); parseInstructions, generateInstructions | called by the scheduler; calls the memory (`IProcessMemory`) |
| Scheduler (`Scheduler.*`) | ready, sleeping and finished queue, cores, counters | onTick, addProcess, generateBatchProcess, flushProcessLogs | called by both threads under `schedulerMutex`; calls processes and allocator |
| Console (`ConsoleManager.*`, `ScreenManager.*`) | batchRunning, running, cpuCycles, batch clock, attached screen | the commands; the tick loop | two threads, one mutex |
| Configuration (`ConfigManager.*`) | none | parse, validate | read once by `initialize` |

What is hard in it, and what the properties are for:

* **Memory.** Two cores fault in the same tick and compete for frames. A frame
  lives in four structures that different functions update; an eviction in the
  middle of an instruction must not take a page the instruction already has;
  a process that cannot get a page must not keep the ones it got.
* **Instructions.** READ and WRITE are split in two phases so that one frame is
  enough, and a page fault between them must neither repeat nor lose anything.
  FOR blocks nest and are left several at once.
* **Scheduling.** Six ways off a core, in repeated code; a quantum that counts
  instructions and not ticks; sleepers counted in another phase of the tick than
  the one they fell asleep in; processes that never fit.
* **All together.** A core whose instruction needs two frames finds them pinned by
  another core whose instruction does; each has to get its turn.
* **Files.** The event log and the traces are buffered, by two rhythms; a file that
  cannot be opened costs one of them its events and the other nothing, and a write that
  fails goes unnoticed in both.
* **Inputs.** A configuration that can be edited and read again, numbers of any
  length, sizes rolled by their exponent, lists with blocks, quotes and escapes.
* **Threads.** `scheduler-stop` does not take the mutex, the scheduler pointer is
  read without it, and `exit` joins a thread that may be anywhere.

Correctness, per component: the tables of the allocator agree and paging is
invisible; a process executes its unrolled program, each instruction once; a
process is in one place, is served in order and keeps its core for its quantum;
every process that fits gets a core and ends; ticks are ordered, the tick thread
makes a batch process a period after the last one, and `exit` ends; the files lack what
a failure cost them and nothing else; what is typed or rolled is legal, and means what its notation says.
`PROJECT.json` lists each hazard at its line with the properties that cover it.

## The modules

| Module | Models | Depends on |
|---|---|---|
| `FifoQueue` | erasing from and scanning a queue (`std::remove`, the victim scan), without recursion; what stands before what | |
| `FlatMemory` | abstract: each process has its own bytes; only the process whose turn it is touches them | |
| `PagingAllocator` | `PagingAllocator` and the page map of `BackingStore`; implements `FlatMemory` | `FifoQueue`, `FlatMemory` |
| `ReplacementOrder` | which page has been in memory longer, and what that says of evictions | `PagingAllocator` |
| `Scheduler` | `Scheduler::onTick()` and `addProcess()` | `FifoQueue` |
| `ServiceOrder` | who has been waiting for a core longer, and what that says of dispatches | `Scheduler` |
| `AtomicProcess` | abstract: unrolled instructions take effect one at a time | |
| `Process` | `Process::advance()`, `executeStep()`, FOR contexts, symbol table | |
| `Unrolling` | what a process executes against `AtomicProcess`: a program without its FOR blocks, and the refinement mapping | `Process`, `AtomicProcess` |
| `Console` | the command thread and `backgroundTickLoop()` | |
| `Emulator` | scheduler, processes and allocator composed | `Scheduler`, `PagingAllocator` |
| `EventLog` | the event log of the store and the traces of `proc-logs`, with their buffers, failures, exit and crash | `FifoQueue` |
| `Configuration` | `config.txt`: parse, validate, the roll and the default of sizes | |
| `InstructionList` | `parseInstructions()`, and what `generateInstructions()` can roll | |
| `Inputs` | editing, `initialize`, and the commands that make processes | `Configuration`, `InstructionList` |
| `MCPagingAllocator`, `MCScheduler`, `MCProcess`, `MCConsole`, `MCEmulator`, `MCInputs` | the instances TLC checks (`EventLog` needs none) | |
| `FifoQueue_proofs`, `PagingAllocator_proofs`, `PagingRefinement_proofs`, `Scheduler_proofs`, `Emulator_proofs`, `Process_proofs`, `Console_proofs`, `EventLog_proofs` | the theorems | |

Each module that models code has a section of *faulty forms*: one plausible slip
per definition, used by no specification. Every checked property is violated when
one of them replaces the definition it names (`mutants` in `PROJECT.json`), so no
property holds for the shape of the model alone.

### `PagingAllocator`

Frames, pages and process ids are values; `freeFrameList` is a set, because its
order only picks a frame number; `pinnedFrames` is a set, because it is searched
and erased by value. `ensureResident()` is one step per page of its loop
(`PageHit`, `PageInFree`, `PageInEvict`, `PageUnavailable`) between a call
(`EnsureResident`) and a `Return`: every page can evict another one. All the rest
is one step per operation, since a tick holds `schedulerMutex`. The regions asked
for are those `executeStep()` can ask for: the symbol table segment, and two bytes
at a valid address. Between `BeginInstruction` and `EndAttempt` only the process
on the core calls; between attempts any process may die, be created, leave its
core or go next, so the model covers every schedule the scheduler can produce, and
more. The scheduler admits only processes that fit (`Admitted`).

`promised` is a history variable: the pages a process was told it can use until
its next attempt. `PinsMatchPromises` relates it to the pins. The abstract
`FlatMemory` sees the bytes of the frame or of the stored copy, whichever there
is, and is allowed to change only in a write of the process whose turn it is.

`ReplacementOrder` adds the history `older`: the pairs of resident pages, one of which
was there when the other came. It is read off the page tables and not off the queue, so
`OldestGoesFirst` says something of the queue: who appends, who erases, and what a death in
the middle of it leaves.

### `Scheduler`

A tick is `WakeSleepers`, one step per core (`EmptyCore`, or `Finish`,
`FallAsleep`, `Preempt`, `StayOnCore` around the common `Attempt`),
`StartDispatch`, one step per core again (`Dispatch`, `NoDispatch`) and `EndTick`.
The result of `advance()` is any of `Outcomes`: what the interpreter and the memory
can answer, in every order. The allocator is reduced to two sets, the processes it
has tables for and those it holds pins for. `executed` and `slept` are histories:
instructions completed since the dispatch, ticks asked and passed of a sleep.
`ToInt` is the `static_cast<int>` of the quantum and of the delay, at `IntBits`.
`ServiceOrder` adds the history `ahead`: the pairs of waiting processes, one of which was
waiting when the other was created, preempted or woken. It is read off the states and not
off the queue, so `FirstComeFirstServed` depends on where each of the three is queued as
much as on whom the dispatch picks.

### `Process`

One call of `advance()` is one step, or one per region it asks the memory for: the
memory answers RESIDENT, FAULTED or UNAVAILABLE, whatever it likes. The process's
bytes are flat here, which is what `PagingAllocator` is shown to implement.
`granted` is what the memory answered for in this attempt, `touched` what the last
step accessed, `done` the instructions completed.

`Unrolling` says that `Process` implements `AtomicProcess`: the instructions left are
the unrolled program without `done`, a variable is the word in its slot, and the names
are known in the order of their slots (`NamesBySlot`). In `AtomicProcess` a FOR, a fault
and a retry are stutters; only the moment a WRITE's operand name enters the symbol table
is visible (`LookUp`), because the name takes a slot before the WRITE is done. `Unroll`
is a recursion over blocks in blocks. The prover can do nothing in a module that reaches
a recursive operator, so it is a constant there, told by its recursion equations
(`UnrollAssumption`); `MCProcess` gives it its recursive value, and TLC checks the
equations on every list of the instance.

### `Console`

Two program counters. The tick thread's loop is one step per look at something the
other thread writes (`Loop`, `WakeUp`, `LockAndCount`, `CheckBatch`,
`TickGenerates`, `OnTick`); what the command thread does under the mutex is one
step. The scheduler is the list of its processes, with their names and whether a
violation killed them; a tick may kill any of those that live, since every core runs one.
`WordBits` is the width of the unsigned tick difference.
`AttachToProcess` and `Detach` are the screen manager, whose state is a name;
`meant` remembers which process the user meant by it.

### `Emulator`

It extends `Scheduler` and instantiates `PagingAllocator`; each of its actions is a
conjunction of actions of the two. Where `Scheduler` lets an attempt end in any of
`Outcomes`, here the outcome is computed: `Begin`, `Ask`, the allocator's `Service`
and `Answer` for each region of the current instruction, then `Execute`, `Stall` or
`Violate`. `TurnOver` joins what `onTick()` does with the process to what it tells the
allocator: the tables of a finished process go, the pins of one that leaves its core
go. A program is the regions each instruction asks for; loops are unrolled, except for
the *endless* programs, which start over: nested FOR blocks of 65535 rounds outlast
everything else there is.

### `EventLog`

Page movements and trace lines are any; `PagingAllocator` and `Process` say which.
`EndTick` appends the events, and the traces when `FlushTicks` divides the tick, to
files that may or may not open and, once open, may or may not take what is written;
`Exit` is the two destructors; `Crash` leaves the files as they are. Neither
`flushProcessLogs()` (`Scheduler.cpp:208-211`) nor `appendEvents()`
(`BackingStore.cpp:92-102`) looks whether a write succeeded: the buffer is cleared. For the
event log that is what a file that does not open does too, so `opened` is one choice there;
a trace has two, `openedFor` and `written`. A write arrives as a whole or not at all, which
is the one assumption about the file system. `NextTicks` lets one tick go by that
`onTick()` is never called with: a round of the tick loop that saw no scheduler counts it
after `scheduler-start` has begun to count (`ConsoleManager.cpp:507-529`).
`events`, `said`, `lostTicks`, `unopened`, `unwritten` and `unseen` are histories of what
happened, to which the files are compared.

### `Configuration`, `InstructionList`, `Inputs`

`Parse` folds the lines of a file over `DefaultConfig`; a value is what `std::stoul`
makes of it, the uncaught exception included (`Crash`). `InstructionList` is the parser
as recursive operators over sequences of lexemes, with quotes, nesting, escapes and
saturation. `Inputs` is the machine around them: the file is edited, `initialize`
fails or succeeds, and a process is made in one of the ways there are: rolled, or typed
with or without a size. A process depends on none before it, so a run ends with one.

## The runs

| Run | Instance | Shows |
|---|---|---|
| `paging` | 3 processes, 2 frames, 2-byte pages, spaces of 2 and 3 bytes, 2-valued bytes | `TypeOK`, `OneAssignment`, `PageInOnePlace`, `PinsMatchPromises`, `BlockedOnlyByOthers`, `OldestGoesFirst`, `ImplementsFlatMemory` |
| `scheduler` | both policies, 3 processes, 2 cores, quantum 2, delay 2, sleeps up to 2 | `TypeOK`, `Placement`, `TablesOfTheLiving`, `SleepsItsTicks`, `PreemptedAfterQuantum`, `FirstComeFirstServed`, `NoCoreIdleForNothing` |
| `process` | all programs of up to 3 data instructions, words that overlap the symbol table included; blocks nested two and three deep, with faults and sleeps in them; spaces of 2, 4 and 8 bytes | `TypeOK`, `AccessesGranted`, `SlotsApart`, `TakesEffectAtOnce`, `ExecutesAtomically`, `Ends` |
| `console` | delay 2, two user names, one of them a generated one, 5 ticks | `TypeOK`, `TicksInOrder`, `BatchSpacing`, `AtMostOneAfterStop`, `ScreenKeepsItsProcess`, `ExitEnds` |
| `emulator` | both policies, 3 processes of a size that fits or of one that never does, 2 cores, 2 frames; programs that read across two pages, write a variable and sleep, die of a violation after a FOR, or never end | `PinsAgree`, `RowsSumToUsed`, `BlockedByAnotherCore`, `EveryAdmittedFinishes`, `AdmittedGetsCore` |
| `event_log` | 2 processes of 2 pages, 1 frame, traces flushed every 2 ticks, 3 ticks of which one may pass unseen, 4 movements, 2 lines each, files that do not open and writes that fail | `LogLacksOnlyFailedTicks`, `LogTellsResidency`, `TraceComplete`, `LossIsBounded` |
| `inputs` | 2 files, up to 2 of 99 lines appended, so some 20 thousand; more than 20 thousand texts | `LastLineCounts`, `SizesLegal`, `GeneratedStayInside`, `ProgramsLegal`, `UnderstoodAsMeant` |

Why these bounds reach the cases that matter: in `paging` the segment takes a page of
its own, a space of 3 bytes has a second one, and three processes want up to six pages in
two frames, so that every eviction, a request that fails after it pinned a page, the death
of a process with pins and a hole in the middle of the queue all happen; words lie inside a
page and across two. (The program's sizes are powers of two, and nothing in the module
or its proofs needs that. 3 bytes stand for 4: a fourth byte would be in the second page as
the third is, and nothing moves one without the other; it only multiplies the states.) Two
cores and three processes make a core's effect on the queues visible to the next core and
leave somebody waiting, a size above `TotalMemory` gives a process that never fits, at any
place of the queue, and a delay of 2 gives ticks without an attempt. `MaxVariables = 2` with three names makes a name too many, the
space of 2 bytes has a single slot; two-valued bytes make words of 0 to 3, so sums
of small literals saturate. Five console ticks with a period of two allow a start, a
stop, another start, and generations of both threads. In `emulator` two cores can
each hold one of the two frames the other needs, which is the schedule the
allocator's giving up and the scheduler's releasing of pins exist for, and a process of 8
bytes in a memory of 4 waits for ever, which must delay nobody who fits. In `event_log`
one frame makes every second page-in evict; the tick that passes unseen may be tick 2, the
only one with a flush, which is when the bound on what a crash costs doubles; and any
subset of files may fail to open, and of those that open to be written, at each flush.
In `inputs` `UlongMax = 299` brings the wrap of `-1` and the overflow of 300 near, three instructions are the limit of a list, and the texts
are every program of the notation up to a size, with quotes plain or escaped, and every
short sequence of stray lexemes; the default file meets all texts, every other file that
is accepted meets one.

Runs that are expected to fail; each states what a document of the repository says
and shows that the code does something else (`findings`):

| Run | Violated | The code |
|---|---|---|
| `batch_frequency` | the frequency is the ticks between generated processes | it is multiplied by the delay per instruction |
| `scheduler_quantum_overflow` | the quantum may be up to 2^32 | it is compared as an `int` |
| `process_killed` | a killed process is listed at the line it died on | in a top-level FOR at the next one |
| `console_names` | screen -r reaches a process by its name | a generated name may be taken |
| `config_crash` | an invalid value makes `initialize` fail | an exception ends the program |

Deadlock is checked in the allocator, the scheduler and the emulator, which never
stop. It is not in `Process` (a process ends), `Console` (the program ends, and
`MaxTicks` bounds the clock), `EventLog` (a run exits or crashes) and `Inputs` (it ends
with a process).

Met on the way, and in the models as the code has it, without a run of its own:

* The comment of `createProcess` (`PagingAllocator.h:45`) says that a process larger
  than physical memory simply pages; the scheduler never dispatches it (`Admitted`), so
  properties of progress and order are about the processes that fit.
* A core that stalls on a page fault holds a process, and its tick counts as idle
  (`Scheduler.h:45-46`, `Scheduler.cpp:99-101`): `busy` is not the number of occupied cores.
* `scheduler-stop` may let one more process through (`AtMostOneAfterStop` is the bound).
* READ and WRITE have two phases so that a single frame is enough; a word or a segment
  that straddles two pages still needs two frames at once (`EveryAdmittedFinishes`).
* A SLEEP that is the last instruction of a program is never slept: the process has
  finished (`Finish` is looked at before `FallAsleep`).
* `scheduler-start` generates a process at once (`ConsoleManager.cpp:172`), however short a
  time ago the last one came: a stop and a start between two ticks give two processes one
  tick apart. `BatchSpacing` is therefore about the processes the tick thread generates,
  each a period after the one before, whoever made that one; the step of the start is
  under no distance. The period is what the code computes, frequency times delay
  (`ConsoleManager.cpp:511-519` gives its reason for it); that `README.md:62` and
  `README.txt:62` give it without the factor is the finding of `batch_frequency`.
* `README.md:145-146` says that `screen -c` without a size gives 65536 bytes, "the largest
  legal address space". The code gives at most `max-overall-mem`
  (`ConsoleManager.cpp:259-267`), and `SizesLegal` says what the code does: with 65536 bytes
  the process would never be admitted in a smaller memory.
* `README.txt:70` gives memory values the range [64, 65536]; the code accepts them from 8
  on, as `README.md:54-55` says, and so does `SizesLegal`.
* `-1` is a value `std::stoul` takes: a quantum or a delay of 2^32 - 1 (`Stoul`).

### Fairness

* `Emulator!SystemFairSpec`: weak fairness of `SystemTick` alone, because
  `backgroundTickLoop()` calls `onTick()` again and again and nothing in it waits.
  Nothing is assumed of the allocator's answers. `AdmittedGetsCore` is for round robin:
  under fcfs an endless program keeps its core, as the policy says.
  `EveryAdmittedFinishes` is for systems where no program is endless: an endless one
  may hold the frame another process needs whenever that one is on a core.
* `Process!FairSpec`: weak fairness of `Next`, because the scheduler keeps calling
  `advance()`; strong fairness of the answers RESIDENT, which is what `Emulator` shows of
  the composed system: page faults do not go on for ever.
* `Console!FairSpec`: weak fairness of the tick thread and of `join()`, which the
  operating system schedules. Nobody is assumed to type.

## The proofs

`tlapm` checks every proof; the assumptions are the named ASSUMEs of the modules
(sizes positive, finitely many frames or processes, `None` outside the value sets, and
of programs what the parser and the generator return, `ProgramsAssumption`, which
`ProgramsLegal` checks on their side; and `PeriodFits`, a batch period that fits into the
unsigned difference of two ticks, 64 bits in the program). `UnrollAssumption` is no condition on programs but
the definition of `Unroll`: the equations of its recursion.

* **Queues** (`FifoQueue_proofs`). `Without` and `IsFirstOutside` are written with
  ranks of positions rather than recursively. A finite set of positions has a rank
  bijection; from it: erasing keeps the other elements, no repetition appears,
  appending a new element keeps injectivity, what is appended stays at the end of what is
  left, the scan finds an element whenever one is outside the set, and what stood before
  another element still does after erasing (`WithoutKeepsOrder`) and appending
  (`ConcatKeepsOrder`). They are lemmas for what follows. `OneTable` says of a
  page table, a frame table, a free list and a queue that they are one assignment of frames
  to pages; giving frames back and taking one keep it, and the pages in frames are as many
  as the frames that are not free.
* **Allocator** (`PagingAllocator_proofs`). The inductive invariant `Inv` is the
  type invariant, the tables (`OneAssignment`, which is `TablesMirror` and
  `FramesAccounted`; `PageInOnePlace`), `PinsMatchPromises`, and what they need about
  the call in progress: a promised page is resident, promises of the dead are empty, the
  running process is live and admitted, the pages before the scan are promised.
  `PinsMatchPromises` alone is not inductive: `PinsWithout` identifies a pin's
  owner through the frame table, which needs `TablesMirror`. From `Inv`:
  `StatisticsAgree` by a bijection between occupied frames and resident pages, and
  `NeverBlocksItself`: were nobody else promised a page, all frames would be
  pinned for the running process, which has fewer pages than there are frames
  because it was admitted and asks for one more. `EvictsOldest`: the frames stand in the
  queue by the age of their pages (`QueuedByAge`); each step gives some frames up and takes
  some (`QueueAges`), which keeps that order, and the victim is the first frame that is not
  pinned.
* **Paging is invisible** (`PagingRefinement_proofs`). Each step is mapped to a
  step of `FlatMemory` or to a stutter; the lemmas say what a page's bytes are
  after each way of moving it, and that a word has its two bytes in one page or two.
* **Scheduler** (`Scheduler_proofs`). `Inv` is types, placement, tables, pins, the
  order of phases, and the histories: the quantum counter is the number of
  instructions executed since the dispatch and below the quantum while the process
  stays on its core; a sleeper's ticks left are the ticks asked less those passed.
  `PinsFollowCores` is what `PinsAgree` of the composition needs from this side.
  `ServedInOrder`: the ready queue is in the order of the waiting (`QueuedInOrder`), because
  a new, a preempted and a woken process all go to its end, and a dispatch takes the first
  that fits. The other action properties follow from `Inv`, `NoCoreIdleForNothing` from an invariant of
  the dispatch phase: the cores before the current one are occupied or nothing is
  left that fits. `QuantumIsExact` assumes that the quantum survives the cast, the
  assumption `scheduler_quantum_overflow` refutes for the upper half of the range.
* **Scheduler and memory together** (`Emulator_proofs`). Every step of the system is a
  step of `Scheduler` (`SystemSchedules`) and one of the allocator or a stutter
  (`SystemPages`), so what is proved of each alone holds of the composition
  (`SystemInherits`), for any programs, any number of cores and of frames. The first is seen in each action; the
  second is not, since the allocator is called only for a process it knows, that fits, and
  for pages below the end of the region. `SystemInv` says what neither side knows: who the
  process of the attempt is and where (`AttemptAtCore`), that its line and the regions it
  had are those of its program (`AtInstruction`), that it fits (`RunningFits`), and that
  `pinned` is right of every process but that one, whose outcome says the truth once it is
  there (`PinsTracked`). `PinsAgree` is `PinsTracked` between attempts. `RowsSumToUsed`
  adds that a resident page belongs to a process with a row (`ResidentLive`).
  `BlockedByAnotherCore` is a counting argument: were all frames held by the process itself,
  it would have as many pages as there are frames and still ask for one more. So with one
  core nothing ever blocks (`OneCoreNeverBlocks`). A theorem about `PagingAllocator` cannot
  be cited for its instance here; what both need of the tables is therefore stated once over
  any page and frame table (`OneTable`, `FrameTaken`, `FramesGivenBack`, `PagesFit` in
  `FifoQueue_proofs`).
* **Interpreter** (`Process_proofs`). The invariant ties the region that is asked for to
  the instruction and its phase (`AsksItsNeed`): without it nothing says that the answer
  covers what the next step touches. `Packed` says where slots are: with n names defined
  each has one of the first n words, its own; so the next is free, and with the capacity
  they all lie in the segment, however small the space. `MoreToDo` keeps the line inside the
  program. `AtOnce` says that each instruction reads and writes what it would if it ran whole
  at the moment it completes: the word fetched in the first phase is still the word there
  (`FetchedIsFresh`), because nothing between the phases writes memory and the name a WRITE
  enters in the table moves no other name. The rest is arithmetic: two bytes make a word
  and a word two bytes, and the contexts left after a step are contexts with rounds to go.
  `KilledNearItsLine` says how far off the line of a killed process can be, which
  `process_killed` shows to be off: by one, in a FOR block, and never otherwise.
* **Loops are unrolled** (`RunsAsUnrolled`, at the end of `Process_proofs`): for every
  program, nested however deep, `Process` implements `AtomicProcess`. The invariant is
  `InOrder`: the unrolled program is what is done, followed by what is left. What is left is
  not computed by a recursion over the stack, which could not be reasoned about, but given
  by one remainder for each block on it (`Nested`): the rest of the body, the rounds to
  come, and the remainder of the block around. A round that ends pops several blocks at
  once. Those popped leave nothing (`OverLeavesNothing`), so the remainders from the
  block that goes on to the innermost one are all the same (`AllTheSame`, by the greatest
  place where they differ), and the block that goes on begins with its next instruction
  (`SteppedGoesOn`); entering a block only adds a remainder (`EnteredBegins`). Then a step
  that completes an instruction takes the head off `Todo` (`TodoIs`, `HeadOfThen`). That it
  has the effect `AtomicProcess` gives it is `EffectIsOp`: from `AtOnce`'s lemmas, from a
  table of slots being the names in order (`SlotsInOrder`), and from `resolveVar()` doing to
  that order what `Learn` does (`ResolvedIsLearnt`, a full table included). Everything else
  is a stutter (`OthersAreInvisible`), the lookup of a WRITE (`FetchIsLookUp`) and a
  violation (`ViolationIsDie`) excepted.
* **Threads** (`Console_proofs`). The mutex is held in exactly the steps of a tick
  (`MutexOfTick`), in which the tick is the newest and not yet given to `onTick()`
  (`ClockAhead`): no other thread can count in between. The batch clock is the birth of the
  last batch process and never ahead of the tick (`BatchClockIsBirth`), so the unsigned
  difference does not wrap. `BatchOnTime` says how far the clock may be from that birth at
  each step of the tick thread, so that a process is neither early nor late; `OnePeriod` is
  exact but for a period of one tick, where the round that saw no scheduler can put two ticks
  between a `scheduler-start` and the next process. No process is late while the batch runs, nor while one is on its
  way (`OneOnItsWay`). The process meant is the first of its name (`MeantIsFirst`), which
  appending and killing keep. `TicksLeft` is about the bound `MaxTicks` only.
* **Files** (`EventLog_proofs`). The lines in file and buffer are those said, in order,
  but for those of failed writes (`LinesCounted`); what waits in the log's buffer came in this tick, and an event is in the
  file, waits, or belongs to a lost tick (`EventsAccounted`); since a line that waits no flush
  came by but one that passed unseen (`NoFlushSince`), so it is younger than a flush period,
  or than two. That the log lacks whole ticks and nothing else
  (`OnlyFailedTicksLacking`) is an equation between sequences, file and buffer against all
  events without those of lost ticks, kept by the lemmas that say what erasing does to an
  append. `LogTellsWhere`: of every page of a process there is, the log says whether it is in a
  frame, lost events or not, as long as the page's own last movement is not among them. The
  last of all events of a page says where the page is (`EventsTellResidency`), and it is the
  last one in the file too when it is there at all, since the order is kept
  (`LastMovementKept`).

Only model-checked: liveness (`EveryAdmittedFinishes`, `AdmittedGetsCore`, `Ends`,
`ExitEnds`), which the prover cannot do under fairness; the five properties of `Inputs`, whose parser
is recursive, whose file is folded, and whose sizes are powers of two found by bit
operations, of which the prover knows nothing.

## Not modelled

* The text of messages, reports, trace lines, memory snapshots and screens; the commands
  that only report (`screen -ls`, `process-smi`, `vmstat`, `report-util`), and the memory
  snapshots `onTick()` writes: they read state and change none.
* The cumulative counters of active and idle ticks (the current tick's share is: `busy`)
  and the command counter of the backing store, which nothing reads.
* How a command line is split into words; letter case and the quotes of `config.txt`.
* Which instructions are rolled how often: `GeneratedInstructions` is what can be rolled.
* `main()` and the build files, which have no behaviour of their own.

## Plan

Written first, because everything rests on it: the memory (`FifoQueue`,
`FlatMemory`, `PagingAllocator`), then the scheduler, the interpreter and the
console with their proofs; then the composition, the files and the inputs; then the
refinement of the interpreter. What is left is one more composition: the data of
`Process` through the paged memory. Both sides are proved, that a process executes its
unrolled program over flat bytes and that the allocator implements flat bytes
(`FlatMemory`), and `AccessesGranted` is the condition under which they meet; the two are
not yet one specification.

------------------------------- MODULE EventLog -------------------------------
(***************************************************************************)
(* The two kinds of files a run writes while it goes on: the log of page   *)
(* movements (BackingStore) and a trace per process (Process::trace, which *)
(* Scheduler::flushProcessLogs() appends to proc-logs).  Both are buffered *)
(* in memory; the log is appended to at the end of every tick, the traces  *)
(* every FlushTicks ticks; a file that cannot be opened loses the events   *)
(* but keeps the lines; the destructors append once more.  Nobody looks    *)
(* whether a write to an open file succeeded: what it had to write is      *)
(* forgotten in any case, and is taken here to arrive as a whole or not at *)
(* all.  A crash may come at any point.                                    *)
(*                                                                         *)
(* Which page is brought in and which one has to go for it is any choice   *)
(* here (PagingAllocator says which).  The text of lines is left out: an   *)
(* event is what it tells of which page, a line its number.                *)
(***************************************************************************)
EXTENDS Integers, Sequences, FiniteSets, SequencesExt, FifoQueue

CONSTANTS
  Pids,        \* the processes
  VPNs,        \* the pages of each
  NumFrames,   \* frames of physical memory
  FlushTicks,  \* PROC_LOG_FLUSH_TICKS, 20 in the program
  MaxTicks,    \* bound: the ticks of a run
  MaxEvents,   \* bound: the page movements of a run
  MaxLines     \* bound: the lines a process says

ASSUME EventLogConstants ==
  /\ IsFiniteSet(Pids) /\ IsFiniteSet(VPNs)
  /\ NumFrames \in Nat \ {0} /\ FlushTicks \in Nat \ {0}
  /\ MaxTicks \in Nat /\ MaxEvents \in Nat /\ MaxLines \in Nat

Pages == Pids \X VPNs

VARIABLES
  phase,          \* "running", "exited", or "crashed"
  tick,           \* the tick onTick() is in, or was called with last
  unseen,         \* history: the tick it was not called with, or 0
  procs,          \* the processes the store knows
  store,          \* the pages it holds
  frames,         \* the pages in memory
  numPagedIn, numPagedOut,
  pendingEvents,  \* BackingStore::pendingEvents
  file,           \* csopesy-backing-store.txt
  trace,          \* process -> its lines not yet in its file
  procLog,        \* process -> its file
  events,         \* history: every page movement
  said,           \* history: process -> how many lines it said
  lostTicks,      \* history: the ticks whose events did not get to the file
  unopened,       \* history: the processes whose last flush found none
  unwritten       \* history: process -> its lines in writes that failed

paging  == <<procs, store, frames, numPagedIn, numPagedOut>>
tracing == <<trace, procLog, said, unopened, unwritten>>
vars == <<phase, tick, unseen, paging, pendingEvents, file, tracing, events, lostTicks>>

PagesOf(pid) == {pid} \X VPNs

Event(page, what) == [page |-> page, what |-> what, tick |-> tick]

------------------------------------------------------------------------------
(***************************************************************************)
(* Faulty forms of the definitions that follow, one plausible slip each;   *)
(* no specification uses them, the properties are tested against them.     *)
(***************************************************************************)
KeptOnFailure(opened) == IF opened THEN <<>> ELSE pendingEvents
NeverCleared(opened) == pendingEvents
OnlyPagedIn(p, victim) == <<Event(p, "paged in")>>
ClearedAnyway(opened) == [pid \in Pids |-> <<>>]
FlushesLate == tick % (FlushTicks + 1) = 0
NothingAtExit == FALSE
KeepsVictim(p, victim) == frames \cup {p}
AppendsWhenDue(opened) ==                \* as seldom as the traces
  IF tick % FlushTicks = 0
  THEN /\ pendingEvents' = <<>>
       /\ file' = IF opened THEN file \o pendingEvents ELSE file
       /\ lostTicks' = IF opened THEN lostTicks
                       ELSE lostTicks \cup {pendingEvents[i].tick : i \in DOMAIN pendingEvents}
  ELSE UNCHANGED <<pendingEvents, file, lostTicks>>
------------------------------------------------------------------------------

(* The numbers of lines.                                                   *)
Numbers(lines) == {lines[i].n : i \in DOMAIN lines}

(* What pageIn() logs: the victim's eviction, then the page's own coming.  *)
Movements(p, victim) ==
  IF victim = {} THEN <<Event(p, "paged in")>>
  ELSE <<Event(CHOOSE q \in victim : TRUE, "evicted"), Event(p, "paged in")>>

PagedInAfter(victim) == numPagedIn + 1

FramesAfter(p, victim) == (frames \ victim) \cup {p}

(* appendEvents() when the file could be opened and written or not: the    *)
(* events are dropped either way.                                          *)
PendingAfter(opened) == <<>>

(* flushProcessLogs() when the files of the processes opened can be opened *)
(* and those of written be written as well: a trace whose file cannot be   *)
(* opened waits for the next flush.                                        *)
TraceAfter(opened) ==
  [pid \in Pids |-> IF pid \in opened THEN <<>> ELSE trace[pid]]

(* Every FlushTicks ticks.                                                 *)
TracesDue == tick % FlushTicks = 0

(* The destructors flush as well.                                          *)
FlushAtExit == TRUE

AppendEvents(opened) ==
  /\ pendingEvents' = PendingAfter(opened)
  /\ file' = IF opened THEN file \o pendingEvents ELSE file
  /\ lostTicks' = IF opened \/ pendingEvents = <<>> THEN lostTicks
                  ELSE lostTicks \cup {tick}

FlushProcessLogs(opened, written) ==
  /\ trace' = TraceAfter(opened)
  /\ procLog' = [pid \in Pids |-> IF pid \in written THEN procLog[pid] \o trace[pid]
                                  ELSE procLog[pid]]
  /\ unwritten' = [pid \in Pids |->
                     IF pid \in opened \ written THEN unwritten[pid] \cup Numbers(trace[pid])
                     ELSE unwritten[pid]]
  /\ unopened' = {pid \in Pids : trace[pid] # <<>> /\ pid \notin opened}
  /\ UNCHANGED said

(* The tick onTick() is called with next.  A round of the tick loop that   *)
(* found no scheduler counts a tick of its own, when scheduler-start may   *)
(* have begun to count: that one passes unseen, once in a run.             *)
NextTicks == {tick + 1} \cup IF unseen = 0 THEN {tick + 2} ELSE {}

(* The first tick sees what the clock has got to before initialize.        *)
Init ==
  /\ phase = "running"
  /\ tick \in 1 .. FlushTicks /\ unseen = 0
  /\ procs = {} /\ store = {} /\ frames = {}
  /\ numPagedIn = 0 /\ numPagedOut = 0
  /\ pendingEvents = <<>> /\ file = <<>>
  /\ trace = [pid \in Pids |-> <<>>] /\ procLog = [pid \in Pids |-> <<>>]
  /\ said = [pid \in Pids |-> 0]
  /\ events = <<>> /\ lostTicks = {} /\ unopened = {}
  /\ unwritten = [pid \in Pids |-> {}]

(* A new process has all its pages in the store, and no event says so.     *)
AddProcess(pid) ==
  /\ phase = "running"
  /\ pid \notin procs /\ said[pid] = 0 /\ \A i \in DOMAIN events : events[i].page[1] # pid
  /\ procs' = procs \cup {pid}
  /\ store' = store \cup PagesOf(pid)
  /\ UNCHANGED <<phase, tick, unseen, frames, numPagedIn, numPagedOut, pendingEvents, file,
                 tracing, events, lostTicks>>

(* pageIn() of page p, of a process that runs; victim is the page that     *)
(* has to make room for it, if any.                                        *)
PageIn(p, victim) ==
  /\ phase = "running"
  /\ p \in store
  /\ Len(events) + Cardinality(victim) < MaxEvents
  /\ \/ victim = {} /\ Cardinality(frames) < NumFrames
     \/ /\ Cardinality(victim) = 1 /\ victim \subseteq frames
        /\ Cardinality(frames) = NumFrames
  /\ frames' = FramesAfter(p, victim)
  /\ store' = (store \cup victim) \ {p}
  /\ numPagedIn' = PagedInAfter(victim)
  /\ numPagedOut' = numPagedOut + Cardinality(victim)
  /\ pendingEvents' = pendingEvents \o Movements(p, victim)
  /\ events' = events \o Movements(p, victim)
  /\ UNCHANGED <<phase, tick, unseen, procs, file, tracing, lostTicks>>

(* The process is over: its pages vanish from wherever they are, and no    *)
(* event says so.                                                          *)
RemoveProcess(pid) ==
  /\ phase = "running"
  /\ pid \in procs
  /\ procs' = procs \ {pid}
  /\ store' = store \ PagesOf(pid)
  /\ frames' = frames \ PagesOf(pid)
  /\ UNCHANGED <<phase, tick, unseen, numPagedIn, numPagedOut, pendingEvents, file, tracing,
                 events, lostTicks>>

(* An instruction was executed, or a page came in: a line of the trace.    *)
TraceLine(pid) ==
  /\ phase = "running"
  /\ pid \in procs /\ said[pid] < MaxLines
  /\ said' = [said EXCEPT ![pid] = @ + 1]
  /\ trace' = [trace EXCEPT ![pid] = Append(@, [n |-> said'[pid], tick |-> tick])]
  /\ UNCHANGED <<phase, tick, unseen, paging, pendingEvents, file, procLog, unopened,
                 unwritten, events, lostTicks>>

(* The end of onTick(), and the beginning of the next.                     *)
EndTick(opened, openedFor, written) ==
  /\ phase = "running"
  /\ AppendEvents(opened)
  /\ IF TracesDue THEN FlushProcessLogs(openedFor, written) ELSE UNCHANGED tracing
  /\ tick' \in NextTicks /\ tick' <= MaxTicks
  /\ unseen' = IF tick' = tick + 1 THEN unseen ELSE tick + 1
  /\ UNCHANGED <<phase, paging, events>>

(* exit, between two ticks: the scheduler's destructor, then the store's.  *)
Exit(opened, openedFor, written) ==
  /\ phase = "running"
  /\ phase' = "exited"
  /\ IF FlushAtExit
     THEN AppendEvents(opened) /\ FlushProcessLogs(openedFor, written)
     ELSE UNCHANGED <<pendingEvents, file, lostTicks, tracing>>
  /\ UNCHANGED <<tick, unseen, paging, events>>

(* The program is killed: the files stay as they are.                      *)
Crash ==
  /\ phase = "running"
  /\ phase' = "crashed"
  /\ UNCHANGED <<tick, unseen, paging, pendingEvents, file, tracing, events, lostTicks>>

Next ==
  \/ \E pid \in Pids : AddProcess(pid) \/ RemoveProcess(pid) \/ TraceLine(pid)
  \/ \E p \in Pages : PageIn(p, {}) \/ \E q \in Pages : PageIn(p, {q})
  \/ \E opened \in BOOLEAN, openedFor \in SUBSET Pids : \E written \in SUBSET openedFor :
       EndTick(opened, openedFor, written) \/ Exit(opened, openedFor, written)
  \/ Crash

Spec == Init /\ [][Next]_vars

------------------------------------------------------------------------------
Events == [page : Pages, what : {"paged in", "evicted"}, tick : Nat]
TraceLines == [n : Nat, tick : Nat]

TypeOK ==
  /\ phase \in {"running", "exited", "crashed"}
  /\ tick \in Nat \ {0} /\ unseen \in Nat
  /\ procs \subseteq Pids /\ store \subseteq Pages /\ frames \subseteq Pages
  /\ Cardinality(frames) <= NumFrames
  /\ numPagedIn \in Nat /\ numPagedOut \in Nat
  /\ {pendingEvents, file, events} \subseteq Seq(Events)
  /\ {trace, procLog} \subseteq [Pids -> Seq(TraceLines)]
  /\ said \in [Pids -> Nat] /\ unwritten \in [Pids -> SUBSET Nat]
  /\ lostTicks \subseteq Nat /\ unopened \subseteq Pids

(* The log and what is about to be appended to it are the movements of     *)
(* pages, each once and in order, less whole ticks whose events did not    *)
(* get to the file (appendEvents(), store(), remove()).                    *)
Told == file \o pendingEvents
LostEvents == {e \in ToSet(events) : e.tick \in lostTicks}

LogLacksOnlyFailedTicks == Told = Without(events, LostEvents)

(* Somebody who reads the log, and knows which processes are there, knows  *)
(* which of their pages are in memory: those whose last event is "paged    *)
(* in".  Events that are lost matter only to the pages whose last movement *)
(* is among them.  (That a new process's pages start in the store goes     *)
(* unlogged: store(), appendEvents().)                                     *)
IsLastOf(log, i, page) ==
  log[i].page = page /\ \A j \in DOMAIN log : j > i => log[j].page # page

LastSays(log, page, what) ==
  \E i \in DOMAIN log : IsLastOf(log, i, page) /\ log[i].what = what

LastMovementTold(page) ==
  \/ \A i \in DOMAIN events : events[i].page # page
  \/ \E i \in DOMAIN events : IsLastOf(events, i, page) /\ events[i].tick \notin lostTicks

LogTellsResidency ==
  \A page \in procs \X VPNs :
    LastMovementTold(page) => (page \in frames <=> LastSays(Told, page, "paged in"))

(* A process's file and buffer hold its lines, each once and in order,     *)
(* whichever files could not be opened; all of them but those of writes    *)
(* that failed (flushProcessLogs()).                                       *)
Ascending(lines) == \A i, j \in DOMAIN lines : i < j => lines[i].n < lines[j].n

TraceComplete ==
  \A pid \in Pids :
    LET lines == procLog[pid] \o trace[pid]
    IN Numbers(lines) = (1 .. said[pid]) \ unwritten[pid] /\ Ascending(lines)

(* What is in no file yet, and so what the end of the program costs: the  *)
(* log lacks at most the tick that goes on; a trace whose file could be    *)
(* opened the last time, at most the last FlushTicks ticks, twice as many  *)
(* if the flush between them fell on the tick nobody saw; and exit leaves  *)
(* nothing in memory but what found no open file (appendEvents(),          *)
(* flushProcessLogs() and the two destructors).                            *)
LogATickBehind ==
  \A i \in DOMAIN events :
    events[i].tick < tick => events[i] \in ToSet(file) \/ events[i].tick \in lostTicks

FlushUnseenSince(t) == unseen > t /\ unseen % FlushTicks = 0

TraceAFlushBehind ==
  \A pid \in Pids \ unopened : \A i \in DOMAIN trace[pid] :
    LET t == trace[pid][i].tick
    IN tick - t < IF FlushUnseenSince(t) THEN 2 * FlushTicks ELSE FlushTicks

ExitLosesNothing ==
  phase = "exited" =>
    pendingEvents = <<>> /\ \A pid \in Pids \ unopened : trace[pid] = <<>>

LossIsBounded == LogATickBehind /\ TraceAFlushBehind /\ ExitLosesNothing
==============================================================================

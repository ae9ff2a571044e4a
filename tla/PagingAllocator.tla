--------------------------- MODULE PagingAllocator ---------------------------
(***************************************************************************)
(* PagingAllocator and BackingStore: demand paging of the processes' own   *)
(* address spaces into a few frames, with FIFO replacement and pinning.    *)
(*                                                                         *)
(* The allocator is called by one thread at a time (the scheduler's tick,  *)
(* under schedulerMutex), so an operation is a step; the loop of           *)
(* ensureResident() is one step per page, because every page of the loop   *)
(* may evict another one.  Between beginInstruction() and the return of    *)
(* Process::advance() (variable running) only the process on the core      *)
(* calls the allocator.                                                    *)
(*                                                                         *)
(* Abstractions: freeFrameList is the set of its frames (their order only  *)
(* picks a frame number); pinnedFrames, searched and erased by value, is a *)
(* set; the statistics and the event log are not in this module.           *)
(***************************************************************************)
EXTENDS Integers, Sequences, FiniteSets, Functions, FifoQueue

CONSTANTS
  Pids,              \* ids of the processes; a dead one's id stands for a fresh id
  Frames,            \* the frames of physical memory (maxOverallMem / memPerFrame)
  FrameSize,         \* bytes per frame, and per page
  MaxMemSize,        \* MAX_MEM_SIZE: bound of an address space, in bytes
  MemSizes,          \* the sizes processes are created with
  SymbolTableBytes,  \* SYMBOL_TABLE_BYTES, 64 in the program
  ByteBase,          \* number of values of a byte, 256 in the program
  None               \* no frame, no page, no process, no call, no bytes

NumPages(size) == (size + FrameSize - 1) \div FrameSize

VPNs     == 0 .. NumPages(MaxMemSize) - 1
Pages    == Pids \X VPNs
Contents == [0 .. FrameSize - 1 -> 0 .. ByteBase - 1]
Words    == 0 .. ByteBase * ByteBase - 1

RESIDENT    == "RESIDENT"
FAULTED     == "FAULTED"
UNAVAILABLE == "UNAVAILABLE"

ASSUME ConstantsAssumption ==
  /\ IsFiniteSet(Frames) /\ Frames # {}
  /\ FrameSize \in Nat \ {0}
  /\ MaxMemSize \in Nat \ {0}
  /\ MemSizes \subseteq 1 .. MaxMemSize
  /\ SymbolTableBytes \in Nat \ {0}
  /\ ByteBase \in Nat \ {0}

ASSUME NoneAssumption ==
  /\ None \notin Frames /\ None \notin Pids
  /\ None \notin Pages  /\ None \notin Contents
  /\ None \notin Words
  /\ None \notin {RESIDENT, FAULTED, UNAVAILABLE}
  /\ None \notin [vpn : Nat, last : Nat, faulted : BOOLEAN]

VARIABLES
  memorySize,      \* processes[pid].memorySize, 0 when pid is not in processes
  pageTable,       \* page -> frame, None when present = false
  frameTable,      \* frame -> page, None when used = false
  freeFrames,      \* freeFrameList
  fifoFrames,      \* residency order, oldest first
  pinnedFrames,    \* frames the FIFO victim search skips
  physicalMemory,  \* frame -> bytes
  pages,           \* BackingStore::pages: page -> bytes, None when not stored
  running,         \* the process inside advance(), None between attempts
  scan,            \* the ensureResident() loop in progress, or None
  reply,           \* what the attempt's last ensureResident() returned
  lastRead,        \* the word the last readWord() returned, or None
  promised         \* history: the pages pid was told it can use until its
                   \* next attempt, or until it leaves its core

frameVars == <<pageTable, frameTable, freeFrames, fifoFrames, physicalMemory>>
callVars  == <<running, scan, reply>>
vars == <<memorySize, frameVars, pinnedFrames, pages, callVars, lastRead,
          promised>>

ZeroPage == [o \in 0 .. FrameSize - 1 |-> 0]

Live(pid)     == memorySize[pid] # 0
LivePage(p)   == p[2] < NumPages(memorySize[p[1]])
Resident(p)   == pageTable[p] # None

TotalBytes    == Cardinality(Frames) * FrameSize
UsedMemory    == (Cardinality(Frames) - Cardinality(freeFrames)) * FrameSize
ResidentMemory(pid) ==
  Cardinality({v \in VPNs : Resident(<<pid, v>>)}) * FrameSize

Page(pid, a) == <<pid, a \div FrameSize>>

(***************************************************************************)
(* The regions Process::executeStep() asks for: its symbol table segment   *)
(* and the two bytes at a valid address (isValidAddress).                  *)
(***************************************************************************)
SymbolRegion(size) ==
  [addr |-> 0, len |-> IF SymbolTableBytes <= size THEN SymbolTableBytes ELSE size]

Regions(size) ==
  {SymbolRegion(size)} \cup
  {[addr |-> a, len |-> 2] : a \in {b \in 0 .. MaxMemSize - 1 : b + 2 <= size}}

------------------------------------------------------------------------------
(***************************************************************************)
(* Faulty forms of the definitions that follow, one plausible slip each.   *)
(* No specification uses them: they are what the properties below are      *)
(* tested against.                                                         *)
(***************************************************************************)
FramesButFirst(pid) ==                              \* skips page 0
  {f \in Frames : \E v \in VPNs \ {0} : pageTable[<<pid, v>>] = f}
ReleasedFromAll(pid) == {}                          \* drops everyone's pins
ReleasedFromNone(pid) == pinnedFrames               \* drops nobody's pins
AnyVictim(f) == IsFirstOutside(fifoFrames, {}, f)   \* ignores the pins
AnyUnpinned(f) == IsSomeOutside(fifoFrames, pinnedFrames, f)  \* any, not the oldest
FifoKeepsDead(pid) == fifoFrames                    \* leaves dead frames queued
PinsKeepDead(pid) == pinnedFrames                   \* leaves dead frames pinned
FreesAbsent(pid) == {pageTable[<<pid, v>>] : v \in VPNs}  \* frees absent pages too
KeepsStored(store, p) == store                      \* leaves a stale copy behind
LoadsZeros(store, p) == ZeroPage                    \* never restores the bytes
------------------------------------------------------------------------------

(* The frames pid's pages occupy.                                          *)
FramesOf(pid) == {f \in Frames : \E v \in VPNs : pageTable[<<pid, v>>] = f}

(* The frames that stay pinned when pid's are released.                    *)
PinsWithout(pid) ==
  {f \in pinnedFrames : frameTable[f] = None \/ frameTable[f][1] # pid}

(* FIFO victim: the oldest resident frame that is not pinned.              *)
IsVictim(f) == IsFirstOutside(fifoFrames, pinnedFrames, f)

(* The frames destroyProcess() gives back, and what it leaves queued and   *)
(* pinned.                                                                 *)
ReturnedFrames(pid) == FramesOf(pid)
FifoAfterDestroy(pid) == Without(fifoFrames, FramesOf(pid))
PinsAfterDestroy(pid) == pinnedFrames \ FramesOf(pid)

(* An owner the page tables do not know: its bytes are not worth storing.  *)
Stale(f) == frameTable[f] = None \/ ~ Live(frameTable[f][1])

(* The store once frame f's occupant was paged out to it.                  *)
StoreVictim(f) ==
  IF Stale(f) THEN pages
              ELSE [pages EXCEPT ![frameTable[f]] = physicalMemory[f]]

(* The store once page p was moved from it into a frame.                   *)
StoreWithout(store, p) == [store EXCEPT ![p] = None]

(* The bytes a frame holds after page p was loaded from the store: a page  *)
(* the store does not have leaves the frame zero-filled.                   *)
Loaded(store, p) == IF store[p] = None THEN ZeroPage ELSE store[p]

------------------------------------------------------------------------------
Init ==
  /\ memorySize     = [pid \in Pids |-> 0]
  /\ pageTable      = [p \in Pages |-> None]
  /\ frameTable     = [f \in Frames |-> None]
  /\ freeFrames     = Frames
  /\ fifoFrames     = <<>>
  /\ pinnedFrames   = {}
  /\ physicalMemory = [f \in Frames |-> ZeroPage]
  /\ pages          = [p \in Pages |-> None]
  /\ running = None /\ scan = None /\ reply = None
  /\ lastRead = None
  /\ promised = [pid \in Pids |-> {}]

(* Lazy allocation: every page invalid, all of them zeros in the store.    *)
CreateProcess(pid, size) ==
  /\ running = None
  /\ ~ Live(pid)
  /\ memorySize' = [memorySize EXCEPT ![pid] = size]
  /\ pages' = [p \in Pages |-> IF p[1] = pid /\ p[2] < NumPages(size)
                               THEN ZeroPage ELSE pages[p]]
  /\ UNCHANGED <<frameVars, pinnedFrames, callVars, lastRead, promised>>

(* Completion and access violation alike: every frame and stored page of   *)
(* pid is given back.                                                      *)
DestroyProcess(pid) ==
  /\ running = None
  /\ Live(pid)
  /\ memorySize'   = [memorySize EXCEPT ![pid] = 0]
  /\ pageTable'    = [p \in Pages |-> IF p[1] = pid THEN None ELSE pageTable[p]]
  /\ frameTable'   = [f \in Frames |-> IF f \in FramesOf(pid) THEN None
                                       ELSE frameTable[f]]
  /\ freeFrames'   = freeFrames \cup ReturnedFrames(pid)
  /\ fifoFrames'   = FifoAfterDestroy(pid)
  /\ pinnedFrames' = PinsAfterDestroy(pid)
  /\ pages'        = [p \in Pages |-> IF p[1] = pid THEN None ELSE pages[p]]
  /\ promised'     = [promised EXCEPT ![pid] = {}]
  /\ UNCHANGED <<physicalMemory, callVars, lastRead>>

(* The process leaves its core (sleep, preemption).                        *)
ReleasePins(pid) ==
  /\ running = None
  /\ Live(pid)
  /\ pinnedFrames' = PinsWithout(pid)
  /\ promised' = [promised EXCEPT ![pid] = {}]
  /\ UNCHANGED <<memorySize, frameVars, pages, callVars, lastRead>>

(* The scheduler dispatches only processes that fit in physical memory.    *)
Admitted(pid) == memorySize[pid] <= TotalBytes

(* An instruction attempt starts; this process's pins alone are released.  *)
BeginInstruction(pid) ==
  /\ running = None
  /\ Live(pid) /\ Admitted(pid)
  /\ running' = pid
  /\ pinnedFrames' = PinsWithout(pid)
  /\ promised' = [promised EXCEPT ![pid] = {}]
  /\ UNCHANGED <<memorySize, frameVars, pages, scan, reply, lastRead>>

(* ensureResident(running, r.addr, r.len) is called.  The caller asks for  *)
(* another region only after RESIDENT: any other answer ends the attempt.  *)
EnsureResident(r) ==
  /\ running # None /\ scan = None
  /\ reply \in {None, RESIDENT}
  /\ scan' = [vpn     |-> r.addr \div FrameSize,
              last    |-> (r.addr + r.len - 1) \div FrameSize,
              faulted |-> FALSE]
  /\ UNCHANGED <<memorySize, frameVars, pinnedFrames, pages, running, reply,
                 lastRead, promised>>

(* The loop's condition, and the page it is at.                            *)
InLoop == /\ scan # None
          /\ scan.vpn <= scan.last
          /\ scan.vpn < NumPages(memorySize[running])
ScanPage == <<running, scan.vpn>>

(* The end of a loop body: pin the page's frame and go on to the next one. *)
Pin(f, fault) ==
  /\ pinnedFrames' = pinnedFrames \cup {f}
  /\ promised' = [promised EXCEPT ![running] = @ \cup {scan.vpn}]
  /\ scan' = [vpn |-> scan.vpn + 1, last |-> scan.last,
              faulted |-> scan.faulted \/ fault]
  /\ UNCHANGED <<memorySize, running, reply, lastRead>>

PageHit ==
  /\ InLoop
  /\ Resident(ScanPage)
  /\ Pin(pageTable[ScanPage], FALSE)
  /\ UNCHANGED <<frameVars, pages>>

(* pageIn() with a frame to spare.                                         *)
PageInFree ==
  /\ InLoop
  /\ ~ Resident(ScanPage)
  /\ \E f \in freeFrames :
       /\ freeFrames'     = freeFrames \ {f}
       /\ pageTable'      = [pageTable EXCEPT ![ScanPage] = f]
       /\ frameTable'     = [frameTable EXCEPT ![f] = ScanPage]
       /\ fifoFrames'     = Append(fifoFrames, f)
       /\ physicalMemory' = [physicalMemory EXCEPT ![f] = Loaded(pages, ScanPage)]
       /\ pages'          = StoreWithout(pages, ScanPage)
       /\ Pin(f, TRUE)

(* pageIn() with none: evictOneFrame() frees the victim's frame, which is  *)
(* then the only free one, and the page is loaded into it.                 *)
PageInEvict ==
  /\ InLoop
  /\ ~ Resident(ScanPage)
  /\ freeFrames = {}
  /\ \E f \in Frames :
       /\ IsVictim(f)
       /\ pageTable' =
            [p \in Pages |-> CASE p = ScanPage      -> f
                               [] p = frameTable[f] -> None
                               [] OTHER             -> pageTable[p]]
       /\ frameTable'     = [frameTable EXCEPT ![f] = ScanPage]
       /\ fifoFrames'     = Append(Without(fifoFrames, {f}), f)
       /\ physicalMemory' = [physicalMemory EXCEPT
                               ![f] = Loaded(StoreVictim(f), ScanPage)]
       /\ pages'          = StoreWithout(StoreVictim(f), ScanPage)
       /\ Pin(f, TRUE)
  /\ UNCHANGED freeFrames

(* pageIn() fails: every resident frame is pinned.  The attempt gives up   *)
(* the pages it had pinned so far.                                         *)
PageUnavailable ==
  /\ InLoop
  /\ ~ Resident(ScanPage)
  /\ freeFrames = {}
  /\ ~ \E f \in Frames : IsVictim(f)
  /\ pinnedFrames' = PinsWithout(running)
  /\ promised' = [promised EXCEPT ![running] = {}]
  /\ scan' = None
  /\ reply' = UNAVAILABLE
  /\ UNCHANGED <<memorySize, frameVars, pages, running, lastRead>>

(* The loop is over: ensureResident() returns.                             *)
Return ==
  /\ scan # None /\ ~ InLoop
  /\ scan' = None
  /\ reply' = IF scan.faulted THEN FAULTED ELSE RESIDENT
  /\ UNCHANGED <<memorySize, frameVars, pinnedFrames, pages, running,
                 lastRead, promised>>

(* executeStep() accesses words inside the address space, in the pages the *)
(* attempt asked for and got.                                              *)
CanAccess(a) ==
  /\ running # None /\ scan = None
  /\ reply \in {RESIDENT, FAULTED}
  /\ a + 2 <= memorySize[running]
  /\ {a \div FrameSize, (a + 1) \div FrameSize} \subseteq promised[running]

(* byteAt() finds the byte at a.                                           *)
HasByte(pid, a) == Resident(Page(pid, a))
ByteAt(pid, a)  == physicalMemory[pageTable[Page(pid, a)]][a % FrameSize]

(* A word is written only when nothing faulted; READ reads its word in the *)
(* attempt that faulted, and keeps it for the retry.                       *)
WriteWord(a, v) ==
  /\ CanAccess(a) /\ reply = RESIDENT
  /\ physicalMemory' =
       IF HasByte(running, a) /\ HasByte(running, a + 1)
       THEN [physicalMemory EXCEPT
               ![pageTable[Page(running, a)]][a % FrameSize] = v % ByteBase,
               ![pageTable[Page(running, a + 1)]][(a + 1) % FrameSize] =
                 v \div ByteBase]
       ELSE physicalMemory
  /\ UNCHANGED <<memorySize, pageTable, frameTable, freeFrames, fifoFrames,
                 pinnedFrames, pages, callVars, lastRead, promised>>

ReadWord(a) ==
  /\ CanAccess(a)
  /\ lastRead' = IF HasByte(running, a) /\ HasByte(running, a + 1)
                 THEN ByteAt(running, a) + ByteBase * ByteAt(running, a + 1)
                 ELSE 0
  /\ UNCHANGED <<memorySize, frameVars, pinnedFrames, pages, callVars, promised>>

(* Process::advance() returns; the pins outlive the attempt.               *)
EndAttempt ==
  /\ running # None /\ scan = None
  /\ running' = None
  /\ reply' = None
  /\ UNCHANGED <<memorySize, frameVars, pinnedFrames, pages, scan, lastRead,
                 promised>>

Next ==
  \/ \E pid \in Pids :
       \/ \E size \in MemSizes : CreateProcess(pid, size)
       \/ DestroyProcess(pid)
       \/ ReleasePins(pid)
       \/ BeginInstruction(pid)
  \/ /\ running # None
     /\ \E r \in Regions(memorySize[running]) : EnsureResident(r)
  \/ PageHit \/ PageInFree \/ PageInEvict \/ PageUnavailable \/ Return
  \/ \E a \in 0 .. MaxMemSize - 2 : ReadWord(a) \/ \E v \in Words : WriteWord(a, v)
  \/ EndAttempt

Spec == Init /\ [][Next]_vars

------------------------------------------------------------------------------
TypeOK ==
  /\ memorySize \in [Pids -> {0} \cup MemSizes]
  /\ pageTable \in [Pages -> Frames \cup {None}]
  /\ frameTable \in [Frames -> Pages \cup {None}]
  /\ freeFrames \in SUBSET Frames
  /\ fifoFrames \in Seq(Frames)
  /\ pinnedFrames \in SUBSET Frames
  /\ physicalMemory \in [Frames -> Contents]
  /\ pages \in [Pages -> Contents \cup {None}]
  /\ running \in Pids \cup {None}
  /\ scan \in [vpn : Nat, last : Nat, faulted : BOOLEAN] \cup {None}
  /\ reply \in {None, RESIDENT, FAULTED, UNAVAILABLE}
  /\ lastRead \in Words \cup {None}
  /\ promised \in [Pids -> SUBSET VPNs]

(* The frame table is the exact inverse of the page tables: no frame is    *)
(* claimed by two pages, of one process or of two, and no page table entry *)
(* of a dead process survives destroyProcess().                            *)
TablesMirror ==
  \A f \in Frames, p \in Pages : pageTable[p] = f <=> frameTable[f] = p

(* A frame is in freeFrameList or in fifoFrames, never in both, in neither *)
(* or twice in the queue, and in the queue exactly while a page occupies   *)
(* it: a frame lost by both lists would never be used again, one in both   *)
(* would be handed out while occupied.                                     *)
FramesAccounted ==
  /\ IsInjective(fifoFrames)
  /\ Range(fifoFrames) = Frames \ freeFrames
  /\ \A f \in Frames : f \in freeFrames <=> frameTable[f] = None

(* The page tables, the frame table, the free list and the queue describe  *)
(* one assignment of frames to pages.                                      *)
OneAssignment == TablesMirror /\ FramesAccounted

(* Every page of a live process is in exactly one place, a frame or the    *)
(* backing store, and no page of a dead process or beyond the page table   *)
(* is in either: the bytes of a page are never lost, never stale.          *)
PageInOnePlace ==
  \A p \in Pages :
    IF LivePage(p) THEN Resident(p) <=> pages[p] = None
                   ELSE ~ Resident(p) /\ pages[p] = None

PromisedPages == {p \in Pages : p[2] \in promised[p[1]]}

(* The pinned frames are exactly those of the pages some process was told  *)
(* it can use: a page made resident for an instruction stays resident      *)
(* until that process's next attempt, whatever the other cores do in       *)
(* between, and no frame stays pinned for a process that gave it up, left  *)
(* its core or died.                                                       *)
PinsMatchPromises == pinnedFrames = {pageTable[p] : p \in PromisedPages}

(* process-smi and vmstat agree: the resident sizes of the processes sum   *)
(* to the used memory (Scheduler.h, getMemoryProcesses).                   *)
ResidentSumsToUsed ==
  Cardinality({p \in Pages : LivePage(p) /\ Resident(p)}) * FrameSize = UsedMemory

(* A page request fails only because other processes hold frames for the   *)
(* instructions they are in the middle of; an admitted process is never    *)
(* blocked by its own pins or by pages that nobody is using.               *)
BlockedOnlyByOthers ==
  [][reply' = UNAVAILABLE /\ reply # UNAVAILABLE
       => \E pid \in Pids \ {running} : promised[pid] # {}]_vars

(***************************************************************************)
(* Refinement: the bytes of a process, wherever they are.                  *)
(***************************************************************************)
PageBytes(p) == IF Resident(p) THEN physicalMemory[pageTable[p]] ELSE pages[p]

FlatBytes ==
  [c \in Pids \X (0 .. MaxMemSize - 1) |->
     IF c[2] < memorySize[c[1]]
     THEN PageBytes(Page(c[1], c[2]))[c[2] % FrameSize]
     ELSE None]

(* No process has access to its memory while a page is being moved.        *)
Accessing == IF scan = None THEN running ELSE None

Flat == INSTANCE FlatMemory WITH
  mem <- FlatBytes, out <- lastRead, turn <- Accessing

(* Paging is invisible: to the processes the paged memory behaves as the   *)
(* flat one, and readWord() returns what writeWord() last put there.       *)
ImplementsFlatMemory == Flat!Spec
==============================================================================

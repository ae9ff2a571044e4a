------------------------ MODULE PagingAllocator_proofs ------------------------
(***************************************************************************)
(* The allocator's bookkeeping, for any number of processes and frames and *)
(* any page size.  Inv is the inductive invariant: its conjuncts need one  *)
(* another (the victim's page is live because it is resident, its pins are *)
(* nobody's because they mirror the promises, ...), so they are proved     *)
(* together, one lemma per action.                                         *)
(***************************************************************************)
EXTENDS ReplacementOrder, FifoQueue_proofs

(* Who is inside advance(), and what may be in progress there.             *)
CallsNested ==
  /\ running # None => Live(running) /\ Admitted(running)
  /\ running = None => scan = None /\ reply = None

Tables == TablesMirror /\ FramesAccounted /\ PageInOnePlace

Inv == TypeOK /\ CallsNested /\ Tables /\ PinsMatchPromises

------------------------------------------------------------------------------
(* A page table has a natural number of entries, at most that of the       *)
(* largest process, and none for a dead process.                           *)
LEMMA NumPagesBounds ==
  ASSUME NEW size \in 0 .. MaxMemSize
  PROVE  /\ NumPages(size) \in Nat
         /\ NumPages(size) <= NumPages(MaxMemSize)
         /\ NumPages(MaxMemSize) \in Nat
         /\ NumPages(0) = 0
  BY ConstantsAssumption DEF NumPages

(* The two bytes of a word are bytes.                                      *)
LEMMA WordBytes ==
  ASSUME NEW v \in Words
  PROVE  v % ByteBase \in 0 .. ByteBase - 1 /\ v \div ByteBase \in 0 .. ByteBase - 1
<1> DEFINE q == v \div ByteBase
<1>1. ByteBase \in Nat \ {0} /\ v \in Int /\ 0 <= v /\ v < ByteBase * ByteBase
  BY ConstantsAssumption DEF Words
<1>2. v % ByteBase \in 0 .. ByteBase - 1 /\ q \in Int /\ v = ByteBase * q + (v % ByteBase)
  BY <1>1
<1> HIDE DEF q
<1>3. 0 <= q
  BY <1>1, <1>2
<1>4. q < ByteBase
  BY <1>1, <1>2
<1> QED
  BY <1>1, <1>2, <1>3, <1>4 DEF q

(* Two bytes make a word.                                                  *)
LEMMA BytesWord ==
  ASSUME NEW lo \in 0 .. ByteBase - 1, NEW hi \in 0 .. ByteBase - 1
  PROVE  lo + ByteBase * hi \in Words
<1>1. ByteBase \in Nat \ {0}
  BY ConstantsAssumption
<1>2. ByteBase * hi <= ByteBase * (ByteBase - 1) /\ 0 <= ByteBase * hi
  BY <1>1
<1>3. ByteBase * (ByteBase - 1) = (ByteBase * ByteBase) - ByteBase
  BY <1>1
<1> QED
  BY <1>1, <1>2, <1>3 DEF Words

(* A process is at most MAX_MEM_SIZE large.                                *)
LEMMA SizeBounded ==
  ASSUME TypeOK, NEW pid \in Pids
  PROVE  memorySize[pid] \in 0 .. MaxMemSize
<1>1. memorySize[pid] \in {0} \cup MemSizes
  BY DEF TypeOK
<1>2. MaxMemSize \in Nat /\ \A m \in MemSizes : m \in 1 .. MaxMemSize
  BY ConstantsAssumption
<1>3. CASE memorySize[pid] = 0
  BY <1>2, <1>3
<1>4. CASE memorySize[pid] \in MemSizes
  BY <1>2, <1>4
<1> QED
  BY <1>1, <1>3, <1>4

(* The page the loop of ensureResident() is at is a page of a live process.*)
LEMMA ScanPageIsPage ==
  ASSUME Inv, InLoop
  PROVE  /\ running \in Pids /\ scan.vpn \in VPNs
         /\ ScanPage \in Pages /\ LivePage(ScanPage)
         /\ scan \in [vpn : Nat, last : Nat, faulted : BOOLEAN]
<1>1. scan \in [vpn : Nat, last : Nat, faulted : BOOLEAN] /\ running \in Pids
  BY DEF Inv, TypeOK, CallsNested, InLoop
<1>2. memorySize[running] \in 0 .. MaxMemSize
  BY <1>1, SizeBounded DEF Inv
<1>3. scan.vpn \in VPNs
  BY <1>1, <1>2, NumPagesBounds DEF InLoop, VPNs
<1> QED
  BY <1>1, <1>3 DEF ScanPage, Pages, LivePage, InLoop

------------------------------------------------------------------------------
(* The tables are one assignment, of which FifoQueue_proofs tells what     *)
(* giving back and taking frames leaves.                                   *)
LEMMA TablesAreOne ==
  ASSUME Inv
  PROVE  OneTable(Frames, Pages, None, pageTable, frameTable, freeFrames, fifoFrames)
  BY NoneAssumption DEF OneTable, Inv, TypeOK, Tables, TablesMirror, FramesAccounted

(* A step that touches none of the tables keeps them consistent.           *)
LEMMA TablesKept ==
  ASSUME Inv,
         UNCHANGED <<memorySize, pageTable, frameTable, freeFrames, fifoFrames,
                     pages>>
  PROVE  Tables'
  BY DEF Inv, Tables, TablesMirror, FramesAccounted, PageInOnePlace, LivePage,
         Resident

(* Releasing the pins of one process takes back its promises only.         *)
LEMMA PinsReleased ==
  ASSUME Inv, NEW pid \in Pids,
         pinnedFrames' = PinsWithout(pid),
         promised' = [promised EXCEPT ![pid] = {}],
         UNCHANGED pageTable
  PROVE  PinsMatchPromises'
<1>1. promised \in [Pids -> SUBSET VPNs]
  BY DEF Inv, TypeOK
<1>2. PromisedPages' = {p \in PromisedPages : p[1] # pid}
  BY <1>1 DEF PromisedPages, Pages
<1>3. ASSUME NEW p \in PromisedPages
      PROVE  /\ pageTable[p] \in pinnedFrames /\ frameTable[pageTable[p]] = p
             /\ p \in Pages
  <2>1. p \in Pages /\ pageTable[p] \in pinnedFrames
    BY DEF Inv, PinsMatchPromises, PromisedPages
  <2>2. pageTable[p] \in Frames
    BY <2>1 DEF Inv, TypeOK
  <2> QED
    BY <2>1, <2>2 DEF Inv, Tables, TablesMirror
<1>4. \A f \in pinnedFrames : \E p \in PromisedPages : f = pageTable[p]
  BY DEF Inv, PinsMatchPromises
<1>5. PinsWithout(pid) = {pageTable[p] : p \in {q \in PromisedPages : q[1] # pid}}
  BY <1>3, <1>4, NoneAssumption DEF PinsWithout
<1> QED
  BY <1>2, <1>5 DEF PinsMatchPromises

(* Pinning a page the loop made resident adds its promise, provided no     *)
(* promised page was moved.                                                *)
LEMMA PinAdded ==
  ASSUME Inv, InLoop, NEW f, NEW fault, Pin(f, fault),
         pageTable'[ScanPage] = f,
         \A p \in PromisedPages : pageTable'[p] = pageTable[p]
  PROVE  PinsMatchPromises'
<1>1. promised \in [Pids -> SUBSET VPNs]
  BY DEF Inv, TypeOK
<1>2. PromisedPages' = PromisedPages \cup {ScanPage}
  BY <1>1, ScanPageIsPage DEF PromisedPages, Pages, Pin, ScanPage
<1> QED
  BY <1>2 DEF PinsMatchPromises, Pin, Inv

------------------------------------------------------------------------------
(* createProcess() only adds stored pages, of a process that had none.     *)
LEMMA CreateProcessTables ==
  ASSUME Inv, NEW pid \in Pids, NEW size \in MemSizes, CreateProcess(pid, size)
  PROVE  Tables' /\ PinsMatchPromises'
<1>1. /\ memorySize \in [Pids -> {0} \cup MemSizes]
      /\ memorySize[pid] = 0 /\ NumPages(0) = 0
  BY NumPagesBounds, ConstantsAssumption DEF Inv, TypeOK, CreateProcess, Live
<1>2. \A p \in Pages : p[1] = pid => ~ LivePage(p) /\ ~ Resident(p) /\ pages[p] = None
  BY <1>1 DEF Inv, Tables, PageInOnePlace, LivePage, Pages, VPNs
<1>3. ZeroPage # None
  BY NoneAssumption, ConstantsAssumption DEF ZeroPage, Contents
<1>4. ASSUME NEW p \in Pages
      PROVE  IF LivePage(p)' THEN Resident(p)' <=> pages'[p] = None
                             ELSE ~ Resident(p)' /\ pages'[p] = None
  <2>1. CASE p[1] = pid
    BY <1>1, <1>2, <1>3, <2>1 DEF CreateProcess, LivePage, Resident, frameVars
  <2>2. CASE p[1] # pid
    <3>1. p[1] \in Pids
      BY DEF Pages
    <3>2. memorySize'[p[1]] = memorySize[p[1]] /\ pages'[p] = pages[p]
      BY <1>1, <2>2, <3>1 DEF CreateProcess
    <3> QED
      BY <3>2 DEF CreateProcess, Inv, Tables, PageInOnePlace, LivePage, Resident,
         frameVars
  <2> QED
    BY <2>1, <2>2
<1>5. PageInOnePlace'
  BY <1>4 DEF PageInOnePlace
<1>6. TablesMirror' /\ FramesAccounted' /\ PinsMatchPromises'
  BY DEF CreateProcess, Inv, Tables, TablesMirror, FramesAccounted,
     PinsMatchPromises, PromisedPages, frameVars
<1> QED
  BY <1>5, <1>6 DEF Tables

(* destroyProcess() gives back exactly the dead process's frames, and      *)
(* leaves none of them queued, pinned or mapped.                           *)
LEMMA DestroyProcessTables ==
  ASSUME Inv, NEW pid \in Pids, DestroyProcess(pid)
  PROVE  Tables' /\ PinsMatchPromises'
<1> DEFINE D == FramesOf(pid)
<1>1. /\ memorySize \in [Pids -> {0} \cup MemSizes]
      /\ pageTable \in [Pages -> Frames \cup {None}]
      /\ frameTable \in [Frames -> Pages \cup {None}]
      /\ freeFrames \subseteq Frames /\ fifoFrames \in Seq(Frames)
      /\ pinnedFrames \subseteq Frames
      /\ promised \in [Pids -> SUBSET VPNs]
      /\ None \notin Frames /\ None \notin Pages
  BY NoneAssumption DEF Inv, TypeOK
<1>2. \A f \in Frames : f \in D <=> \E p \in Pages : p[1] = pid /\ pageTable[p] = f
  <2>1. \A p \in Pages : p[1] = pid => p[2] \in VPNs /\ p = <<pid, p[2]>>
    BY DEF Pages
  <2>2. \A v \in VPNs : <<pid, v>> \in Pages /\ <<pid, v>>[1] = pid
    BY DEF Pages
  <2> QED
    BY <2>1, <2>2 DEF FramesOf
<1>3. \A f \in Frames, p \in Pages : pageTable[p] = f <=> frameTable[f] = p
  BY DEF Inv, Tables, TablesMirror
<1>4. D \subseteq Frames
  BY DEF FramesOf
<1>5. /\ memorySize' = [memorySize EXCEPT ![pid] = 0]
      /\ pageTable' = [p \in Pages |-> IF p[1] = pid THEN None ELSE pageTable[p]]
      /\ frameTable' = [f \in Frames |-> IF f \in D THEN None ELSE frameTable[f]]
      /\ freeFrames' = freeFrames \cup D
      /\ fifoFrames' = Without(fifoFrames, D)
      /\ pinnedFrames' = pinnedFrames \ D
      /\ pages' = [p \in Pages |-> IF p[1] = pid THEN None ELSE pages[p]]
      /\ promised' = [promised EXCEPT ![pid] = {}]
  BY DEF DestroyProcess, ReturnedFrames, FifoAfterDestroy, PinsAfterDestroy
<1> HIDE DEF D
<1>6. /\ pageTable' = [p \in Pages |-> IF pageTable[p] \in D THEN None ELSE pageTable[p]]
      /\ frameTable' = [f \in Frames |-> IF f \in D THEN None ELSE frameTable[f]]
  <2>1. \A p \in Pages : p[1] = pid <=> pageTable[p] \in D \/ (p[1] = pid /\ pageTable[p] = None)
    BY <1>1, <1>2, <1>3, <1>4
  <2> QED
    BY <1>1, <1>5, <2>1
<1>7. TablesMirror' /\ FramesAccounted'
  <2>1. D \in SUBSET Frames
    BY <1>4
  <2>2. OneTable(Frames, Pages, None, pageTable', frameTable', freeFrames', fifoFrames')
    BY <2>1, <1>5, <1>6, TablesAreOne, FramesGivenBack
  <2> QED
    BY <2>2 DEF OneTable, TablesMirror, FramesAccounted
<1>8. PageInOnePlace'
  <2> SUFFICES ASSUME NEW p \in Pages
               PROVE  IF LivePage(p)' THEN Resident(p)' <=> pages'[p] = None
                                      ELSE ~ Resident(p)' /\ pages'[p] = None
    BY DEF PageInOnePlace
  <2>1. p[1] \in Pids /\ p[2] \in VPNs /\ NumPages(0) = 0
    BY NumPagesBounds, ConstantsAssumption DEF Pages
  <2>2. CASE p[1] = pid
    BY <1>1, <1>5, <2>1, <2>2 DEF LivePage, Resident, VPNs
  <2>3. CASE p[1] # pid
    <3>1. /\ memorySize'[p[1]] = memorySize[p[1]]
          /\ pages'[p] = pages[p] /\ pageTable'[p] = pageTable[p]
      BY <1>1, <1>5, <2>1, <2>3
    <3> QED
      BY <3>1 DEF Inv, Tables, PageInOnePlace, LivePage, Resident
  <2> QED
    BY <2>2, <2>3
<1>9. PinsMatchPromises'
  <2>1. PromisedPages' = {p \in PromisedPages : p[1] # pid}
    BY <1>1, <1>5 DEF PromisedPages, Pages
  <2>2. pinnedFrames = {pageTable[p] : p \in PromisedPages}
    BY DEF Inv, PinsMatchPromises
  <2>3. \A p \in PromisedPages : p \in Pages /\ pageTable[p] \in Frames
    BY <1>1, <2>2 DEF PromisedPages
  <2>4. \A p \in PromisedPages : pageTable[p] \in D <=> p[1] = pid
    <3>1. \A p \in PromisedPages : frameTable[pageTable[p]] = p
      BY <1>3, <2>3
    <3>2. \A p \in PromisedPages, q \in Pages : pageTable[q] = pageTable[p] => q = p
      BY <1>3, <2>3, <3>1
    <3> QED
      BY <1>2, <2>3, <3>2
  <2>5. \A p \in PromisedPages' : pageTable'[p] = pageTable[p]
    BY <1>5, <2>1, <2>3
  <2>6. pinnedFrames \ D = {pageTable[p] : p \in {q \in PromisedPages : q[1] # pid}}
    BY <2>2, <2>4
  <2>7. {pageTable'[p] : p \in PromisedPages'}
          = {pageTable[p] : p \in {q \in PromisedPages : q[1] # pid}}
    BY <2>1, <2>5
  <2>8. pinnedFrames' = pinnedFrames \ D
    BY <1>5
  <2> QED
    BY <2>6, <2>7, <2>8 DEF PinsMatchPromises
<1> QED
  BY <1>7, <1>8, <1>9 DEF Tables

(* A step that only touches what is inside advance() or the bytes of the   *)
(* frames keeps the tables and the pins.                                   *)
LEMMA NothingMoved ==
  ASSUME Inv,
         UNCHANGED <<memorySize, pageTable, frameTable, freeFrames, fifoFrames,
                     pages, pinnedFrames, promised>>
  PROVE  Tables' /\ PinsMatchPromises'
<1>1. Tables'
  BY TablesKept
<1>2. PinsMatchPromises'
  BY DEF Inv, PinsMatchPromises, PromisedPages
<1> QED
  BY <1>1, <1>2

(* A page found resident is pinned and nothing moves.                      *)
LEMMA PageHitTables ==
  ASSUME Inv, PageHit
  PROVE  Tables' /\ PinsMatchPromises'
<1>1. Tables'
  BY TablesKept DEF PageHit, Pin, frameVars
<1>2. PinsMatchPromises'
  <2>1. InLoop /\ Pin(pageTable[ScanPage], FALSE) /\ UNCHANGED pageTable
    BY DEF PageHit, frameVars
  <2> QED
    BY <2>1, PinAdded
<1> QED
  BY <1>1, <1>2

(* pageIn() into a free frame: the page moves from the store to a frame    *)
(* that no page occupied.                                                  *)
LEMMA PageInFreeTables ==
  ASSUME Inv, PageInFree
  PROVE  Tables' /\ PinsMatchPromises'
<1>1. /\ InLoop /\ ~ Resident(ScanPage)
      /\ ScanPage \in Pages /\ LivePage(ScanPage)
  BY ScanPageIsPage DEF PageInFree
<1>2. PICK f \in freeFrames :
        /\ freeFrames' = freeFrames \ {f}
        /\ pageTable'  = [pageTable EXCEPT ![ScanPage] = f]
        /\ frameTable' = [frameTable EXCEPT ![f] = ScanPage]
        /\ fifoFrames' = Append(fifoFrames, f)
        /\ pages'      = [pages EXCEPT ![ScanPage] = None]
        /\ Pin(f, TRUE)
  BY DEF PageInFree, StoreWithout
<1>3. /\ pageTable \in [Pages -> Frames \cup {None}]
      /\ frameTable \in [Frames -> Pages \cup {None}]
      /\ pages \in [Pages -> Contents \cup {None}]
      /\ freeFrames \subseteq Frames /\ fifoFrames \in Seq(Frames)
      /\ None \notin Frames /\ None \notin Pages
  BY NoneAssumption DEF Inv, TypeOK
<1>4. /\ \A g \in Frames, p \in Pages : pageTable[p] = g <=> frameTable[g] = p
      /\ IsInjective(fifoFrames) /\ Range(fifoFrames) = Frames \ freeFrames
      /\ \A g \in Frames : g \in freeFrames <=> frameTable[g] = None
  BY DEF Inv, Tables, TablesMirror, FramesAccounted
<1>5. f \in Frames /\ frameTable[f] = None /\ pageTable[ScanPage] = None
  BY <1>1, <1>3, <1>4 DEF Resident
<1>6. UNCHANGED memorySize
  BY <1>2 DEF Pin
<1>7. TablesMirror' /\ FramesAccounted'
  <2>1. OneTable(Frames, Pages, None, pageTable', frameTable', freeFrames', fifoFrames')
    BY <1>1, <1>2, <1>5, TablesAreOne, FrameTaken
  <2> QED
    BY <2>1 DEF OneTable, TablesMirror, FramesAccounted
<1>9. PageInOnePlace'
  <2> SUFFICES ASSUME NEW p \in Pages
               PROVE  IF LivePage(p)' THEN Resident(p)' <=> pages'[p] = None
                                      ELSE ~ Resident(p)' /\ pages'[p] = None
    BY DEF PageInOnePlace
  <2>1. LivePage(p)' <=> LivePage(p)
    BY <1>6 DEF LivePage
  <2>2. CASE p = ScanPage
    BY <1>1, <1>2, <1>3, <1>5, <2>1, <2>2 DEF Resident
  <2>3. CASE p # ScanPage
    <3>1. pageTable'[p] = pageTable[p] /\ pages'[p] = pages[p]
      BY <1>2, <1>3, <2>3
    <3> QED
      BY <2>1, <3>1 DEF Inv, Tables, PageInOnePlace, Resident
  <2> QED
    BY <2>2, <2>3
<1>10. PinsMatchPromises'
  <2>1. \A p \in PromisedPages : p \in Pages /\ pageTable[p] # None
    BY <1>3 DEF Inv, TypeOK, PinsMatchPromises, PromisedPages
  <2>2. \A p \in PromisedPages : pageTable'[p] = pageTable[p]
    BY <1>2, <1>3, <1>5, <2>1
  <2>3. pageTable'[ScanPage] = f
    BY <1>1, <1>2, <1>3
  <2> QED
    BY <1>1, <1>2, <2>2, <2>3, PinAdded
<1> QED
  BY <1>7, <1>9, <1>10 DEF Tables

(* What pageIn() over a victim does: the victim's page, a live one that    *)
(* nobody was promised, goes from its frame to the store, and the frame to *)
(* the page asked for.                                                     *)
LEMMA EvictMoves ==
  ASSUME Inv, PageInEvict
  PROVE  \E f \in Frames, q \in Pages :
           /\ frameTable[f] = q /\ pageTable[q] = f /\ LivePage(q)
           /\ f \notin pinnedFrames /\ f \notin freeFrames
           /\ q # ScanPage /\ pageTable[ScanPage] = None
           /\ pageTable'[ScanPage] = f /\ pages'[ScanPage] = None
           /\ pageTable'[q] = None /\ pages'[q] = physicalMemory[f]
           /\ \A p \in Pages \ {ScanPage, q} :
                pageTable'[p] = pageTable[p] /\ pages'[p] = pages[p]
           /\ frameTable'[f] = ScanPage
           /\ physicalMemory'[f] = Loaded(pages, ScanPage)
           /\ \A g \in Frames \ {f} : /\ frameTable'[g] = frameTable[g]
                                      /\ physicalMemory'[g] = physicalMemory[g]
           /\ fifoFrames' = Append(Without(fifoFrames, {f}), f)
           /\ Pin(f, TRUE)
           /\ UNCHANGED freeFrames
<1>1. /\ ~ Resident(ScanPage)
      /\ ScanPage \in Pages /\ LivePage(ScanPage)
  BY ScanPageIsPage DEF PageInEvict
<1>2. PICK f \in Frames :
        /\ IsVictim(f)
        /\ pageTable' =
             [p \in Pages |-> CASE p = ScanPage      -> f
                                [] p = frameTable[f] -> None
                                [] OTHER             -> pageTable[p]]
        /\ frameTable' = [frameTable EXCEPT ![f] = ScanPage]
        /\ fifoFrames' = Append(Without(fifoFrames, {f}), f)
        /\ physicalMemory' = [physicalMemory EXCEPT
                                ![f] = Loaded(StoreVictim(f), ScanPage)]
        /\ pages'      = [StoreVictim(f) EXCEPT ![ScanPage] = None]
        /\ Pin(f, TRUE)
  BY DEF PageInEvict, StoreWithout
<1> DEFINE sp == ScanPage
           q == frameTable[f]
<1>3. /\ pageTable \in [Pages -> Frames \cup {None}]
      /\ frameTable \in [Frames -> Pages \cup {None}]
      /\ pages \in [Pages -> Contents \cup {None}]
      /\ physicalMemory \in [Frames -> Contents]
      /\ memorySize \in [Pids -> {0} \cup MemSizes]
      /\ freeFrames \subseteq Frames
      /\ None \notin Frames /\ None \notin Pages
  BY NoneAssumption DEF Inv, TypeOK
<1>4. /\ \A g \in Frames, p \in Pages : pageTable[p] = g <=> frameTable[g] = p
      /\ Range(fifoFrames) = Frames \ freeFrames
      /\ \A g \in Frames : g \in freeFrames <=> frameTable[g] = None
  BY DEF Inv, Tables, TablesMirror, FramesAccounted
<1>5. f \in Range(fifoFrames) /\ f \notin pinnedFrames
  BY <1>2 DEF IsVictim, IsFirstOutside, Range
<1>6. /\ q \in Pages /\ pageTable[q] = f /\ LivePage(q)
      /\ q # sp /\ pageTable[sp] = None
  <2>1. q \in Pages /\ pageTable[q] = f
    BY <1>3, <1>4, <1>5
  <2>2. Resident(q)
    BY <1>3, <2>1 DEF Resident
  <2>3. LivePage(q)
    BY <2>1, <2>2 DEF Inv, Tables, PageInOnePlace
  <2> QED
    BY <1>1, <2>1, <2>2, <2>3 DEF Resident
<1>7. ~ Stale(f)
  <2>1. NumPages(0) = 0 /\ q[1] \in Pids /\ q[2] \in VPNs
    BY <1>6, NumPagesBounds, ConstantsAssumption DEF Pages
  <2> QED
    BY <1>3, <1>6, <2>1 DEF Stale, Live, LivePage, VPNs
<1>8. StoreVictim(f) = [pages EXCEPT ![q] = physicalMemory[f]]
  BY <1>7 DEF StoreVictim
<1>9. StoreVictim(f)[sp] = pages[sp]
  BY <1>1, <1>3, <1>6, <1>8
<1>10. /\ pageTable'[sp] = f /\ pages'[sp] = None
       /\ pageTable'[q] = None /\ pages'[q] = physicalMemory[f]
       /\ \A p \in Pages \ {sp, q} :
            pageTable'[p] = pageTable[p] /\ pages'[p] = pages[p]
  BY <1>1, <1>2, <1>3, <1>6, <1>8
<1>11. /\ frameTable'[f] = sp
       /\ physicalMemory'[f] = Loaded(pages, sp)
       /\ \A g \in Frames \ {f} : /\ frameTable'[g] = frameTable[g]
                                  /\ physicalMemory'[g] = physicalMemory[g]
  BY <1>2, <1>3, <1>9 DEF Loaded
<1>12. UNCHANGED freeFrames /\ f \notin freeFrames
  BY <1>4, <1>5 DEF PageInEvict
<1> QED
  BY <1>2, <1>5, <1>6, <1>10, <1>11, <1>12

(* ... and so the tables stay consistent and no promise is broken.         *)
LEMMA PageInEvictTables ==
  ASSUME Inv, PageInEvict
  PROVE  Tables' /\ PinsMatchPromises'
<1> DEFINE sp == ScanPage
<1>1. InLoop /\ sp \in Pages /\ LivePage(sp)
  BY ScanPageIsPage DEF PageInEvict
<1>2. PICK f \in Frames, q \in Pages :
        /\ frameTable[f] = q /\ pageTable[q] = f /\ LivePage(q)
        /\ f \notin pinnedFrames /\ f \notin freeFrames
        /\ q # sp /\ pageTable[sp] = None
        /\ pageTable'[sp] = f /\ pages'[sp] = None
        /\ pageTable'[q] = None /\ pages'[q] = physicalMemory[f]
        /\ \A p \in Pages \ {sp, q} :
             pageTable'[p] = pageTable[p] /\ pages'[p] = pages[p]
        /\ frameTable'[f] = sp
        /\ \A g \in Frames \ {f} : frameTable'[g] = frameTable[g]
        /\ fifoFrames' = Append(Without(fifoFrames, {f}), f)
        /\ Pin(f, TRUE)
        /\ UNCHANGED freeFrames
  BY EvictMoves
<1>3. /\ physicalMemory \in [Frames -> Contents]
      /\ fifoFrames \in Seq(Frames) /\ pinnedFrames \subseteq Frames
      /\ None \notin Frames /\ None \notin Pages /\ None \notin Contents
  BY NoneAssumption DEF Inv, TypeOK
<1>4. /\ \A g \in Frames, p \in Pages : pageTable[p] = g <=> frameTable[g] = p
      /\ IsInjective(fifoFrames) /\ Range(fifoFrames) = Frames \ freeFrames
      /\ \A g \in Frames : g \in freeFrames <=> frameTable[g] = None
  BY DEF Inv, Tables, TablesMirror, FramesAccounted
<1>5. UNCHANGED memorySize
  BY <1>2 DEF Pin
<1> HIDE DEF sp
<1>6. TablesMirror'
  <2> SUFFICES ASSUME NEW g \in Frames, NEW p \in Pages
               PROVE  pageTable'[p] = g <=> frameTable'[g] = p
    BY DEF TablesMirror
  <2>1. CASE p = sp
    BY <1>2, <1>3, <1>4, <2>1
  <2>2. CASE p = q
    BY <1>2, <1>3, <1>4, <2>2
  <2>3. CASE p \notin {sp, q}
    BY <1>2, <1>3, <1>4, <2>3
  <2> QED
    BY <2>1, <2>2, <2>3
<1>7. FramesAccounted'
  <2> DEFINE w == Without(fifoFrames, {f})
  <2>1. w \in Seq(Frames) /\ IsInjective(w) /\ Range(w) = Range(fifoFrames) \ {f}
    BY <1>3, <1>4, WithoutRange, WithoutInjective
  <2>2. fifoFrames' = Append(w, f)
    BY <1>2
  <2> HIDE DEF w
  <2>3. IsInjective(fifoFrames') /\ Range(fifoFrames') = Range(w) \cup {f}
    BY <2>1, <2>2, AppendNew
  <2>4. Range(fifoFrames') = Frames \ freeFrames'
    <3>1. f \notin freeFrames /\ freeFrames' = freeFrames
      BY <1>2
    <3> QED
      BY <1>4, <2>1, <2>3, <3>1
  <2>5. \A g \in Frames : g \in freeFrames' <=> frameTable'[g] = None
    BY <1>1, <1>2, <1>3, <1>4
  <2> QED
    BY <2>3, <2>4, <2>5 DEF FramesAccounted
<1>8. PageInOnePlace'
  <2> SUFFICES ASSUME NEW p \in Pages
               PROVE  IF LivePage(p)' THEN Resident(p)' <=> pages'[p] = None
                                      ELSE ~ Resident(p)' /\ pages'[p] = None
    BY DEF PageInOnePlace
  <2>1. LivePage(p)' <=> LivePage(p)
    BY <1>5 DEF LivePage
  <2>2. CASE p = sp
    BY <1>1, <1>2, <1>3, <2>1, <2>2 DEF Resident
  <2>3. CASE p = q
    BY <1>2, <1>3, <2>1, <2>3 DEF Resident
  <2>4. CASE p \notin {sp, q}
    BY <1>2, <2>1, <2>4 DEF Inv, Tables, PageInOnePlace, Resident
  <2> QED
    BY <2>2, <2>3, <2>4
<1>9. PinsMatchPromises'
  <2>1. \A p \in PromisedPages : p \in Pages /\ pageTable[p] \in pinnedFrames
    BY DEF Inv, PinsMatchPromises, PromisedPages
  <2>2. \A p \in PromisedPages : p \in Pages \ {sp, q}
    BY <1>2, <1>3, <2>1
  <2>3. \A p \in PromisedPages : pageTable'[p] = pageTable[p]
    BY <1>2, <2>2
  <2> QED
    BY <1>1, <1>2, <2>3, PinAdded DEF sp
<1> QED
  BY <1>6, <1>7, <1>8, <1>9 DEF Tables

------------------------------------------------------------------------------
(* What the loop of ensureResident() pins and counts keeps its type.       *)
LEMMA PinType ==
  ASSUME Inv, InLoop, NEW f \in Frames, NEW fault \in BOOLEAN, Pin(f, fault)
  PROVE  /\ pinnedFrames' \in SUBSET Frames
         /\ promised' \in [Pids -> SUBSET VPNs]
         /\ scan' \in [vpn : Nat, last : Nat, faulted : BOOLEAN] \cup {None}
         /\ UNCHANGED <<memorySize, running, reply, lastRead>>
<1>1. /\ scan \in [vpn : Nat, last : Nat, faulted : BOOLEAN]
      /\ scan.vpn \in VPNs /\ running \in Pids
  BY ScanPageIsPage
<1>2. /\ scan.vpn + 1 \in Nat /\ scan.last \in Nat
      /\ (scan.faulted \/ fault) \in BOOLEAN
  BY <1>1
<1>3. scan' \in [vpn : Nat, last : Nat, faulted : BOOLEAN]
  BY <1>2 DEF Pin
<1> QED
  BY <1>1, <1>3 DEF Inv, TypeOK, Pin

(* What is loaded into a frame, and what a paged-out store holds.          *)
LEMMA StoreTypes ==
  ASSUME NEW store \in [Pages -> Contents \cup {None}], NEW p \in Pages
  PROVE  /\ Loaded(store, p) \in Contents
         /\ StoreWithout(store, p) \in [Pages -> Contents \cup {None}]
         /\ ZeroPage \in Contents
<1>1. ZeroPage \in Contents
  BY ConstantsAssumption DEF ZeroPage, Contents
<1> QED
  BY <1>1 DEF Loaded, StoreWithout

(* The answers of the allocator are type correct.                          *)
LEMMA CallTypes ==
  ASSUME Inv, Return \/ PageUnavailable
  PROVE  TypeOK'
<1>1. CASE Return
  BY <1>1 DEF Inv, TypeOK, Return, frameVars
<1>2. CASE PageUnavailable
  BY <1>2 DEF Inv, TypeOK, PageUnavailable, PinsWithout, frameVars
<1> QED
  BY <1>1, <1>2

(* A request's page range is a range of naturals, its region being within  *)
(* a live process.                                                         *)
LEMMA EnsureResidentTypes ==
  ASSUME Inv, running # None, NEW r \in Regions(memorySize[running]),
         EnsureResident(r)
  PROVE  TypeOK'
<1>1. memorySize[running] \in 1 .. MaxMemSize
  BY SizeBounded DEF Inv, TypeOK, CallsNested, Live
<1>2. r.addr \in Nat /\ r.len \in Nat \ {0}
  BY <1>1, ConstantsAssumption DEF Regions, SymbolRegion
<1>3. r.addr + r.len - 1 \in Nat
  BY <1>2
<1> DEFINE first == r.addr \div FrameSize
           last  == (r.addr + r.len - 1) \div FrameSize
<1>4. first \in Nat /\ last \in Nat
  BY <1>2, <1>3, ConstantsAssumption
<1>5. scan' = [vpn |-> first, last |-> last, faulted |-> FALSE]
  BY DEF EnsureResident
<1> HIDE DEF first, last
<1>6. scan' \in [vpn : Nat, last : Nat, faulted : BOOLEAN]
  BY <1>4, <1>5
<1> QED
  BY <1>6 DEF Inv, TypeOK, EnsureResident, frameVars

(* A page table and its frame keep their types when a page comes in.       *)
LEMMA PageInTypes ==
  ASSUME Inv, PageHit \/ PageInFree \/ PageInEvict
  PROVE  TypeOK'
<1>1. /\ pageTable \in [Pages -> Frames \cup {None}]
      /\ frameTable \in [Frames -> Pages \cup {None}]
      /\ pages \in [Pages -> Contents \cup {None}]
      /\ physicalMemory \in [Frames -> Contents]
      /\ freeFrames \subseteq Frames /\ fifoFrames \in Seq(Frames)
  BY DEF Inv, TypeOK
<1>2. InLoop /\ ScanPage \in Pages
  BY ScanPageIsPage DEF PageHit, PageInFree, PageInEvict
<1>3. CASE PageHit
  <2>1. pageTable[ScanPage] \in Frames
    BY <1>1, <1>2, <1>3 DEF PageHit, Resident
  <2>2. Pin(pageTable[ScanPage], FALSE) /\ UNCHANGED <<frameVars, pages>>
    BY <1>3 DEF PageHit
  <2>3. /\ pinnedFrames' \in SUBSET Frames
        /\ promised' \in [Pids -> SUBSET VPNs]
        /\ scan' \in [vpn : Nat, last : Nat, faulted : BOOLEAN] \cup {None}
        /\ UNCHANGED <<memorySize, running, reply, lastRead>>
    BY <1>2, <2>1, <2>2, PinType
  <2> QED
    BY <2>2, <2>3 DEF Inv, TypeOK, frameVars
<1>4. CASE PageInFree
  <2>1. PICK f \in freeFrames :
          /\ freeFrames'     = freeFrames \ {f}
          /\ pageTable'      = [pageTable EXCEPT ![ScanPage] = f]
          /\ frameTable'     = [frameTable EXCEPT ![f] = ScanPage]
          /\ fifoFrames'     = Append(fifoFrames, f)
          /\ physicalMemory' = [physicalMemory EXCEPT ![f] = Loaded(pages, ScanPage)]
          /\ pages'          = StoreWithout(pages, ScanPage)
          /\ Pin(f, TRUE)
    BY <1>4 DEF PageInFree
  <2>2. f \in Frames
    BY <1>1
  <2>3. /\ pinnedFrames' \in SUBSET Frames
        /\ promised' \in [Pids -> SUBSET VPNs]
        /\ scan' \in [vpn : Nat, last : Nat, faulted : BOOLEAN] \cup {None}
        /\ UNCHANGED <<memorySize, running, reply, lastRead>>
    BY <1>2, <2>1, <2>2, PinType
  <2>4. /\ Loaded(pages, ScanPage) \in Contents
        /\ pages' \in [Pages -> Contents \cup {None}]
    BY <1>1, <1>2, <2>1, StoreTypes
  <2>5. /\ freeFrames' \in SUBSET Frames
        /\ pageTable' \in [Pages -> Frames \cup {None}]
        /\ frameTable' \in [Frames -> Pages \cup {None}]
        /\ fifoFrames' \in Seq(Frames)
        /\ physicalMemory' \in [Frames -> Contents]
    BY <1>1, <1>2, <2>1, <2>2, <2>4
  <2> QED
    BY <2>3, <2>4, <2>5 DEF Inv, TypeOK
<1>5. CASE PageInEvict
  <2>1. PICK f \in Frames :
          /\ pageTable' =
               [p \in Pages |-> CASE p = ScanPage      -> f
                                  [] p = frameTable[f] -> None
                                  [] OTHER             -> pageTable[p]]
          /\ frameTable'     = [frameTable EXCEPT ![f] = ScanPage]
          /\ fifoFrames'     = Append(Without(fifoFrames, {f}), f)
          /\ physicalMemory' = [physicalMemory EXCEPT
                                  ![f] = Loaded(StoreVictim(f), ScanPage)]
          /\ pages'          = StoreWithout(StoreVictim(f), ScanPage)
          /\ Pin(f, TRUE)
    BY <1>5 DEF PageInEvict
  <2>2. StoreVictim(f) \in [Pages -> Contents \cup {None}]
    BY <1>1 DEF StoreVictim, Stale
  <2>3. /\ pinnedFrames' \in SUBSET Frames
        /\ promised' \in [Pids -> SUBSET VPNs]
        /\ scan' \in [vpn : Nat, last : Nat, faulted : BOOLEAN] \cup {None}
        /\ UNCHANGED <<memorySize, running, reply, lastRead>>
    BY <1>2, <2>1, PinType
  <2>4. /\ Loaded(StoreVictim(f), ScanPage) \in Contents
        /\ pages' \in [Pages -> Contents \cup {None}]
    BY <1>2, <2>1, <2>2, StoreTypes
  <2>5. Without(fifoFrames, {f}) \in Seq(Frames)
    BY <1>1, WithoutRange
  <2>6. /\ frameTable' \in [Frames -> Pages \cup {None}]
        /\ fifoFrames' \in Seq(Frames)
        /\ physicalMemory' \in [Frames -> Contents]
    BY <1>1, <1>2, <2>1, <2>4, <2>5
  <2>7. pageTable' \in [Pages -> Frames \cup {None}]
    BY <1>1, <2>1
  <2>8. freeFrames' \in SUBSET Frames
    BY <1>1, <1>5 DEF PageInEvict
  <2> QED
    BY <2>3, <2>4, <2>6, <2>7, <2>8 DEF Inv, TypeOK
<1> QED
  BY <1>3, <1>4, <1>5

(* The byte addresses an attempt may use are in pages.                     *)
LEMMA PagesAccessed ==
  ASSUME Inv, NEW a \in Nat, CanAccess(a)
  PROVE  a \div FrameSize \in VPNs /\ (a + 1) \div FrameSize \in VPNs
  BY DEF Inv, TypeOK, CanAccess

(* The bytes of a word are written as bytes, and two bytes read as a word. *)
LEMMA AccessTypes ==
  ASSUME Inv, NEW a \in 0 .. MaxMemSize - 2,
         ReadWord(a) \/ \E v \in Words : WriteWord(a, v)
  PROVE  TypeOK'
<1>1. /\ physicalMemory \in [Frames -> Contents]
      /\ pageTable \in [Pages -> Frames \cup {None}]
      /\ running \in Pids
  BY DEF Inv, TypeOK, ReadWord, WriteWord, CanAccess
<1>2. ASSUME NEW b \in {a, a + 1}, HasByte(running, b)
      PROVE  /\ pageTable[Page(running, b)] \in Frames
             /\ b % FrameSize \in 0 .. FrameSize - 1
             /\ ByteAt(running, b) \in 0 .. ByteBase - 1
  <2>1. b \in Nat /\ FrameSize \in Nat \ {0}
    BY ConstantsAssumption
  <2>2. b % FrameSize \in 0 .. FrameSize - 1 /\ b \div FrameSize \in Nat
    BY <2>1
  <2>3. b \div FrameSize \in VPNs
    <3>1. a \in Nat
      BY ConstantsAssumption
    <3>2. CanAccess(a)
      BY DEF ReadWord, WriteWord
    <3> QED
      BY <3>1, <3>2, PagesAccessed
  <2>4. pageTable[Page(running, b)] \in Frames
    BY <1>1, <1>2, <2>3 DEF HasByte, Resident, Page, Pages
  <2> QED
    BY <1>1, <2>2, <2>4 DEF ByteAt, Contents
<1>3. CASE ReadWord(a)
  <2>1. 0 \in Words
    BY ConstantsAssumption DEF Words
  <2>2. lastRead' \in Words
    BY <1>2, <1>3, <2>1, BytesWord DEF ReadWord
  <2> QED
    BY <1>3, <2>2 DEF Inv, TypeOK, ReadWord, frameVars, callVars
<1>4. CASE \E v \in Words : WriteWord(a, v)
  <2>1. PICK v \in Words : WriteWord(a, v)
    BY <1>4
  <2>2. physicalMemory' \in [Frames -> Contents]
    <3>1. CASE ~ (HasByte(running, a) /\ HasByte(running, a + 1))
      BY <1>1, <2>1, <3>1 DEF WriteWord
    <3>2. CASE HasByte(running, a) /\ HasByte(running, a + 1)
      <4> DEFINE f == pageTable[Page(running, a)]
                 g == pageTable[Page(running, a + 1)]
                 i == a % FrameSize
                 j == (a + 1) % FrameSize
                 lo == v % ByteBase
                 hi == v \div ByteBase
      <4>1. /\ f \in Frames /\ i \in 0 .. FrameSize - 1
            /\ g \in Frames /\ j \in 0 .. FrameSize - 1
        BY <1>2, <3>2
      <4>2. lo \in 0 .. ByteBase - 1 /\ hi \in 0 .. ByteBase - 1
        BY WordBytes
      <4>3. physicalMemory' = [physicalMemory EXCEPT ![f][i] = lo, ![g][j] = hi]
        BY <2>1, <3>2 DEF WriteWord
      <4> HIDE DEF f, g, i, j, lo, hi
      <4> QED
        BY <1>1, <4>1, <4>2, <4>3 DEF Contents
    <3> QED
      BY <3>1, <3>2
  <2> QED
    BY <2>1, <2>2 DEF Inv, TypeOK, WriteWord, callVars
<1> QED
  BY <1>3, <1>4

(* What the calls that name a process leave type correct.                  *)
LEMMA ProcessTypes ==
  ASSUME Inv, NEW pid \in Pids,
         \/ \E size \in MemSizes : CreateProcess(pid, size)
         \/ DestroyProcess(pid) \/ ReleasePins(pid) \/ BeginInstruction(pid)
         \/ EndAttempt
  PROVE  TypeOK'
<1>1. CASE \E size \in MemSizes : CreateProcess(pid, size)
  <2>1. PICK size \in MemSizes : CreateProcess(pid, size)
    BY <1>1
  <2>2. ZeroPage \in Contents
    BY ConstantsAssumption DEF ZeroPage, Contents
  <2>3. pages' \in [Pages -> Contents \cup {None}]
    BY <2>1, <2>2 DEF CreateProcess, Inv, TypeOK
  <2> QED
    BY <2>1, <2>3 DEF CreateProcess, Inv, TypeOK, frameVars, callVars
<1>2. CASE DestroyProcess(pid)
  <2>1. fifoFrames' \in Seq(Frames)
    BY <1>2, WithoutRange DEF DestroyProcess, FifoAfterDestroy, Inv, TypeOK
  <2>2. /\ pageTable' \in [Pages -> Frames \cup {None}]
        /\ frameTable' \in [Frames -> Pages \cup {None}]
        /\ pages' \in [Pages -> Contents \cup {None}]
    BY <1>2 DEF DestroyProcess, Inv, TypeOK
  <2>3. freeFrames' \in SUBSET Frames /\ pinnedFrames' \in SUBSET Frames
    BY <1>2 DEF DestroyProcess, Inv, TypeOK, ReturnedFrames, FramesOf,
       PinsAfterDestroy
  <2> QED
    BY <1>2, <2>1, <2>2, <2>3 DEF DestroyProcess, Inv, TypeOK, callVars
<1>3. CASE ReleasePins(pid)
  BY <1>3 DEF ReleasePins, PinsWithout, Inv, TypeOK, frameVars, callVars
<1>4. CASE BeginInstruction(pid)
  BY <1>4 DEF BeginInstruction, PinsWithout, Inv, TypeOK, frameVars
<1>5. CASE EndAttempt
  BY <1>5 DEF EndAttempt, Inv, TypeOK, frameVars
<1> QED
  BY <1>1, <1>2, <1>3, <1>4, <1>5

------------------------------------------------------------------------------
(* Only the process inside advance() has a request in progress, and it     *)
(* stays alive until it is out.                                            *)
LEMMA CallsStep ==
  ASSUME Inv, [Next]_vars
  PROVE  CallsNested'
<1> USE DEF Inv, CallsNested
<1>1. CASE UNCHANGED vars
  BY <1>1 DEF vars, callVars, Live, Admitted
<1>2. ASSUME NEW pid \in Pids,
             \/ \E size \in MemSizes : CreateProcess(pid, size)
             \/ DestroyProcess(pid) \/ ReleasePins(pid)
      PROVE  CallsNested'
  BY <1>2 DEF CreateProcess, DestroyProcess, ReleasePins, callVars
<1>3. ASSUME NEW pid \in Pids, BeginInstruction(pid)
      PROVE  CallsNested'
  BY <1>3, NoneAssumption DEF BeginInstruction, Live, Admitted
<1>4. ASSUME NEW r, EnsureResident(r)
      PROVE  CallsNested'
  BY <1>4 DEF EnsureResident, Live, Admitted
<1>5. CASE PageHit \/ PageInFree \/ PageInEvict
  BY <1>5 DEF PageHit, PageInFree, PageInEvict, Pin, InLoop, Live, Admitted
<1>6. CASE PageUnavailable \/ Return
  BY <1>6 DEF PageUnavailable, Return, InLoop, Live, Admitted
<1>7. ASSUME NEW a, ReadWord(a) \/ \E v \in Words : WriteWord(a, v)
      PROVE  CallsNested'
  BY <1>7 DEF ReadWord, WriteWord, CanAccess, callVars, Live, Admitted
<1>8. CASE EndAttempt
  BY <1>8 DEF EndAttempt
<1> QED
  BY <1>1, <1>2, <1>3, <1>4, <1>5, <1>6, <1>7, <1>8 DEF Next

(* The allocator starts with every frame free.                             *)
LEMMA InitInv == Init => Inv
<1> SUFFICES ASSUME Init PROVE Inv
  OBVIOUS
<1>1. ZeroPage \in Contents
  BY ConstantsAssumption DEF ZeroPage, Contents
<1>2. TypeOK
  BY <1>1 DEF Init, TypeOK
<1>3. CallsNested
  BY DEF Init, CallsNested
<1>4. TablesMirror
  BY NoneAssumption DEF Init, TablesMirror, Pages
<1>5. FramesAccounted
  BY DEF Init, FramesAccounted, IsInjective, Range
<1>6. PageInOnePlace
  <2>1. NumPages(0) = 0
    BY NumPagesBounds, ConstantsAssumption
  <2> QED
    BY <2>1 DEF Init, PageInOnePlace, LivePage, Resident, Pages, VPNs
<1>7. PinsMatchPromises
  BY DEF Init, PinsMatchPromises, PromisedPages, Pages
<1> QED
  BY <1>2, <1>3, <1>4, <1>5, <1>6, <1>7 DEF Inv, Tables

(* Every step keeps the invariant.                                         *)
LEMMA NextInv == Inv /\ [Next]_vars => Inv'
<1> SUFFICES ASSUME Inv, [Next]_vars
             PROVE  Inv'
  OBVIOUS
<1>1. CallsNested'
  BY CallsStep
<1>2. CASE UNCHANGED vars
  <2>1. TypeOK'
    BY <1>2 DEF Inv, TypeOK, vars, frameVars, callVars
  <2> QED
    BY <1>1, <1>2, <2>1, NothingMoved DEF Inv, vars, frameVars
<1>3. ASSUME NEW pid \in Pids, NEW size \in MemSizes, CreateProcess(pid, size)
      PROVE  Inv'
  BY <1>1, <1>3, ProcessTypes, CreateProcessTables DEF Inv
<1>4. ASSUME NEW pid \in Pids, DestroyProcess(pid)
      PROVE  Inv'
  BY <1>1, <1>4, ProcessTypes, DestroyProcessTables DEF Inv
<1>5. ASSUME NEW pid \in Pids, ReleasePins(pid) \/ BeginInstruction(pid)
      PROVE  Inv'
  <2>1. /\ pinnedFrames' = PinsWithout(pid)
        /\ promised' = [promised EXCEPT ![pid] = {}]
        /\ UNCHANGED <<memorySize, pageTable, frameTable, freeFrames, fifoFrames,
                       pages>>
    BY <1>5 DEF ReleasePins, BeginInstruction, frameVars
  <2>2. PinsMatchPromises'
    BY <2>1, PinsReleased
  <2>3. Tables'
    BY <2>1, TablesKept
  <2> QED
    BY <1>1, <1>5, <2>2, <2>3, ProcessTypes DEF Inv
<1>6. ASSUME running # None, NEW r \in Regions(memorySize[running]),
             EnsureResident(r)
      PROVE  Inv'
  BY <1>1, <1>6, EnsureResidentTypes, NothingMoved DEF Inv, EnsureResident, frameVars
<1>7. CASE PageHit
  BY <1>1, <1>7, PageInTypes, PageHitTables DEF Inv
<1>8. CASE PageInFree
  BY <1>1, <1>8, PageInTypes, PageInFreeTables DEF Inv
<1>9. CASE PageInEvict
  BY <1>1, <1>9, PageInTypes, PageInEvictTables DEF Inv
<1>10. CASE PageUnavailable
  <2>1. /\ running \in Pids
        /\ pinnedFrames' = PinsWithout(running)
        /\ promised' = [promised EXCEPT ![running] = {}]
        /\ UNCHANGED <<memorySize, pageTable, frameTable, freeFrames, fifoFrames,
                       pages>>
    BY <1>10, ScanPageIsPage DEF PageUnavailable, frameVars
  <2>2. PinsMatchPromises' /\ Tables'
    BY <2>1, PinsReleased, TablesKept
  <2> QED
    BY <1>1, <1>10, <2>2, CallTypes DEF Inv
<1>11. CASE Return
  BY <1>1, <1>11, CallTypes, NothingMoved DEF Inv, Return, frameVars
<1>12. ASSUME NEW a \in 0 .. MaxMemSize - 2,
              ReadWord(a) \/ \E v \in Words : WriteWord(a, v)
       PROVE  Inv'
  <2>1. UNCHANGED <<memorySize, pageTable, frameTable, freeFrames, fifoFrames,
                    pages, pinnedFrames, promised>>
    BY <1>12 DEF ReadWord, WriteWord, frameVars
  <2> QED
    BY <1>1, <1>12, <2>1, AccessTypes, NothingMoved DEF Inv
<1>13. CASE EndAttempt
  <2>1. Pids # {}
    BY <1>13 DEF EndAttempt, Inv, TypeOK
  <2>2. PICK pid \in Pids : TRUE
    BY <2>1
  <2> QED
    BY <1>1, <1>13, ProcessTypes, NothingMoved DEF Inv, EndAttempt, frameVars
<1> QED
  BY <1>2, <1>3, <1>4, <1>5, <1>6, <1>7, <1>8, <1>9, <1>10, <1>11, <1>12, <1>13
     DEF Next

------------------------------------------------------------------------------
(* In every behaviour of the allocator the invariant holds.                *)
THEOREM Invariance == Spec => []Inv
<1>1. Init => Inv
  BY InitInv
<1>2. Inv /\ [Next]_vars => Inv'
  BY NextInv
<1> QED
  BY <1>1, <1>2, PTL DEF Spec

(* The allocator's state is type correct.                                  *)
THEOREM TypeCorrect == Spec => []TypeOK
  BY Invariance, PTL DEF Inv

(* No frame is claimed by two pages, and none is lost: page tables, frame  *)
(* table, free list and FIFO queue tell one story, whatever the order in   *)
(* which processes fault, are evicted, complete or die.                    *)
THEOREM BookkeepingConsistent ==
  Spec => []OneAssignment
<1>1. Inv => OneAssignment
  BY DEF Inv, Tables, OneAssignment
<1>2. QED
  BY <1>1, Invariance, PTL

(* The bytes of a page are in a frame or in the store, never in both and   *)
(* never in neither.                                                       *)
THEOREM NoPageLost == Spec => []PageInOnePlace
  BY Invariance, PTL DEF Inv, Tables

(* What a process was told is resident stays resident until its next       *)
(* attempt, and no pin outlives its reason.                                *)
THEOREM PinsExact == Spec => []PinsMatchPromises
  BY Invariance, PTL DEF Inv

------------------------------------------------------------------------------
(* The sum of the resident sizes, all multiples of the frame size, is the  *)
(* used memory: process-smi and vmstat cannot disagree.                    *)
THEOREM StatisticsAgree == Spec => []ResidentSumsToUsed
<1>1. Inv => ResidentSumsToUsed
  <2> SUFFICES ASSUME Inv
               PROVE  ResidentSumsToUsed
    OBVIOUS
  <2>1. OneTable(Frames, Pages, None, pageTable, frameTable, freeFrames, fifoFrames)
    BY TablesAreOne
  <2>2. IsFiniteSet(Frames)
    BY ConstantsAssumption
  <2>3. Cardinality({p \in Pages : pageTable[p] # None})
          = Cardinality(Frames) - Cardinality(freeFrames)
    BY <2>1, <2>2, PagesInFrames
  <2>4. {p \in Pages : LivePage(p) /\ Resident(p)} = {p \in Pages : pageTable[p] # None}
    BY DEF Inv, Tables, PageInOnePlace, Resident
  <2> QED
    BY <2>3, <2>4 DEF ResidentSumsToUsed, UsedMemory
<1> QED
  BY <1>1, Invariance, PTL

(* A dispatched process has at most as many pages as there are frames.     *)
LEMMA AdmittedPages ==
  ASSUME TypeOK, NEW pid \in Pids, Admitted(pid)
  PROVE  NumPages(memorySize[pid]) <= Cardinality(Frames)
<1> DEFINE m == memorySize[pid]
           n == Cardinality(Frames)
<1>1. m \in 0 .. MaxMemSize /\ MaxMemSize \in Nat
  BY SizeBounded, ConstantsAssumption
<1>2. n \in Nat /\ FrameSize \in Nat \ {0}
  BY ConstantsAssumption, FS_CardinalityType
<1>3. m <= n * FrameSize
  BY DEF Admitted, TotalBytes
<1> HIDE DEF m, n
<1>4. (m + FrameSize - 1) \div FrameSize <= n
  BY <1>1, <1>2, <1>3, PagesFit
<1> QED
  BY <1>4 DEF NumPages, m, n

(* When no frame is free and none can be evicted, every frame is pinned.   *)
LEMMA AllPinned ==
  ASSUME Inv, freeFrames = {}, ~ \E f \in Frames : IsVictim(f)
  PROVE  Frames \subseteq pinnedFrames
<1>1. fifoFrames \in Seq(Frames) /\ Range(fifoFrames) = Frames
  BY DEF Inv, TypeOK, Tables, FramesAccounted
<1>2. Range(fifoFrames) \ pinnedFrames = {}
  BY <1>1, FirstOutsideExists DEF IsVictim
<1> QED
  BY <1>1, <1>2

(* A request that fails fails because of others: alone, an admitted        *)
(* process has fewer pages than there are frames left to it.               *)
LEMMA UnavailableStep ==
  ASSUME Inv, PageUnavailable
  PROVE  \E pid \in Pids \ {running} : promised[pid] # {}
<1> SUFFICES ASSUME \A pid \in Pids \ {running} : promised[pid] = {}
             PROVE  FALSE
  OBVIOUS
<1>1. /\ InLoop /\ running \in Pids /\ scan.vpn \in VPNs /\ ScanPage \in Pages
      /\ scan.vpn \in Nat /\ scan.vpn < NumPages(memorySize[running])
      /\ ~ Resident(ScanPage)
  BY ScanPageIsPage DEF PageUnavailable, InLoop
<1> DEFINE n == NumPages(memorySize[running])
           rest == (0 .. n - 1) \ {scan.vpn}
<1>2. n \in Nat
  BY <1>1, SizeBounded, NumPagesBounds DEF Inv
<1>3. n <= Cardinality(Frames)
  BY <1>1, AdmittedPages, NoneAssumption DEF Inv, CallsNested
<1>4. ASSUME NEW f \in Frames
      PROVE  /\ frameTable[f] \in Pages /\ frameTable[f][1] = running
             /\ frameTable[f][2] \in rest /\ pageTable[frameTable[f]] = f
  <2>1. f \in pinnedFrames
    BY AllPinned DEF PageUnavailable
  <2>2. PICK p \in Pages : p[2] \in promised[p[1]] /\ pageTable[p] = f
    BY <2>1 DEF Inv, PinsMatchPromises, PromisedPages
  <2>3. p[1] = running
    BY <2>2 DEF Pages
  <2>4. frameTable[f] = p
    BY <2>2 DEF Inv, Tables, TablesMirror
  <2>5. Resident(p) /\ p # ScanPage
    BY <1>1, <2>2, NoneAssumption DEF Resident
  <2>6. p[2] \in Nat /\ p[2] < n
    BY <2>3, <2>5 DEF Inv, Tables, PageInOnePlace, LivePage, Pages, VPNs
  <2>7. p[2] # scan.vpn
    <3>1. p = <<p[1], p[2]>>
      BY DEF Pages
    <3> QED
      BY <2>3, <2>5, <3>1 DEF ScanPage
  <2> HIDE DEF n
  <2> QED
    BY <1>2, <2>2, <2>3, <2>4, <2>6, <2>7
<1> HIDE DEF n
<1>5. AllHeldBy(Frames, frameTable, running, None, rest)
  BY <1>4, NoneAssumption DEF AllHeldBy
<1>7. IsFiniteSet(rest) /\ Cardinality(rest) = n - 1
  <2>1. IsFiniteSet(0 .. n - 1) /\ Cardinality(0 .. n - 1) = n
    <3> HIDE DEF rest
    <3> DEFINE e == n - 1
    <3>1. e \in Int /\ n = e + 1 /\ 0 <= e + 1
      BY <1>2
    <3> HIDE DEF e
    <3>2. IsFiniteSet(0 .. e) /\ Cardinality(0 .. e) = e + 1
      <4>1. /\ IsFiniteSet(0 .. e)
            /\ Cardinality(0 .. e) = IF 0 > e THEN 0 ELSE e - 0 + 1
        BY <3>1, FS_Interval
      <4> QED
        BY <3>1, <4>1
    <3> QED
      BY <3>1, <3>2 DEF e
  <2>2. scan.vpn \in 0 .. n - 1
    BY <1>1, <1>2 DEF n
  <2> QED
    BY <2>1, <2>2, FS_RemoveElement
<1> HIDE DEF rest
<1>8. OneTable(Frames, Pids \X VPNs, None, pageTable, frameTable, freeFrames, fifoFrames)
  BY TablesAreOne DEF Pages
<1>9. Cardinality(Frames) <= n - 1
  <2>1. Cardinality(Frames) <= Cardinality(rest)
    BY <1>5, <1>7, <1>8, FramesOfOne
  <2> QED
    BY <2>1, <1>7
<1>10. Cardinality(Frames) \in Nat
  BY ConstantsAssumption, FS_CardinalityType
<1> QED
  BY <1>2, <1>3, <1>9, <1>10

(* ensureResident() answers UNAVAILABLE only while another process holds   *)
(* pages for the instruction it is in the middle of.                       *)
THEOREM NeverBlocksItself == Spec => BlockedOnlyByOthers
<1> DEFINE Blocked == reply' = UNAVAILABLE /\ reply # UNAVAILABLE
                        => \E pid \in Pids \ {running} : promised[pid] # {}
<1>1. Inv /\ [Next]_vars => [Blocked]_vars
  <2> SUFFICES ASSUME Inv, Next, reply' = UNAVAILABLE, reply # UNAVAILABLE
               PROVE  \E pid \in Pids \ {running} : promised[pid] # {}
    BY DEF vars, callVars
  <2>1. PageUnavailable
    <3>1. UNAVAILABLE # FAULTED /\ UNAVAILABLE # RESIDENT /\ UNAVAILABLE # None
      BY NoneAssumption DEF UNAVAILABLE, FAULTED, RESIDENT
    <3> QED
      BY <3>1 DEF Next, CreateProcess, DestroyProcess, ReleasePins, BeginInstruction,
         EnsureResident, PageHit, PageInFree, PageInEvict, Pin, Return, ReadWord,
         WriteWord, EndAttempt, callVars
  <2> QED
    BY <2>1, UnavailableStep
<1> QED
  BY <1>1, Invariance, PTL DEF Spec, BlockedOnlyByOthers

------------------------------------------------------------------------------
(* The history adds nothing to what the allocator does.                    *)
LEMMA OrderedIsAllocator == OrderedSpec => Spec
<1>1. OrderedInit => Init
  BY DEF OrderedInit
<1>2. [OrderedNext]_<<vars, older>> => [Next]_vars
  BY DEF OrderedNext
<1> QED
  BY <1>1, <1>2, PTL DEF OrderedSpec, Spec

(* The frames stand in the queue by the age of their pages.                *)
QueuedByAge ==
  \A pq \in older :
    /\ pq \in Pages \X Pages /\ Resident(pq[1]) /\ Resident(pq[2])
    /\ IsBefore(fifoFrames, pageTable[pq[1]], pageTable[pq[2]])

(* The frames of R are given up and those of t taken: every page in memory *)
(* stayed where it was or is new and in a frame of t.                      *)
Moved(R, t) ==
  /\ fifoFrames' = Without(fifoFrames, R) \o t
  /\ \A p \in Pages : Resident(p)' =>
       \/ Resident(p) /\ pageTable'[p] = pageTable[p] /\ pageTable[p] \notin R
       \/ ~ Resident(p) /\ pageTable'[p] \in Range(t)

LEMMA QueueAges ==
  ASSUME Inv, QueuedByAge, older' = NextOlder,
         NEW R, NEW t \in Seq(Frames), Moved(R, t)
  PROVE  QueuedByAge'
<1> SUFFICES ASSUME NEW pq \in older'
             PROVE  /\ pq \in Pages \X Pages /\ Resident(pq[1])' /\ Resident(pq[2])'
                    /\ IsBefore(fifoFrames', pageTable'[pq[1]], pageTable'[pq[2]])
  BY DEF QueuedByAge
<1> DEFINE w == Without(fifoFrames, R)
<1>1. /\ pq \in Pages \X Pages /\ pq[1] \in Pages /\ pq[2] \in Pages
      /\ Resident(pq[1])' /\ Resident(pq[2])'
      /\ pq \in older \/ (Resident(pq[1]) /\ ~ Resident(pq[2]))
  BY DEF NextOlder
<1>2. /\ fifoFrames \in Seq(Frames) /\ w \in Seq(Frames)
      /\ Range(w) = Range(fifoFrames) \ R
  BY WithoutRange DEF Inv, TypeOK
<1>3. Resident(pq[1])
  BY <1>1 DEF QueuedByAge
<1>4. pageTable'[pq[1]] = pageTable[pq[1]] /\ pageTable[pq[1]] \notin R
  BY <1>1, <1>3 DEF Moved
<1>5. CASE pq \in older
  <2>1. /\ IsBefore(fifoFrames, pageTable[pq[1]], pageTable[pq[2]])
        /\ Resident(pq[2])
    BY <1>5 DEF QueuedByAge
  <2>2. pageTable'[pq[2]] = pageTable[pq[2]] /\ pageTable[pq[2]] \notin R
    BY <1>1, <2>1 DEF Moved
  <2>3. IsBefore(w, pageTable[pq[1]], pageTable[pq[2]])
    BY <1>2, <1>4, <2>1, <2>2, WithoutKeepsOrder
  <2> HIDE DEF w
  <2>4. IsBefore(w \o t, pageTable[pq[1]], pageTable[pq[2]])
    BY <1>2, <2>3, ConcatKeepsOrder
  <2> QED
    BY <1>1, <1>4, <2>2, <2>4 DEF Moved, w
<1>6. CASE Resident(pq[1]) /\ ~ Resident(pq[2])
  <2>1. pageTable'[pq[2]] \in Range(t)
    BY <1>1, <1>6 DEF Moved
  <2>2. pageTable[pq[1]] \in Range(fifoFrames)
    <3>1. pageTable[pq[1]] \in Frames /\ frameTable[pageTable[pq[1]]] = pq[1]
      BY <1>1, <1>6 DEF Inv, TypeOK, Tables, TablesMirror, Resident
    <3>2. None \notin Pages
      BY NoneAssumption
    <3> QED
      BY <1>1, <3>1, <3>2 DEF Inv, Tables, FramesAccounted
  <2>3. pageTable[pq[1]] \in Range(w)
    BY <1>2, <1>4, <2>2
  <2> HIDE DEF w
  <2>4. IsBefore(w \o t, pageTable[pq[1]], pageTable'[pq[2]])
    BY <1>2, <2>1, <2>3, ConcatKeepsOrder
  <2> QED
    BY <1>1, <1>4, <2>4 DEF Moved, w
<1> QED
  BY <1>1, <1>5, <1>6

LEMMA QueuedByAgeStep ==
  ASSUME Inv, QueuedByAge, [OrderedNext]_<<vars, older>>
  PROVE  QueuedByAge'
<1>1. fifoFrames \in Seq(Frames) /\ None \notin Frames
  BY NoneAssumption DEF Inv, TypeOK
<1>2. CASE UNCHANGED <<vars, older>>
  BY <1>2 DEF vars, frameVars, QueuedByAge, Resident
<1>3. CASE OrderedNext
  <2>1. Next /\ older' = NextOlder
    BY <1>3 DEF OrderedNext
  <2>2. CASE UNCHANGED <<pageTable, fifoFrames>>
    <3>1. Moved({}, <<>>) /\ <<>> \in Seq(Frames)
      BY <1>1, <2>2, WithoutNone DEF Moved, Resident
    <3> QED
      BY <2>1, <3>1, QueueAges
  <2>3. CASE \E pid \in Pids : DestroyProcess(pid)
    <3>1. PICK pid \in Pids : DestroyProcess(pid)
      BY <2>3
    <3>2. /\ pageTable' = [p \in Pages |-> IF p[1] = pid THEN None ELSE pageTable[p]]
          /\ fifoFrames' = Without(fifoFrames, FramesOf(pid))
      BY <3>1 DEF DestroyProcess, FifoAfterDestroy
    <3>3. Without(fifoFrames, FramesOf(pid)) \in Seq(Frames)
      BY <1>1, WithoutRange
    <3>4. ASSUME NEW p \in Pages, p[1] # pid, Resident(p)
          PROVE  pageTable[p] \notin FramesOf(pid)
      <4>1. \A v \in VPNs : <<pid, v>> \in Pages /\ <<pid, v>> # p
        BY <3>4 DEF Pages
      <4>2. \A f \in Frames, q \in Pages : pageTable[q] = f <=> frameTable[f] = q
        BY DEF Inv, Tables, TablesMirror
      <4>3. \A f \in Frames, v \in VPNs : pageTable[<<pid, v>>] = f => pageTable[p] # f
        BY <3>4, <4>1, <4>2
      <4> QED
        BY <4>3 DEF FramesOf
    <3>5. fifoFrames' = Without(fifoFrames, FramesOf(pid)) \o <<>>
      BY <3>2, <3>3
    <3>6. Moved(FramesOf(pid), <<>>) /\ <<>> \in Seq(Frames)
      BY <3>2, <3>4, <3>5 DEF Moved, Resident
    <3> QED
      BY <2>1, <3>6, QueueAges
  <2>4. CASE PageInFree
    <3>1. ScanPage \in Pages /\ ~ Resident(ScanPage)
      BY <2>4, ScanPageIsPage DEF PageInFree
    <3>2. PICK f \in freeFrames :
            /\ pageTable' = [pageTable EXCEPT ![ScanPage] = f]
            /\ fifoFrames' = Append(fifoFrames, f)
      BY <2>4 DEF PageInFree
    <3>3. f \in Frames /\ pageTable \in [Pages -> Frames \cup {None}]
      BY DEF Inv, TypeOK
    <3>4. fifoFrames' = Without(fifoFrames, {}) \o <<f>> /\ <<f>> \in Seq(Frames)
      BY <1>1, <3>2, <3>3, WithoutNone
    <3>5. f \in Range(<<f>>)
      BY DEF Range
    <3>6. Moved({}, <<f>>)
      BY <3>1, <3>2, <3>3, <3>4, <3>5 DEF Moved, Resident
    <3> QED
      BY <2>1, <3>4, <3>6, QueueAges
  <2>5. CASE PageInEvict
    <3>1. PICK f \in Frames, q \in Pages :
            /\ frameTable[f] = q /\ pageTable[ScanPage] = None
            /\ pageTable'[ScanPage] = f /\ pageTable'[q] = None
            /\ \A p \in Pages \ {ScanPage, q} : pageTable'[p] = pageTable[p]
            /\ fifoFrames' = Append(Without(fifoFrames, {f}), f)
      BY <2>5, EvictMoves
    <3>2. Without(fifoFrames, {f}) \in Seq(Frames)
      BY <1>1, WithoutRange
    <3>3. fifoFrames' = Without(fifoFrames, {f}) \o <<f>> /\ <<f>> \in Seq(Frames)
      BY <3>1, <3>2
    <3>4. f \in Range(<<f>>)
      BY DEF Range
    <3>5. \A p \in Pages \ {q} : pageTable[p] # f
      BY <3>1 DEF Inv, Tables, TablesMirror
    <3>6. Moved({f}, <<f>>)
      BY <3>1, <3>3, <3>4, <3>5 DEF Moved, Resident
    <3> QED
      BY <2>1, <3>3, <3>6, QueueAges
  <2> QED
    BY <2>1, <2>2, <2>3, <2>4, <2>5
       DEF Next, CreateProcess, ReleasePins, BeginInstruction, EnsureResident, PageHit,
           PageUnavailable, Return, ReadWord, WriteWord, EndAttempt, frameVars
<1> QED
  BY <1>2, <1>3

(* Replacement is first in, first out among the pages nobody was promised, *)
(* for any number of frames, and however often processes died in between.  *)
THEOREM EvictsOldest == OrderedSpec => OldestGoesFirst
<1> DEFINE Oldest == \A pq \in older :
              Evicted(pq[2]) /\ Resident(pq[1])' => pq[1] \in PromisedPages
<1>1. OrderedInit => QueuedByAge
  BY DEF OrderedInit, QueuedByAge
<1>2. Inv /\ QueuedByAge /\ [OrderedNext]_<<vars, older>> => [Oldest]_<<vars, older>>
  <2> SUFFICES ASSUME Inv, QueuedByAge, OrderedNext, NEW pq \in older,
                      Evicted(pq[2]), Resident(pq[1])'
               PROVE  pq[1] \in PromisedPages
    BY DEF Oldest
  <2>1. /\ pq[1] \in Pages /\ pq[2] \in Pages /\ Resident(pq[1]) /\ Resident(pq[2])
        /\ IsBefore(fifoFrames, pageTable[pq[1]], pageTable[pq[2]])
        /\ pageTable'[pq[2]] = None /\ memorySize'[pq[2][1]] # 0
    BY DEF QueuedByAge, Evicted, Resident
  <2>2. /\ pageTable \in [Pages -> Frames \cup {None}]
        /\ memorySize \in [Pids -> {0} \cup MemSizes]
        /\ None \notin Frames
    BY NoneAssumption DEF Inv, TypeOK
  <2>3. PageInEvict
    <3>1. ~ \E pid \in Pids : DestroyProcess(pid)
      BY <2>1, <2>2 DEF DestroyProcess, Resident
    <3>2. ~ PageInFree
      BY <2>1, <2>2, ScanPageIsPage DEF PageInFree, Resident, Inv, TypeOK
    <3> QED
      BY <2>1, <3>1, <3>2
         DEF OrderedNext, Next, CreateProcess, ReleasePins, BeginInstruction,
             EnsureResident, PageHit, PageUnavailable, Return, ReadWord, WriteWord,
             EndAttempt, frameVars, Resident
  <2>4. PICK f \in Frames : /\ IsVictim(f)
                            /\ pageTable' =
                                 [p \in Pages |-> CASE p = ScanPage      -> f
                                                    [] p = frameTable[f] -> None
                                                    [] OTHER             -> pageTable[p]]
    BY <2>3 DEF PageInEvict
  <2>5. pageTable[pq[2]] = f
    BY <2>1, <2>2, <2>4 DEF Resident, Inv, Tables, TablesMirror
  <2>6. PICK k \in DOMAIN fifoFrames :
          fifoFrames[k] = f /\ \A l \in 1 .. k - 1 : fifoFrames[l] \in pinnedFrames
    BY <2>4 DEF IsVictim, IsFirstOutside
  <2>7. PICK i \in DOMAIN fifoFrames, j \in DOMAIN fifoFrames :
          i < j /\ fifoFrames[i] = pageTable[pq[1]] /\ fifoFrames[j] = f
    BY <2>1, <2>5 DEF IsBefore
  <2>8. k = j
    BY <2>6, <2>7 DEF Inv, Tables, FramesAccounted, IsInjective
  <2>9. i \in 1 .. k - 1
    <3>1. DOMAIN fifoFrames = 1 .. Len(fifoFrames) /\ Len(fifoFrames) \in Nat
      BY DEF Inv, TypeOK
    <3> QED
      BY <2>7, <2>8, <3>1
  <2>10. pageTable[pq[1]] \in pinnedFrames
    BY <2>6, <2>7, <2>9
  <2>11. PICK p \in PromisedPages : pageTable[p] = pageTable[pq[1]]
    BY <2>10 DEF Inv, PinsMatchPromises
  <2>12. p = pq[1]
    BY <2>1, <2>2, <2>11 DEF Inv, Tables, TablesMirror, PromisedPages, Resident
  <2> QED
    BY <2>11, <2>12
<1>3. Inv /\ QueuedByAge /\ [OrderedNext]_<<vars, older>> => QueuedByAge'
  BY QueuedByAgeStep
<1> QED
  BY <1>1, <1>2, <1>3, OrderedIsAllocator, Invariance, PTL
     DEF OrderedSpec, OldestGoesFirst
===============================================================================

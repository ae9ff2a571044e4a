----------------------- MODULE PagingRefinement_proofs -----------------------
(***************************************************************************)
(* Demand paging implements the flat memory of FlatMemory: moving a page   *)
(* leaves its bytes as they are, and a word is written where it is read.   *)
(***************************************************************************)
EXTENDS PagingAllocator_proofs

FlatCells == Pids \X (0 .. MaxMemSize - 1)

(* An address is its page's number and its offset in the page.             *)
LEMMA Address ==
  ASSUME NEW a \in Nat
  PROVE  /\ a \div FrameSize \in Nat /\ a % FrameSize \in 0 .. FrameSize - 1
         /\ a = FrameSize * (a \div FrameSize) + (a % FrameSize)
  BY ConstantsAssumption

(* Two bytes at the same offset of the same page are one byte.             *)
LEMMA SameByte ==
  ASSUME NEW a \in Nat, NEW b \in Nat,
         a \div FrameSize = b \div FrameSize, a % FrameSize = b % FrameSize
  PROVE  a = b
  BY Address

(* A byte of a space of some size is in one of its pages.                  *)
LEMMA PageNumber ==
  ASSUME NEW m \in 0 .. MaxMemSize, NEW a \in Nat, a < m
  PROVE  /\ a \div FrameSize \in VPNs /\ a \div FrameSize < NumPages(m)
         /\ a \in 0 .. MaxMemSize - 1
<1> DEFINE q == a \div FrameSize
           n == (m + FrameSize - 1) \div FrameSize
<1>1. MaxMemSize \in Nat /\ FrameSize \in Nat \ {0}
  BY ConstantsAssumption
<1>2. q \in Nat /\ FrameSize * q <= a
  BY Address, <1>1
<1>3. n \in Int /\ m + FrameSize - 1 < FrameSize * (n + 1)
  BY <1>1
<1>4. NumPages(m) = n /\ n <= NumPages(MaxMemSize) /\ NumPages(MaxMemSize) \in Nat
  BY <1>1, NumPagesBounds DEF NumPages
<1> HIDE DEF q, n
<1>5. FrameSize * (q + 1) < FrameSize * (n + 1)
  BY <1>1, <1>2, <1>3
<1>6. q < n
  BY <1>1, <1>2, <1>3, <1>5
<1>7. q \in VPNs
  BY <1>2, <1>3, <1>4, <1>6 DEF VPNs
<1>8. a \in 0 .. MaxMemSize - 1
  BY <1>1
<1> QED
  BY <1>4, <1>6, <1>7, <1>8 DEF q, n

(* A byte of a live process is in one of its pages.                        *)
LEMMA AddressLive ==
  ASSUME TypeOK, NEW pid \in Pids, NEW a \in Nat, a < memorySize[pid]
  PROVE  Page(pid, a) \in Pages /\ LivePage(Page(pid, a))
<1>1. memorySize[pid] \in 0 .. MaxMemSize
  BY SizeBounded
<1> QED
  BY <1>1, PageNumber DEF Page, Pages, LivePage

(* The bytes of a page of a live process are bytes.                        *)
LEMMA PageBytesType ==
  ASSUME Inv, NEW p \in Pages, LivePage(p)
  PROVE  PageBytes(p) \in Contents
  BY DEF Inv, TypeOK, Tables, PageInOnePlace, PageBytes, Resident

(* A step that leaves the sizes and the bytes of every page alone is not   *)
(* visible in the flat memory.                                             *)
LEMMA FlatUnchanged ==
  ASSUME Inv, UNCHANGED memorySize,
         \A p \in Pages : LivePage(p) => PageBytes(p)' = PageBytes(p)
  PROVE  FlatBytes' = FlatBytes
<1> SUFFICES ASSUME NEW c \in FlatCells, c[2] < memorySize[c[1]]
             PROVE  PageBytes(Page(c[1], c[2]))' = PageBytes(Page(c[1], c[2]))
  BY DEF FlatBytes, FlatCells
<1>1. c[1] \in Pids /\ c[2] \in Nat
  BY DEF FlatCells
<1>2. Page(c[1], c[2]) \in Pages /\ LivePage(Page(c[1], c[2]))
  BY <1>1, AddressLive DEF Inv
<1> QED
  BY <1>2 DEF Page

(* pageIn() moves bytes and changes none.                                  *)
LEMMA PageInFlat ==
  ASSUME Inv, PageInFree \/ PageInEvict
  PROVE  FlatBytes' = FlatBytes
<1> PICK sp \in Pages : sp = ScanPage
  BY ScanPageIsPage DEF PageInFree, PageInEvict
<1>1. /\ pageTable \in [Pages -> Frames \cup {None}]
      /\ frameTable \in [Frames -> Pages \cup {None}]
      /\ pages \in [Pages -> Contents \cup {None}]
      /\ physicalMemory \in [Frames -> Contents]
      /\ freeFrames \subseteq Frames
      /\ None \notin Frames /\ None \notin Pages /\ None \notin Contents
  BY NoneAssumption DEF Inv, TypeOK
<1>2. /\ \A g \in Frames, p \in Pages : pageTable[p] = g <=> frameTable[g] = p
      /\ \A g \in Frames : g \in freeFrames <=> frameTable[g] = None
  BY DEF Inv, Tables, TablesMirror, FramesAccounted
<1>3. LivePage(sp) /\ ~ Resident(sp) /\ pages[sp] # None
  BY ScanPageIsPage DEF PageInFree, PageInEvict, Inv, Tables, PageInOnePlace
<1>4. Loaded(pages, sp) = pages[sp] /\ PageBytes(sp) = pages[sp]
  BY <1>3 DEF Loaded, PageBytes
<1>5. CASE PageInFree
  <2>1. PICK f \in freeFrames :
          /\ pageTable' = [pageTable EXCEPT ![sp] = f]
          /\ physicalMemory' = [physicalMemory EXCEPT ![f] = Loaded(pages, sp)]
          /\ pages' = [pages EXCEPT ![sp] = None]
          /\ Pin(f, TRUE)
    BY <1>5 DEF PageInFree, StoreWithout
  <2>2. f \in Frames /\ frameTable[f] = None
    BY <1>1, <1>2, <2>1
  <2>3. PageBytes(sp)' = PageBytes(sp)
    BY <1>1, <1>3, <1>4, <2>1, <2>2 DEF PageBytes, Resident
  <2>4. ASSUME NEW p \in Pages \ {sp}
        PROVE  PageBytes(p)' = PageBytes(p)
    <3>1. pageTable[p] # f
      BY <1>1, <1>2, <2>2
    <3> QED
      BY <1>1, <2>1, <2>2, <3>1 DEF PageBytes, Resident
  <2>5. UNCHANGED memorySize
    BY <2>1 DEF Pin
  <2> QED
    BY <2>3, <2>4, <2>5, FlatUnchanged
<1>6. CASE PageInEvict
  <2>1. PICK f \in Frames, q \in Pages :
          /\ frameTable[f] = q /\ pageTable[q] = f
          /\ q # sp
          /\ pageTable'[sp] = f
          /\ pageTable'[q] = None /\ pages'[q] = physicalMemory[f]
          /\ \A p \in Pages \ {sp, q} :
               pageTable'[p] = pageTable[p] /\ pages'[p] = pages[p]
          /\ physicalMemory'[f] = Loaded(pages, sp)
          /\ \A g \in Frames \ {f} : physicalMemory'[g] = physicalMemory[g]
          /\ Pin(f, TRUE)
    BY <1>6, EvictMoves
  <2>2. PageBytes(sp)' = PageBytes(sp)
    BY <1>1, <1>4, <2>1 DEF PageBytes, Resident
  <2>3. PageBytes(q)' = PageBytes(q)
    BY <1>1, <2>1 DEF PageBytes, Resident
  <2>4. ASSUME NEW p \in Pages \ {sp, q}
        PROVE  PageBytes(p)' = PageBytes(p)
    <3>1. pageTable[p] # f
      BY <1>2, <2>1
    <3> QED
      BY <1>1, <2>1, <3>1 DEF PageBytes, Resident
  <2>5. UNCHANGED memorySize
    BY <2>1 DEF Pin
  <2> QED
    BY <2>2, <2>3, <2>4, <2>5, FlatUnchanged
<1> QED
  BY <1>5, <1>6

------------------------------------------------------------------------------
(* What the flat memory shows at an address: the byte in its page, within  *)
(* a live process, and nothing beyond it.                                  *)
LEMMA FlatCell ==
  ASSUME Inv, NEW pid \in Pids, NEW a \in 0 .. MaxMemSize - 1
  PROVE  /\ FlatBytes[<<pid, a>>] = IF a < memorySize[pid]
                                    THEN PageBytes(Page(pid, a))[a % FrameSize]
                                    ELSE None
         /\ a < memorySize[pid] => FlatBytes[<<pid, a>>] # None
<1>1. a \in Nat
  OBVIOUS
<1>2. FlatBytes[<<pid, a>>] = IF a < memorySize[pid]
                             THEN PageBytes(Page(pid, a))[a % FrameSize]
                             ELSE None
  BY DEF FlatBytes
<1>3. ASSUME a < memorySize[pid]
      PROVE  FlatBytes[<<pid, a>>] # None
  <2>1. PageBytes(Page(pid, a)) \in Contents
    BY <1>1, <1>3, AddressLive, PageBytesType DEF Inv
  <2>2. PageBytes(Page(pid, a))[a % FrameSize] \in 0 .. ByteBase - 1
    BY <1>1, <2>1, Address DEF Contents
  <2>3. 0 .. ByteBase - 1 \subseteq Words
    <3>1. ByteBase \in Nat \ {0}
      BY ConstantsAssumption
    <3>2. ByteBase <= ByteBase * ByteBase
      BY <3>1
    <3> QED
      BY <3>1, <3>2 DEF Words
  <2> QED
    BY <1>2, <1>3, <2>2, <2>3, NoneAssumption
<1> QED
  BY <1>2, <1>3

(* The flat memory after a step, cell by cell.                             *)
LEMMA FlatNext ==
  ASSUME NEW G, G = [c \in FlatCells |-> G[c]],
         \A r \in Pids, a \in 0 .. MaxMemSize - 1 :
           (IF a < memorySize'[r] THEN PageBytes(Page(r, a))'[a % FrameSize] ELSE None)
             = G[<<r, a>>]
  PROVE  FlatBytes' = G
<1>1. \A c \in FlatCells : /\ c[1] \in Pids /\ c[2] \in 0 .. MaxMemSize - 1
                           /\ c = <<c[1], c[2]>>
  BY DEF FlatCells
<1>2. FlatBytes' = [c \in FlatCells |->
                     IF c[2] < memorySize'[c[1]]
                     THEN PageBytes(Page(c[1], c[2]))'[c[2] % FrameSize] ELSE None]
  BY DEF FlatBytes, FlatCells, Page
<1> QED
  BY <1>1, <1>2

(* Creating a process maps zeros and touches the bytes of no other.        *)
LEMMA CreateFlat ==
  ASSUME Inv, NEW pid \in Pids, NEW size \in MemSizes, CreateProcess(pid, size)
  PROVE  Flat!Create(pid, size)
<1>1. /\ memorySize \in [Pids -> {0} \cup MemSizes] /\ memorySize[pid] = 0
      /\ MaxMemSize \in Nat \ {0} /\ size \in 1 .. MaxMemSize
  BY ConstantsAssumption DEF Inv, TypeOK, CreateProcess, Live
<1>2. /\ memorySize' = [memorySize EXCEPT ![pid] = size]
      /\ pages' = [p \in Pages |-> IF p[1] = pid /\ p[2] < NumPages(size)
                                   THEN ZeroPage ELSE pages[p]]
      /\ UNCHANGED <<pageTable, physicalMemory, lastRead>>
      /\ Accessing = None /\ UNCHANGED Accessing
  BY DEF CreateProcess, frameVars, callVars, Accessing
<1>3. ~ Flat!Mapped(pid)
  <2>1. 0 \in 0 .. MaxMemSize - 1 /\ ~ (0 < memorySize[pid])
    BY <1>1
  <2> QED
    BY <2>1, FlatCell DEF Flat!Mapped
<1>4. ASSUME NEW r \in Pids, NEW a \in 0 .. MaxMemSize - 1
      PROVE  (IF a < memorySize'[r] THEN PageBytes(Page(r, a))'[a % FrameSize] ELSE None)
               = IF r = pid /\ a < size THEN 0 ELSE FlatBytes[<<r, a>>]
  <2> DEFINE p == Page(r, a)
  <2>1. a \in Nat /\ a % FrameSize \in 0 .. FrameSize - 1
    BY Address
  <2>2. p \in Pages /\ p[1] = r /\ p[2] = a \div FrameSize
    BY <1>1, <2>1, PageNumber DEF Page, Pages
  <2>3. CASE r = pid /\ a < size
    <3>1. p[2] < NumPages(size)
      BY <1>1, <2>1, <2>2, <2>3, PageNumber
    <3>2. pageTable[p] = None
      <4>1. NumPages(0) = 0 /\ p[2] \in Nat
        BY <1>1, <2>2, NumPagesBounds DEF Pages, VPNs
      <4> QED
        BY <1>1, <2>2, <2>3, <4>1 DEF Inv, Tables, PageInOnePlace, LivePage, Resident
    <3>3. PageBytes(p)' = ZeroPage
      BY <1>2, <2>2, <2>3, <3>1, <3>2 DEF PageBytes, Resident, Page
    <3>4. a < memorySize'[r]
      BY <1>1, <1>2, <2>3
    <3> QED
      BY <2>1, <2>3, <3>3, <3>4 DEF ZeroPage
  <2>4. CASE r = pid /\ ~ (a < size)
    BY <1>1, <1>2, <2>1, <2>4, FlatCell
  <2>5. CASE r # pid
    <3>1. memorySize'[r] = memorySize[r] /\ pages'[p] = pages[p]
      BY <1>1, <1>2, <2>2, <2>5
    <3>2. PageBytes(p)' = PageBytes(p)
      BY <1>2, <3>1 DEF PageBytes, Resident, Page
    <3> QED
      BY <2>5, <3>1, <3>2, FlatCell
  <2> QED
    BY <2>3, <2>4, <2>5
<1>5. PICK G : G = [c \in FlatCells |-> IF c[1] = pid /\ c[2] < size THEN 0
                                       ELSE FlatBytes[c]]
  OBVIOUS
<1>6. FlatBytes' = G
  <2>1. G = [c \in FlatCells |-> G[c]]
    BY <1>5
  <2>2. \A r \in Pids, a \in 0 .. MaxMemSize - 1 :
          (IF a < memorySize'[r] THEN PageBytes(Page(r, a))'[a % FrameSize] ELSE None)
            = G[<<r, a>>]
    <3> SUFFICES ASSUME NEW r \in Pids, NEW a \in 0 .. MaxMemSize - 1
                 PROVE  G[<<r, a>>] = IF r = pid /\ a < size THEN 0
                                      ELSE FlatBytes[<<r, a>>]
      BY <1>4
    <3> QED
      BY <1>5 DEF FlatCells
  <2> QED
    BY <2>1, <2>2, FlatNext
<1> QED
  BY <1>2, <1>3, <1>5, <1>6 DEF Flat!Create, Flat!Cells, FlatCells

(* Destroying a process unmaps its bytes and touches those of no other.    *)
LEMMA DestroyFlat ==
  ASSUME Inv, NEW pid \in Pids, DestroyProcess(pid)
  PROVE  Flat!Destroy(pid)
<1>1. /\ memorySize \in [Pids -> {0} \cup MemSizes]
      /\ MaxMemSize \in Nat \ {0}
  BY ConstantsAssumption DEF Inv, TypeOK
<1>2. /\ memorySize' = [memorySize EXCEPT ![pid] = 0]
      /\ pageTable' = [p \in Pages |-> IF p[1] = pid THEN None ELSE pageTable[p]]
      /\ pages' = [p \in Pages |-> IF p[1] = pid THEN None ELSE pages[p]]
      /\ UNCHANGED <<physicalMemory, lastRead>>
      /\ Accessing = None /\ UNCHANGED Accessing
  BY DEF DestroyProcess, callVars, Accessing
<1>3. PICK G : G = [c \in FlatCells |-> IF c[1] = pid THEN None ELSE FlatBytes[c]]
  OBVIOUS
<1>4. ASSUME NEW r \in Pids, NEW a \in 0 .. MaxMemSize - 1
      PROVE  (IF a < memorySize'[r] THEN PageBytes(Page(r, a))'[a % FrameSize] ELSE None)
               = G[<<r, a>>]
  <2>1. G[<<r, a>>] = IF r = pid THEN None ELSE FlatBytes[<<r, a>>]
    BY <1>3 DEF FlatCells
  <2>2. CASE r = pid
    BY <1>1, <1>2, <2>1, <2>2
  <2>3. CASE r # pid
    <3> DEFINE p == Page(r, a)
    <3>1. a \in Nat /\ a < MaxMemSize
      BY <1>1
    <3>2. p \in Pages /\ p[1] = r
      BY <1>1, <3>1, PageNumber DEF Page, Pages
    <3>3. /\ memorySize'[r] = memorySize[r]
          /\ pages'[p] = pages[p] /\ pageTable'[p] = pageTable[p]
      BY <1>1, <1>2, <2>3, <3>2
    <3>4. PageBytes(p)' = PageBytes(p)
      BY <1>2, <3>3 DEF PageBytes, Resident, Page
    <3> QED
      BY <2>1, <2>3, <3>3, <3>4, FlatCell
  <2> QED
    BY <2>2, <2>3
<1>5. FlatBytes' = G
  BY <1>3, <1>4, FlatNext
<1> QED
  BY <1>2, <1>3, <1>5 DEF Flat!Destroy, Flat!Cells, FlatCells

------------------------------------------------------------------------------
(* The byte at an accessible address is resident, and the flat memory      *)
(* shows it.                                                               *)
LEMMA AccessibleByte ==
  ASSUME Inv, NEW a \in 0 .. MaxMemSize - 2, CanAccess(a), NEW b \in {a, a + 1}
  PROVE  /\ running \in Pids /\ b \in 0 .. MaxMemSize - 1 /\ b < memorySize[running]
         /\ Page(running, b) \in Pages
         /\ HasByte(running, b) /\ pageTable[Page(running, b)] \in Frames
         /\ FlatBytes[<<running, b>>] = ByteAt(running, b)
         /\ FlatBytes[<<running, b>>] # None
<1>1. running \in Pids
  BY DEF Inv, TypeOK, CanAccess
<1>2. memorySize[running] \in 0 .. MaxMemSize /\ MaxMemSize \in Nat
  BY <1>1, SizeBounded, ConstantsAssumption DEF Inv
<1>3. b \in Nat /\ b < memorySize[running] /\ b \in 0 .. MaxMemSize - 1
  BY <1>2 DEF CanAccess
<1>4. Page(running, b) \in Pages /\ b \div FrameSize \in promised[running]
  BY <1>1, <1>3, AddressLive DEF CanAccess, Inv
<1>5. pageTable[Page(running, b)] \in pinnedFrames
  BY <1>4 DEF Inv, PinsMatchPromises, PromisedPages, Page
<1>6. pageTable[Page(running, b)] \in Frames
  BY <1>5 DEF Inv, TypeOK
<1>7. HasByte(running, b)
  BY <1>6, NoneAssumption DEF HasByte, Resident
<1> QED
  BY <1>1, <1>3, <1>4, <1>6, <1>7, FlatCell DEF ByteAt, PageBytes, HasByte

(* A word read is the word of the flat memory.                             *)
LEMMA ReadFlat ==
  ASSUME Inv, NEW a \in 0 .. MaxMemSize - 2, ReadWord(a)
  PROVE  Flat!Read(running, a)
<1>1. CanAccess(a)
  BY DEF ReadWord
<1>2. /\ HasByte(running, a) /\ HasByte(running, a + 1)
      /\ FlatBytes[<<running, a>>] = ByteAt(running, a)
      /\ FlatBytes[<<running, a + 1>>] = ByteAt(running, a + 1)
      /\ FlatBytes[<<running, a>>] # None /\ FlatBytes[<<running, a + 1>>] # None
  BY <1>1, AccessibleByte
<1>3. UNCHANGED <<memorySize, pageTable, physicalMemory, pages>>
  BY DEF ReadWord, frameVars
<1>4. FlatBytes' = FlatBytes
  BY <1>3, FlatUnchanged DEF PageBytes, Resident
<1>5. Accessing = running /\ UNCHANGED Accessing
  BY <1>1 DEF ReadWord, CanAccess, callVars, Accessing
<1> QED
  BY <1>2, <1>4, <1>5 DEF ReadWord, Flat!Read

(* A word written is written to the flat memory: its two bytes, which may  *)
(* be in two pages, and no other byte of any process.                      *)
LEMMA WriteFlat ==
  ASSUME Inv, NEW a \in 0 .. MaxMemSize - 2, NEW v \in Words, WriteWord(a, v)
  PROVE  Flat!Write(running, a, v)
<1> DEFINE f == pageTable[Page(running, a)]
           g == pageTable[Page(running, a + 1)]
           i == a % FrameSize
           j == (a + 1) % FrameSize
           lo == v % ByteBase
           hi == v \div ByteBase
<1>1. CanAccess(a) /\ running \in Pids /\ a \in Nat
  <2>1. CanAccess(a)
    BY DEF WriteWord
  <2>2. a \in Nat
    BY ConstantsAssumption
  <2> QED
    BY <2>1, <2>2, AccessibleByte
<1>2. /\ a \in 0 .. MaxMemSize - 1 /\ a + 1 \in 0 .. MaxMemSize - 1
      /\ a < memorySize[running] /\ a + 1 < memorySize[running]
      /\ Page(running, a) \in Pages /\ Page(running, a + 1) \in Pages
      /\ HasByte(running, a) /\ HasByte(running, a + 1)
      /\ f \in Frames /\ g \in Frames
      /\ FlatBytes[<<running, a>>] # None /\ FlatBytes[<<running, a + 1>>] # None
  BY <1>1, AccessibleByte
<1>3. i \in 0 .. FrameSize - 1 /\ j \in 0 .. FrameSize - 1
  <2>1. a + 1 \in Nat
    BY <1>1
  <2> QED
    BY <1>1, <2>1, Address
<1>4. /\ physicalMemory' = [physicalMemory EXCEPT ![f][i] = lo, ![g][j] = hi]
      /\ UNCHANGED <<memorySize, pageTable, pages, lastRead>>
  BY <1>2 DEF WriteWord
<1>5. physicalMemory \in [Frames -> Contents]
  BY DEF Inv, TypeOK
<1> HIDE DEF f, g, i, j, lo, hi
<1>6. ASSUME NEW h \in Frames, NEW k \in 0 .. FrameSize - 1
      PROVE  physicalMemory'[h][k] = IF h = g /\ k = j THEN hi
                                     ELSE IF h = f /\ k = i THEN lo
                                     ELSE physicalMemory[h][k]
  BY <1>2, <1>3, <1>4, <1>5 DEF Contents
<1>7. ASSUME NEW r \in Pids, NEW b \in 0 .. MaxMemSize - 1, b < memorySize[r]
      PROVE  PageBytes(Page(r, b))'[b % FrameSize]
               = IF r = running /\ b = a + 1 THEN hi
                 ELSE IF r = running /\ b = a THEN lo
                 ELSE PageBytes(Page(r, b))[b % FrameSize]
  <2> DEFINE h == pageTable[Page(r, b)]
             k == b % FrameSize
  <2>1. b \in Nat /\ Page(r, b) \in Pages /\ k \in 0 .. FrameSize - 1
    BY <1>7, AddressLive, Address DEF Inv
  <2>2. CASE ~ Resident(Page(r, b))
    <3>1. ~ (r = running /\ b \in {a, a + 1})
      BY <1>2, <2>2 DEF HasByte
    <3> QED
      BY <1>4, <2>2, <3>1 DEF PageBytes, Resident, Page
  <2>3. CASE Resident(Page(r, b))
    <3>1. h \in Frames
      BY <2>1, <2>3 DEF Inv, TypeOK, Resident
    <3>2. PageBytes(Page(r, b))'[k] = physicalMemory'[h][k]
      BY <1>4, <2>3 DEF PageBytes, Resident, Page
    <3>3. PageBytes(Page(r, b))[k] = physicalMemory[h][k]
      BY <2>3 DEF PageBytes
    <3>4. ASSUME NEW c \in {a, a + 1}
          PROVE  (h = pageTable[Page(running, c)] /\ k = c % FrameSize)
                   <=> (r = running /\ b = c)
      <4> SUFFICES ASSUME h = pageTable[Page(running, c)], k = c % FrameSize
                   PROVE  r = running /\ b = c
        OBVIOUS
      <4>1. Page(running, c) \in Pages /\ c \in Nat
        BY <1>1, <1>2
      <4>2. frameTable[h] = Page(r, b) /\ frameTable[h] = Page(running, c)
        BY <2>1, <3>1, <4>1 DEF Inv, Tables, TablesMirror
      <4>3. r = running /\ b \div FrameSize = c \div FrameSize
        BY <4>2 DEF Page
      <4> QED
        BY <2>1, <4>1, <4>3, SameByte
    <3>5. /\ (h = g /\ k = j) <=> (r = running /\ b = a + 1)
          /\ (h = f /\ k = i) <=> (r = running /\ b = a)
      BY <3>4 DEF f, g, i, j
    <3> HIDE DEF h, k
    <3>6. k \in 0 .. FrameSize - 1
      BY <2>1 DEF k
    <3>7. physicalMemory'[h][k] = IF r = running /\ b = a + 1 THEN hi
                                  ELSE IF r = running /\ b = a THEN lo
                                  ELSE physicalMemory[h][k]
      BY <1>6, <3>1, <3>5, <3>6
    <3> QED
      BY <3>2, <3>3, <3>7 DEF k
  <2> QED
    BY <2>2, <2>3
<1>8. PICK G : G = [FlatBytes EXCEPT ![<<running, a>>] = lo, ![<<running, a + 1>>] = hi]
  OBVIOUS
<1>9. ASSUME NEW r \in Pids, NEW b \in 0 .. MaxMemSize - 1
      PROVE  (IF b < memorySize'[r] THEN PageBytes(Page(r, b))'[b % FrameSize] ELSE None)
               = G[<<r, b>>]
  <2>1. G[<<r, b>>] = IF r = running /\ b = a + 1 THEN hi
                      ELSE IF r = running /\ b = a THEN lo
                      ELSE FlatBytes[<<r, b>>]
    <3>1. <<r, b>> \in FlatCells /\ DOMAIN FlatBytes = FlatCells
      BY DEF FlatCells, FlatBytes
    <3> HIDE DEF FlatCells
    <3> QED
      BY <1>8, <3>1
  <2>2. CASE b < memorySize[r]
    BY <1>4, <1>7, <2>1, <2>2, FlatCell
  <2>3. CASE ~ (b < memorySize[r])
    BY <1>2, <1>4, <2>1, <2>3, FlatCell
  <2> QED
    BY <2>2, <2>3
<1>10. G = [c \in FlatCells |-> G[c]]
  BY <1>8 DEF FlatBytes, FlatCells
<1>11. FlatBytes' = G
  BY <1>9, <1>10, FlatNext
<1>12. FlatBytes' = [FlatBytes EXCEPT ![<<running, a>>] = v % ByteBase,
                                      ![<<running, a + 1>>] = v \div ByteBase]
  BY <1>8, <1>11 DEF lo, hi
<1>13. Accessing = running /\ UNCHANGED Accessing
  BY <1>1 DEF WriteWord, CanAccess, callVars, Accessing
<1> QED
  BY <1>2, <1>4, <1>12, <1>13 DEF Flat!Write

------------------------------------------------------------------------------
(* Nothing is mapped before the first process is created.                  *)
LEMMA InitFlat == Init => Flat!Init
<1> SUFFICES ASSUME Init
             PROVE  Flat!Init
  OBVIOUS
<1>1. \A c \in FlatCells : c[1] \in Pids /\ c[2] \in Nat
  BY DEF FlatCells
<1>2. FlatBytes = [c \in FlatCells |-> None]
  BY <1>1 DEF Init, FlatBytes, FlatCells
<1> QED
  BY <1>2 DEF Init, Flat!Init, Flat!Cells, FlatCells, Accessing

(* Every step of the allocator is a step of the flat memory or invisible   *)
(* in it.                                                                  *)
LEMMA NextFlat == Inv /\ [Next]_vars => [Flat!Next]_<<FlatBytes, lastRead, Accessing>>
<1> SUFFICES ASSUME Inv, [Next]_vars
             PROVE  [Flat!Next]_<<FlatBytes, lastRead, Accessing>>
  OBVIOUS
<1>1. ASSUME NEW pid \in Pids, NEW size \in MemSizes, CreateProcess(pid, size)
      PROVE  Flat!Next
  BY <1>1, CreateFlat DEF Flat!Next
<1>2. ASSUME NEW pid \in Pids, DestroyProcess(pid)
      PROVE  Flat!Next
  BY <1>2, DestroyFlat DEF Flat!Next
<1>3. ASSUME NEW a \in 0 .. MaxMemSize - 2, ReadWord(a)
      PROVE  Flat!Next
  <2>1. running \in Pids
    BY <1>3 DEF ReadWord, CanAccess, Inv, TypeOK
  <2> QED
    BY <1>3, <2>1, ReadFlat DEF Flat!Next
<1>4. ASSUME NEW a \in 0 .. MaxMemSize - 2, NEW v \in Words, WriteWord(a, v)
      PROVE  Flat!Next
  <2>1. running \in Pids
    BY <1>4 DEF WriteWord, CanAccess, Inv, TypeOK
  <2> QED
    BY <1>4, <2>1, WriteFlat DEF Flat!Next, Words
<1>5. ASSUME UNCHANGED <<FlatBytes, lastRead>>, running' \in Pids \cup {None}
      PROVE  Flat!Next
  <2>1. Accessing' \in Pids \cup {None}
    BY <1>5 DEF Accessing
  <2> QED
    BY <1>5, <2>1 DEF Flat!Next, Flat!Turn
<1>6. CASE PageInFree \/ PageInEvict
  <2>1. UNCHANGED <<lastRead, running>> /\ running \in Pids \cup {None}
    BY <1>6 DEF PageInFree, PageInEvict, Pin, Inv, TypeOK
  <2> QED
    BY <1>5, <1>6, <2>1, PageInFlat
<1>7. ASSUME \/ \E pid \in Pids : ReleasePins(pid) \/ BeginInstruction(pid)
             \/ \E r \in Regions(memorySize[running]) : EnsureResident(r)
             \/ PageHit \/ PageUnavailable \/ Return \/ EndAttempt
      PROVE  Flat!Next
  <2>1. UNCHANGED <<memorySize, pageTable, physicalMemory, pages, lastRead>>
    BY <1>7 DEF frameVars, ReleasePins, BeginInstruction, EnsureResident,
       PageHit, Pin, PageUnavailable, Return, EndAttempt
  <2>2. running' \in Pids \cup {None}
    BY <1>7 DEF callVars, ReleasePins, BeginInstruction, EnsureResident,
       PageHit, Pin, PageUnavailable, Return, EndAttempt, Inv, TypeOK
  <2>3. FlatBytes' = FlatBytes
    BY <2>1, FlatUnchanged DEF PageBytes, Resident
  <2> QED
    BY <1>5, <2>1, <2>2, <2>3
<1>8. CASE UNCHANGED vars
  <2>1. UNCHANGED <<memorySize, pageTable, physicalMemory, pages, lastRead, Accessing>>
    BY <1>8 DEF vars, frameVars, callVars, Accessing
  <2> QED
    BY <2>1, FlatUnchanged DEF PageBytes, Resident
<1> QED
  BY <1>1, <1>2, <1>3, <1>4, <1>6, <1>7, <1>8 DEF Next

(* Demand paging implements the flat memory: no process can tell that its  *)
(* pages are moved, evicted and reloaded, or that others exist.            *)
THEOREM PagingIsInvisible == Spec => ImplementsFlatMemory
<1>1. Init => Flat!Init
  BY InitFlat
<1>2. Inv /\ [Next]_vars => [Flat!Next]_<<FlatBytes, lastRead, Accessing>>
  BY NextFlat
<1> QED
  BY <1>1, <1>2, Invariance, PTL DEF Spec, ImplementsFlatMemory, Flat!Spec
===============================================================================

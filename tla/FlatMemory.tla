------------------------------ MODULE FlatMemory ------------------------------
(***************************************************************************)
(* What demand paging promises to the processes: each one owns a private,  *)
(* byte-addressed space [0, memorySize) that starts as zeros, a word read  *)
(* is the word last written there, and nothing another process does (and   *)
(* no page fault or eviction) is visible in it.  Memory changes only when  *)
(* the process whose turn it is writes to it.                              *)
(***************************************************************************)
EXTENDS Integers

CONSTANTS
  Pids,        \* process ids
  MaxMemSize,  \* largest address space, in bytes
  MemSizes,    \* the address-space sizes processes are created with
  ByteBase,    \* number of values of a byte (256 in the program)
  None         \* no byte: the address is not mapped

VARIABLES
  mem,         \* mem[<<pid, addr>>]: the byte, or None
  out,         \* the word the last read returned, or None
  turn         \* the process that may access its memory now, or None

Cells == Pids \X (0 .. MaxMemSize - 1)

Mapped(pid) == mem[<<pid, 0>>] # None

Init ==
  /\ mem = [c \in Cells |-> None]
  /\ out = None
  /\ turn = None

Create(pid, size) ==
  /\ turn = None
  /\ ~ Mapped(pid)
  /\ mem' = [c \in Cells |-> IF c[1] = pid /\ c[2] < size THEN 0 ELSE mem[c]]
  /\ UNCHANGED <<out, turn>>

Destroy(pid) ==
  /\ turn = None
  /\ mem' = [c \in Cells |-> IF c[1] = pid THEN None ELSE mem[c]]
  /\ UNCHANGED <<out, turn>>

Write(pid, a, v) ==
  /\ turn = pid
  /\ mem[<<pid, a>>] # None /\ mem[<<pid, a + 1>>] # None
  /\ mem' = [mem EXCEPT ![<<pid, a>>]     = v % ByteBase,
                        ![<<pid, a + 1>>] = v \div ByteBase]
  /\ UNCHANGED <<out, turn>>

Read(pid, a) ==
  /\ turn = pid
  /\ mem[<<pid, a>>] # None /\ mem[<<pid, a + 1>>] # None
  /\ out' = mem[<<pid, a>>] + ByteBase * mem[<<pid, a + 1>>]
  /\ UNCHANGED <<mem, turn>>

Turn(pid) ==
  /\ turn' = pid
  /\ UNCHANGED <<mem, out>>

Next ==
  \/ \E pid \in Pids \cup {None} : Turn(pid)
  \/ \E pid \in Pids :
       \/ \E size \in MemSizes : Create(pid, size)
       \/ Destroy(pid)
       \/ \E a \in 0 .. MaxMemSize - 2 :
            \/ \E v \in 0 .. ByteBase * ByteBase - 1 : Write(pid, a, v)
            \/ Read(pid, a)

Spec == Init /\ [][Next]_<<mem, out, turn>>
==============================================================================

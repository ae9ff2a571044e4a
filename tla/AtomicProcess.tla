---------------------------- MODULE AtomicProcess ----------------------------
(***************************************************************************)
(* What executing a program means: its instructions, FOR blocks unrolled,  *)
(* take effect one at a time, each exactly once and in order, up to the    *)
(* first one that addresses a word outside the address space.  No page, no *)
(* phase and no retry is visible.  The words below the user's bytes hold   *)
(* the variables, in the order the names came into use; READ and WRITE     *)
(* reach them as well as any other word.                                   *)
(***************************************************************************)
EXTENDS Integers, Sequences, SequencesExt

CONSTANTS
  Programs,          \* lists of instructions, none of them a FOR
  MemSizes,          \* sizes of the address spaces, in bytes
  MaxVariables,      \* how many variables a process can have, if they fit
  ByteBase,          \* number of values of a byte
  None               \* no name

VARIABLES
  size,      \* of the address space
  todo,      \* the instructions left
  known,     \* the names in use, the first one first
  space,     \* address -> byte
  status     \* RUNNING, FINISHED or TERMINATED

vars == <<size, todo, known, space, status>>

MaxWord == ByteBase * ByteBase - 1

(* One more name is in use, if there is room for it: its word must fit.    *)
HasRoom(names) == Len(names) < MaxVariables /\ 2 * (Len(names) + 1) <= size
Learn(names, n) ==
  IF n # None /\ n \notin ToSet(names) /\ HasRoom(names) THEN Append(names, n) ELSE names

Init ==
  /\ size \in MemSizes
  /\ todo \in Programs
  /\ known = <<>>
  /\ space = [a \in 0 .. size - 1 |-> 0]
  /\ status = "RUNNING"

Op == Head(todo)
Outside == Op.opcode \in {"READ", "WRITE"} /\ Op.addr + 2 > size

Word(a) == space[a] + ByteBase * space[a + 1]
AddressOf(n) == 2 * (SelectInSeq(known', LAMBDA m : m = n) - 1)
In(n, literal) == IF n = None THEN literal
                  ELSE IF n \in ToSet(known') THEN Word(AddressOf(n)) ELSE 0

(* The word at a becomes v.                                                *)
Put(a, v) ==
  \E lo, hi \in 0 .. ByteBase - 1 :
    /\ lo + ByteBase * hi = v
    /\ space' = [space EXCEPT ![a] = lo, ![a + 1] = hi]

(* The instruction is over; the last one ends the process.                 *)
Consume ==
  /\ status = "RUNNING" /\ todo # <<>>
  /\ todo' = Tail(todo)
  /\ UNCHANGED size
  /\ status' = IF Tail(todo) = <<>> THEN "FINISHED" ELSE "RUNNING"

(* The names of Op are in use from now on, its target's last.              *)
UseNames == known' = Learn(Learn(Learn(known, Op.arg2), Op.arg3), Op.arg1)

(* Op.arg1 becomes v, unless there is no room for one more name.           *)
Assign(v) ==
  /\ UseNames
  /\ IF Op.arg1 \in ToSet(known') THEN Put(AddressOf(Op.arg1), v) ELSE UNCHANGED space

Declare == Op.opcode = "DECLARE" /\ Assign(Op.val1)

Add ==
  /\ Op.opcode = "ADD"
  /\ UseNames
  /\ LET sum == In(Op.arg2, Op.val2) + In(Op.arg3, Op.val3)
     IN  Assign(IF sum > MaxWord THEN MaxWord ELSE sum)

Subtract ==
  /\ Op.opcode = "SUBTRACT"
  /\ UseNames
  /\ LET difference == In(Op.arg2, Op.val2) - In(Op.arg3, Op.val3)
     IN  Assign(IF difference < 0 THEN 0 ELSE difference)

Read == Op.opcode = "READ" /\ Assign(Word(Op.addr))

(* The name a WRITE takes its word from is in use before the WRITE is done. *)
Write ==
  /\ Op.opcode = "WRITE"
  /\ UseNames
  /\ Put(Op.addr, In(Op.arg1, Op.val1))

(* A printed name is in use from then on.                                  *)
Display == Op.opcode = "PRINT" /\ UseNames /\ UNCHANGED space

Sleep == Op.opcode = "SLEEP" /\ UNCHANGED <<known, space>>

Execute == /\ Consume /\ ~ Outside
           /\ Declare \/ Add \/ Subtract \/ Read \/ Write \/ Display \/ Sleep

LookUp ==
  /\ status = "RUNNING" /\ todo # <<>> /\ Op.opcode = "WRITE"
  /\ known' = Learn(known, Op.arg1)
  /\ UNCHANGED <<size, todo, space, status>>

Die == /\ status = "RUNNING" /\ todo # <<>> /\ Outside
       /\ status' = "TERMINATED"
       /\ UNCHANGED <<size, todo, known, space>>

Next == Execute \/ LookUp \/ Die

Spec == Init /\ [][Next]_vars
==============================================================================

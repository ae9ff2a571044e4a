------------------------------- MODULE Process -------------------------------
(***************************************************************************)
(* Process::advance(): one process's instructions, FOR blocks included,    *)
(* executed against a memory that may answer any request for a region with *)
(* a page fault or with nothing at all.                                    *)
(*                                                                         *)
(* A call of advance() is one step, or one step per region it asks the     *)
(* memory for (executeStep).  The memory itself is flat here (FlatMemory   *)
(* is what PagingAllocator implements); only its answers and the addresses *)
(* it granted in the attempt are kept.  The text of messages, the trace    *)
(* and the clock are left out; an empty operand name is None.              *)
(***************************************************************************)
EXTENDS Integers, Sequences, FiniteSets, Functions

CONSTANTS
  Programs,          \* the instruction lists processes are created with
  Instructions,      \* all instructions in them, those in FOR blocks included
  MemSizes,          \* the sizes of their address spaces, in bytes
  Names,             \* variable names
  SymbolTableBytes,  \* SYMBOL_TABLE_BYTES, 64 in the program
  MaxVariables,      \* MAX_VARIABLES, 32 in the program
  ByteBase,          \* number of values of a byte, 256 in the program
  None               \* no name, no offset, no region, no result

RUNNING    == "RUNNING"
FINISHED   == "FINISHED"
TERMINATED == "TERMINATED"

RESIDENT    == "RESIDENT"
FAULTED     == "FAULTED"
UNAVAILABLE == "UNAVAILABLE"
Residency   == {RESIDENT, FAULTED, UNAVAILABLE}

MaxWord   == ByteBase * ByteBase - 1        \* UINT16_MAX
Words     == 0 .. MaxWord
Bytes     == 0 .. ByteBase - 1

ASSUME ProcessConstants ==
  /\ MemSizes \subseteq Nat \ {0}
  /\ SymbolTableBytes \in Nat /\ MaxVariables \in Nat
  /\ MaxVariables * 2 <= SymbolTableBytes
  /\ ByteBase \in Nat \ {0, 1}
  /\ IsFiniteSet(Names)
  /\ None \notin Names /\ None \notin Nat
  /\ None \notin [addr : Nat, len : Nat]

Opcodes == {"PRINT", "DECLARE", "ADD", "SUBTRACT", "SLEEP", "FOR", "READ", "WRITE"}

(* What parseInstructions() and generateInstructions() return, without the *)
(* text of a PRINT: an operand the opcode has no use for is empty.         *)
ASSUME ProgramsAssumption ==
  /\ Programs \subseteq Seq(Instructions) \ {<<>>}
  /\ \A i \in Instructions :
       /\ i.opcode \in Opcodes
       /\ i.arg1 \in Names \cup {None}
       /\ i.arg2 \in Names \cup {None}
       /\ i.arg3 \in Names \cup {None}
       /\ i.val1 \in Words /\ i.val2 \in Words /\ i.val3 \in Words
       /\ i.addr \in Nat
       /\ i.body \in Seq(Instructions)
       /\ i.opcode = "FOR" => i.val1 > 0 /\ i.body # <<>>
       /\ i.opcode \in {"READ", "DECLARE", "ADD", "SUBTRACT"} => i.arg1 # None
       /\ i.opcode \in {"PRINT", "SLEEP"} => i.arg1 = None /\ i.arg3 = None
       /\ i.opcode \notin {"PRINT", "ADD", "SUBTRACT"} => i.arg2 = None /\ i.arg3 = None

VARIABLES
  instructions,      \* the program
  memorySize,
  state,             \* RUNNING stands for every state the scheduler keeps
  currentLine,       \* from 0, as in the code
  forStack,          \* the FOR blocks entered, the innermost last
  instrPhase,        \* how far a READ or a WRITE has got: 0 or 1
  phaseValue,        \* the word phase 0 fetched
  symbolTable,       \* name -> offset in the segment, None when absent
  violationAddress,  \* None until the process is killed
  sleepRemaining,    \* set by SLEEP, until the scheduler took it
  mem,               \* address -> byte
  asked,             \* the region ensureResident() was called for, or None
  granted,           \* the addresses the memory answered for in this attempt
  touched,           \* history: the addresses the last step read or wrote
  done,              \* history: the instructions completed, FOR left out
  topLine            \* history: the line of the program being executed

program == <<instructions, memorySize>>
control == <<state, currentLine, forStack, instrPhase, violationAddress>>
data    == <<phaseValue, symbolTable, mem>>
vars == <<program, control, data, sleepRemaining, asked, granted, touched, done,
          topLine>>

Segment == [addr |-> 0, len |-> IF SymbolTableBytes <= memorySize
                                THEN SymbolTableBytes ELSE memorySize]
Target(a) == [addr |-> a, len |-> 2]
Region(r) == r.addr .. r.addr + r.len - 1

------------------------------------------------------------------------------
(***************************************************************************)
(* Faulty forms of the definitions that follow, one plausible slip each;   *)
(* no specification uses them, the properties are tested against them.     *)
(***************************************************************************)
AcceptsLastByte(a) == a + 1 <= memorySize \* half a word outside
FullSizeOnly(size) == MaxVariables        \* forgets that small spaces have less
WrapsAround(n) == n % (MaxWord + 1)       \* no saturation
DropsRounds(c) == c.bodyIdx + 1 >= Len(c.forInst.body)    \* one round only
KeepsPhase == instrPhase                  \* the next instruction starts midway
AsksForTarget(i) == Target(i.addr)        \* a WRITE's operand is not asked for
------------------------------------------------------------------------------

(***************************************************************************)
(* Addresses, and the symbol table.  A name gets the next free word of the *)
(* segment when it is first used, even to read it; there is none for one   *)
(* name too many.                                                          *)
(***************************************************************************)
IsValidAddress(a) == a + 2 <= memorySize

Min2(a, b) == IF a <= b THEN a ELSE b

Capacity(size) == Min2(MaxVariables, size \div 2)

Defined(table) == {n \in Names : table[n] # None}

Resolved(table, name, size) ==
  IF name = None \/ name \in Defined(table)
     \/ Cardinality(Defined(table)) >= Capacity(size)
  THEN table
  ELSE [table EXCEPT ![name] = 2 * Cardinality(Defined(table))]

(* The table once instruction i resolved its names, in the code's order.   *)
TableAfter(table, i, size) ==
  Resolved(Resolved(Resolved(table, i.arg2, size), i.arg3, size), i.arg1, size)

(* readWord() and writeWord(): outside the space a word is 0, and stays so. *)
WordAt(m, a) == IF {a, a + 1} \subseteq DOMAIN m THEN m[a] + ByteBase * m[a + 1]
                                                 ELSE 0
WithWord(m, a, v) == [m EXCEPT ![a] = v % ByteBase, ![a + 1] = v \div ByteBase]

(* readVariable() and writeVariable(), for a name resolved in table.       *)
ValueOf(m, table, name) == IF table[name] = None THEN 0 ELSE WordAt(m, table[name])
Stored(m, table, name, v) ==
  IF table[name] = None THEN m ELSE WithWord(m, table[name], v)

Slots(table, names) ==
  UNION {{table[n], table[n] + 1} : n \in {x \in names \ {None} : table[x] # None}}

(* An operand is a variable, or a literal.                                 *)
Operand(m, table, name, val) == IF name = None THEN val ELSE ValueOf(m, table, name)

ClampUint16(n) == IF n < 0 THEN 0 ELSE Min2(n, MaxWord)

(* The memory after an instruction that only has operands in the table.    *)
Computed(m, table, i) ==
  LET a == Operand(m, table, i.arg2, i.val2)
      b == Operand(m, table, i.arg3, i.val3)
  IN  CASE i.opcode = "DECLARE"  -> Stored(m, table, i.arg1, i.val1)
        [] i.opcode = "ADD"      -> Stored(m, table, i.arg1, ClampUint16(a + b))
        [] i.opcode = "SUBTRACT" -> Stored(m, table, i.arg1, ClampUint16(a - b))
        [] OTHER                 -> m

TouchesSymbolTable(i) ==
  \/ (i.opcode = "PRINT" /\ i.arg2 # None)
  \/ i.opcode \in {"DECLARE", "ADD", "SUBTRACT"}

(***************************************************************************)
(* Lines and FOR contexts.  A context is over when its last instruction    *)
(* was executed in its last round; the contexts on top of the innermost    *)
(* one that is not over are popped, and that one goes on.                  *)
(***************************************************************************)
Over(c) == c.bodyIdx + 1 >= Len(c.forInst.body) /\ c.remaining = 1

Stepped(c) ==
  IF c.bodyIdx + 1 < Len(c.forInst.body)
  THEN [c EXCEPT !.bodyIdx = @ + 1]
  ELSE [c EXCEPT !.bodyIdx = 0, !.remaining = @ - 1]

NextStack ==
  LET open == {k \in DOMAIN forStack : ~ Over(forStack[k])}
  IN  IF open = {} THEN <<>>
      ELSE LET k == CHOOSE k \in open : \A l \in open : l <= k
           IN  Append(SubSeq(forStack, 1, k - 1), Stepped(forStack[k]))

(* pushForContext()                                                        *)
Entered(i) == Append(forStack, [forInst |-> i, bodyIdx |-> 0, remaining |-> i.val1])

NextPhase == 0      \* a new instruction always starts at phase 0

(* getCurrentInstruction()                                                 *)
Current ==
  IF forStack = <<>> THEN instructions[currentLine + 1]
  ELSE LET c == forStack[Len(forStack)] IN c.forInst.body[c.bodyIdx + 1]

AdvanceLine ==
  /\ instrPhase' = NextPhase
  /\ forStack' = NextStack
  /\ currentLine' = IF forStack = <<>> THEN currentLine + 1 ELSE currentLine
  /\ state' = IF forStack' = <<>> /\ currentLine' >= Len(instructions)
              THEN FINISHED ELSE state
  /\ done' = Append(done, Current)
  /\ UNCHANGED violationAddress

(* The region phase 1 of a READ or a WRITE asks for, or of another         *)
(* instruction its only phase; and the one phase 0 asks for.               *)
LastRegion(i)    == IF i.opcode = "WRITE" THEN Target(i.addr) ELSE Segment
OperandRegion(i) == IF i.opcode = "READ" THEN Target(i.addr) ELSE Segment

(* A literal needs no page.                                                *)
Fetches(i) == i.opcode = "READ" \/ (i.opcode = "WRITE" /\ i.arg1 # None)
------------------------------------------------------------------------------
Init ==
  /\ instructions \in Programs /\ memorySize \in MemSizes
  /\ state = RUNNING /\ currentLine = 0 /\ forStack = <<>>
  /\ instrPhase = 0 /\ phaseValue = 0
  /\ symbolTable = [n \in Names |-> None]
  /\ violationAddress = None /\ sleepRemaining = 0
  /\ mem = [a \in 0 .. memorySize - 1 |-> 0]
  /\ asked = None /\ granted = {} /\ touched = {}
  /\ done = <<>> /\ topLine = 0

(* advance() is called: never for a finished process, nor for a sleeper.   *)
Advance ==
  /\ state = RUNNING /\ asked = None /\ sleepRemaining = 0
  /\ topLine' = IF forStack = <<>> THEN currentLine ELSE topLine
  /\ touched' = {}
  /\ UNCHANGED program

EnterFor ==
  /\ Advance
  /\ Current.opcode = "FOR"
  /\ currentLine' = IF forStack = <<>> THEN currentLine + 1 ELSE currentLine
  /\ forStack' = Entered(Current)
  /\ UNCHANGED <<state, instrPhase, violationAddress, data, sleepRemaining,
                 asked, granted, done>>

Sleep ==
  /\ Advance
  /\ Current.opcode = "SLEEP"
  /\ sleepRemaining' = Current.val1
  /\ AdvanceLine
  /\ UNCHANGED <<data, asked, granted>>

(* The scheduler moves the process to its sleeping queue, and back.        *)
Slept ==
  /\ state = RUNNING /\ sleepRemaining > 0
  /\ sleepRemaining' = 0
  /\ touched' = {}
  /\ UNCHANGED <<program, control, data, asked, granted, done, topLine>>

(* An attempt at another instruction: the pins of the last one are gone.   *)
BeginInstruction ==
  /\ Advance
  /\ Current.opcode \notin {"FOR", "SLEEP"}
  /\ granted' = {}
  /\ UNCHANGED sleepRemaining

Addressing == Current.opcode \in {"READ", "WRITE"}

(* The address is checked before anything is asked for.                    *)
RaiseViolation ==
  /\ BeginInstruction
  /\ Addressing /\ ~ IsValidAddress(Current.addr)
  /\ state' = TERMINATED
  /\ violationAddress' = Current.addr
  /\ UNCHANGED <<currentLine, forStack, instrPhase, data, asked, done>>

(* READ and WRITE, from the phase they have got to.                        *)
AskForOperand ==
  /\ BeginInstruction
  /\ Addressing /\ IsValidAddress(Current.addr)
  /\ instrPhase = 0 /\ Fetches(Current)
  /\ asked' = OperandRegion(Current)
  /\ UNCHANGED <<control, data, done>>

AskForTarget ==
  /\ BeginInstruction
  /\ Addressing /\ IsValidAddress(Current.addr)
  /\ instrPhase = 1 \/ ~ Fetches(Current)
  /\ instrPhase' = 1
  /\ phaseValue' = IF instrPhase = 0 THEN Current.val1 ELSE phaseValue
  /\ asked' = LastRegion(Current)
  /\ UNCHANGED <<state, currentLine, forStack, violationAddress, symbolTable,
                 mem, done>>

AskForSymbolTable ==
  /\ BeginInstruction
  /\ TouchesSymbolTable(Current)
  /\ asked' = Segment
  /\ UNCHANGED <<control, data, done>>

NeedsNoPage ==
  /\ BeginInstruction
  /\ ~ Addressing /\ ~ TouchesSymbolTable(Current)
  /\ AdvanceLine
  /\ UNCHANGED <<data, asked>>

(* The memory answers r; on UNAVAILABLE it dropped what it had granted.    *)
Answer(r) ==
  /\ asked # None
  /\ granted' = IF r = UNAVAILABLE THEN {} ELSE granted \cup Region(asked)
  /\ UNCHANGED <<program, sleepRemaining, topLine>>

(* A faulty form of the next one: the word is fetched for ever.            *)
IgnoresPhase == Addressing /\ Fetches(Current)

Fetching == Addressing /\ instrPhase = 0

(* PAGE_FAULT: nothing is consumed, the next attempt is at the same phase. *)
Fault(r) ==
  /\ Answer(r)
  /\ r = UNAVAILABLE \/ (r = FAULTED /\ ~ Fetching)
  /\ asked' = None
  /\ touched' = {}
  /\ UNCHANGED <<control, data, done>>

(* Phase 0 is over once its word is fetched, even if that took a fault,    *)
(* which costs the tick: phase 1 is left to the next attempt.              *)
FetchOperand(r) ==
  /\ Answer(r)
  /\ r # UNAVAILABLE /\ Fetching
  /\ IF Current.opcode = "READ"
     THEN /\ phaseValue' = WordAt(mem, Current.addr)
          /\ touched' = Region(Target(Current.addr))
          /\ UNCHANGED symbolTable
     ELSE /\ symbolTable' = TableAfter(symbolTable, Current, memorySize)
          /\ phaseValue' = ValueOf(mem, symbolTable', Current.arg1)
          /\ touched' = Slots(symbolTable', {Current.arg1})
  /\ instrPhase' = 1
  /\ asked' = IF r = FAULTED THEN None ELSE LastRegion(Current)
  /\ UNCHANGED <<state, currentLine, forStack, violationAddress, mem, done>>

(* The instruction's last region is resident: it runs, and is consumed.    *)
Execute(r) ==
  /\ Answer(r)
  /\ r = RESIDENT /\ ~ Fetching
  /\ IF Current.opcode = "WRITE"
     THEN /\ mem' = WithWord(mem, Current.addr, phaseValue)
          /\ touched' = Region(Target(Current.addr))
          /\ UNCHANGED symbolTable
     ELSE /\ symbolTable' = TableAfter(symbolTable, Current, memorySize)
          /\ mem' = IF Current.opcode = "READ"
                    THEN Stored(mem, symbolTable', Current.arg1, phaseValue)
                    ELSE Computed(mem, symbolTable', Current)
          /\ touched' = Slots(symbolTable',
                              {Current.arg1, Current.arg2, Current.arg3})
  /\ asked' = None
  /\ AdvanceLine
  /\ UNCHANGED phaseValue

Attempt == \/ EnterFor \/ Sleep \/ RaiseViolation \/ AskForOperand
           \/ AskForTarget \/ AskForSymbolTable \/ NeedsNoPage

Next == \/ Attempt \/ Slept
        \/ \E r \in Residency : Fault(r) \/ FetchOperand(r) \/ Execute(r)

Spec == Init /\ [][Next]_vars

(* The scheduler keeps calling advance() and takes the sleep; and the      *)
(* memory does not answer with faults for ever.                            *)
FairSpec ==
  /\ Spec
  /\ WF_vars(Next)
  /\ SF_vars(FetchOperand(RESIDENT)) /\ SF_vars(Execute(RESIDENT))

------------------------------------------------------------------------------
Leaves   == {i \in Instructions : i.opcode # "FOR"}
Contexts == [forInst : Instructions, bodyIdx : Nat, remaining : Nat]

TypeOK ==
  /\ instructions \in Programs /\ memorySize \in MemSizes
  /\ state \in {RUNNING, FINISHED, TERMINATED}
  /\ currentLine \in 0 .. Len(instructions)
  /\ forStack \in Seq(Contexts)
  /\ \A k \in DOMAIN forStack :
       /\ forStack[k].forInst.opcode = "FOR"
       /\ forStack[k].bodyIdx < Len(forStack[k].forInst.body)
       /\ forStack[k].remaining \in 1 .. forStack[k].forInst.val1
  /\ instrPhase \in {0, 1} /\ phaseValue \in Words
  /\ symbolTable \in [Names -> Nat \cup {None}]
  /\ violationAddress \in Nat \cup {None} /\ sleepRemaining \in Nat
  /\ mem \in [0 .. memorySize - 1 -> Bytes]
  /\ asked \in [addr : Nat, len : Nat] \cup {None}
  /\ granted \subseteq 0 .. memorySize - 1
  /\ touched \subseteq Nat
  /\ done \in Seq(Leaves)
  /\ topLine \in 0 .. Len(instructions)

(* Every word an instruction reads or writes is in pages the memory        *)
(* answered for in this very attempt: no access rests on a page an earlier *)
(* attempt brought in, and none leaves the address space.                  *)
AccessesGranted == touched \subseteq granted

(* Two names never share a byte, and every name's word lies in the symbol  *)
(* table segment, in a process of any size: assigning a variable changes   *)
(* no other.                                                               *)
SlotsApart ==
  \A m, n \in Defined(symbolTable) :
    /\ Slots(symbolTable, {n}) \subseteq Region(Segment)
    /\ m # n => Slots(symbolTable, {m}) \cap Slots(symbolTable, {n}) = {}

(* What instruction i does to memory m as a whole, its names resolved.     *)
Effect(m, table, i) ==
  LET t == TableAfter(table, i, memorySize)
  IN  CASE i.opcode = "READ"  -> Stored(m, t, i.arg1, WordAt(m, i.addr))
        [] i.opcode = "WRITE" -> WithWord(m, i.addr, Operand(m, t, i.arg1, i.val1))
        [] OTHER              -> Computed(m, t, i)

(* An instruction does to memory and symbol table what it would do at once *)
(* in the state it completes in, and nothing before: the word its first    *)
(* phase fetched is not stale after any number of faults, and was fetched  *)
(* for this instruction.                                                   *)
TakesEffectAtOnce ==
  [][IF done' = done THEN UNCHANGED mem
     ELSE /\ mem' = Effect(mem, symbolTable, Current)
          /\ symbolTable' = TableAfter(symbolTable, Current, memorySize)]_vars

(* README.md: a process killed by an access violation is listed at the     *)
(* line it died on.                                                        *)
KilledAtItsLine == state = TERMINATED => currentLine = topLine

(* A process whose page faults end runs to its end.                        *)
Ends == <>(state # RUNNING)
==============================================================================

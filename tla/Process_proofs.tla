---------------------------- MODULE Process_proofs ----------------------------
(***************************************************************************)
(* One process, for every program, size of its space and width of a byte,  *)
(* whatever the memory answers: it touches only what this attempt was      *)
(* granted, its variables never overlap, and what it executes is its       *)
(* program, unrolled, one instruction at a time.                           *)
(***************************************************************************)
EXTENDS Unrolling, FiniteSetTheorems, SequenceTheorems, WellFoundedInduction, TLAPS

(* A running process has an instruction to execute.                        *)
MoreToDo == state = RUNNING /\ forStack = <<>> => currentLine < Len(instructions)

(* The region asked for is the one the current instruction needs in the    *)
(* phase it is in, and lies in the address space.                          *)
AsksItsNeed ==
  asked # None =>
    /\ state = RUNNING /\ Current.opcode \notin {"FOR", "SLEEP"}
    /\ Addressing => IsValidAddress(Current.addr)
    /\ Fetching => Fetches(Current) /\ asked = OperandRegion(Current)
    /\ ~ Fetching => asked = LastRegion(Current)

(* The names defined have the first words of the segment, each its own.    *)
Packed(table, size) ==
  /\ table \in [Names -> Nat \cup {None}]
  /\ Cardinality(Defined(table)) <= Capacity(size)
  /\ \A n \in Defined(table) :
       \E k \in 0 .. Cardinality(Defined(table)) - 1 : table[n] = 2 * k
  /\ \A m, n \in Defined(table) : table[m] = table[n] => m = n

Inv == /\ TypeOK /\ MoreToDo /\ AsksItsNeed /\ Packed(symbolTable, memorySize)
       /\ AccessesGranted

------------------------------------------------------------------------------
(* Words and the bytes they are made of.                                   *)
LEMMA ByteFacts ==
  /\ ByteBase \in Nat /\ ByteBase > 1
  /\ 0 \in Words /\ 0 \in Bytes /\ MaxWord \in Words /\ Words \subseteq Nat
<1>1. ByteBase \in Nat /\ ByteBase > 1
  BY ProcessConstants
<1>2. ByteBase * ByteBase \in Nat /\ ByteBase * ByteBase >= 1
  BY <1>1
<1> QED
  BY <1>1, <1>2 DEF Words, Bytes, MaxWord

LEMMA TwoBytesMakeAWord ==
  ASSUME NEW x \in Bytes, NEW y \in Bytes
  PROVE  x + ByteBase * y \in Words
<1>1. /\ ByteBase \in Nat /\ ByteBase > 1 /\ x \in Nat /\ y \in Nat
      /\ x <= ByteBase - 1 /\ y <= ByteBase - 1
  BY ByteFacts DEF Bytes
<1>2. ByteBase * y \in Nat /\ ByteBase * y <= ByteBase * (ByteBase - 1)
  BY <1>1
<1>3. ByteBase * (ByteBase - 1) = ByteBase * ByteBase - ByteBase
  BY <1>1
<1>4. ByteBase * ByteBase \in Nat
  BY <1>1
<1> QED
  BY <1>1, <1>2, <1>3, <1>4 DEF Words, MaxWord

LEMMA AWordIsTwoBytes ==
  ASSUME NEW v \in Words
  PROVE  v % ByteBase \in Bytes /\ v \div ByteBase \in Bytes
<1> DEFINE q == v \div ByteBase
<1>1. /\ ByteBase \in Nat /\ ByteBase > 1 /\ v \in Nat
      /\ ByteBase * ByteBase \in Nat /\ v < ByteBase * ByteBase
  BY ByteFacts DEF Words, MaxWord
<1>2. /\ q \in Int /\ v % ByteBase \in 0 .. ByteBase - 1
      /\ v = ByteBase * q + (v % ByteBase)
  BY <1>1
<1> HIDE DEF q
<1>3. q >= 0
  BY <1>1, <1>2
<1>4. q < ByteBase
  <2> SUFFICES ASSUME q >= ByteBase PROVE FALSE
    BY <1>1, <1>2
  <2>1. ByteBase * q >= ByteBase * ByteBase
    BY <1>1, <1>2
  <2> QED
    BY <2>1, <1>1, <1>2
<1> QED
  BY <1>1, <1>2, <1>3, <1>4 DEF q, Bytes

LEMMA WordRead ==
  ASSUME NEW s \in Nat, NEW m \in [0 .. s - 1 -> Bytes], NEW a \in Nat
  PROVE  WordAt(m, a) \in Words
<1>1. CASE {a, a + 1} \subseteq DOMAIN m
  <2>1. m[a] \in Bytes /\ m[a + 1] \in Bytes
    BY <1>1
  <2> QED
    BY <1>1, <2>1, TwoBytesMakeAWord DEF WordAt
<1>2. CASE ~ ({a, a + 1} \subseteq DOMAIN m)
  BY <1>2, ByteFacts DEF WordAt
<1> QED
  BY <1>1, <1>2

LEMMA WordWritten ==
  ASSUME NEW s \in Nat, NEW m \in [0 .. s - 1 -> Bytes], NEW a \in Nat, NEW v \in Words
  PROVE  WithWord(m, a, v) \in [0 .. s - 1 -> Bytes]
<1>1. v % ByteBase \in Bytes /\ v \div ByteBase \in Bytes
  BY AWordIsTwoBytes
<1> QED
  BY <1>1 DEF WithWord

(* A variable is read and written as a word, whether it has a slot or not. *)
LEMMA VariableTyped ==
  ASSUME NEW s \in Nat, NEW m \in [0 .. s - 1 -> Bytes],
         NEW table \in [Names -> Nat \cup {None}], NEW name \in Names, NEW v \in Words
  PROVE  /\ ValueOf(m, table, name) \in Words
         /\ Stored(m, table, name, v) \in [0 .. s - 1 -> Bytes]
<1>1. CASE table[name] = None
  BY <1>1, ByteFacts DEF ValueOf, Stored
<1>2. CASE table[name] # None
  <2>1. table[name] \in Nat
    BY <1>2
  <2> QED
    BY <1>2, <2>1, WordRead, WordWritten DEF ValueOf, Stored
<1> QED
  BY <1>1, <1>2

LEMMA OperandTyped ==
  ASSUME NEW s \in Nat, NEW m \in [0 .. s - 1 -> Bytes],
         NEW table \in [Names -> Nat \cup {None}], NEW name \in Names \cup {None},
         NEW v \in Words
  PROVE  Operand(m, table, name, v) \in Words
BY VariableTyped DEF Operand

LEMMA Clamped == ASSUME NEW n \in Int PROVE ClampUint16(n) \in Words
BY ByteFacts DEF ClampUint16, Min2, Words

(* ADD, SUBTRACT and DECLARE leave bytes in the memory.                    *)
LEMMA ComputedTyped ==
  ASSUME NEW s \in Nat, NEW m \in [0 .. s - 1 -> Bytes],
         NEW table \in [Names -> Nat \cup {None}], NEW i \in Instructions
  PROVE  Computed(m, table, i) \in [0 .. s - 1 -> Bytes]
<1> DEFINE a == Operand(m, table, i.arg2, i.val2)
           b == Operand(m, table, i.arg3, i.val3)
<1>1. /\ i.arg2 \in Names \cup {None} /\ i.arg3 \in Names \cup {None}
      /\ i.val1 \in Words /\ i.val2 \in Words /\ i.val3 \in Words
      /\ i.opcode \in {"DECLARE", "ADD", "SUBTRACT"} => i.arg1 \in Names
  BY ProgramsAssumption
<1>2. a \in Words /\ b \in Words
  BY <1>1, OperandTyped
<1> HIDE DEF a, b
<1>3. a + b \in Int /\ a - b \in Int
  BY <1>2, ByteFacts
<1>4. ClampUint16(a + b) \in Words /\ ClampUint16(a - b) \in Words
  BY <1>3, Clamped
<1>5. CASE i.opcode = "DECLARE"
  <2>1. Computed(m, table, i) = Stored(m, table, i.arg1, i.val1)
    BY <1>5 DEF Computed
  <2> QED
    BY <2>1, <1>1, <1>5, VariableTyped
<1>6. CASE i.opcode = "ADD"
  <2>1. Computed(m, table, i) = Stored(m, table, i.arg1, ClampUint16(a + b))
    BY <1>6 DEF Computed, a, b
  <2> QED
    BY <2>1, <1>1, <1>4, <1>6, VariableTyped
<1>7. CASE i.opcode = "SUBTRACT"
  <2>1. Computed(m, table, i) = Stored(m, table, i.arg1, ClampUint16(a - b))
    BY <1>7 DEF Computed, a, b
  <2> QED
    BY <2>1, <1>1, <1>4, <1>7, VariableTyped
<1>8. CASE i.opcode \notin {"DECLARE", "ADD", "SUBTRACT"}
  BY <1>8 DEF Computed
<1> QED
  BY <1>5, <1>6, <1>7, <1>8

------------------------------------------------------------------------------
(* The symbol table.                                                       *)
LEMMA CapacityFits ==
  ASSUME NEW size \in Nat
  PROVE  /\ Capacity(size) \in Nat
         /\ 2 * Capacity(size) <= SymbolTableBytes /\ 2 * Capacity(size) <= size
<1>1. size \div 2 \in Nat /\ 2 * (size \div 2) <= size
  OBVIOUS
<1> QED
  BY <1>1, ProcessConstants DEF Capacity, Min2

LEMMA DefinedFinite ==
  ASSUME NEW table
  PROVE  IsFiniteSet(Defined(table)) /\ Cardinality(Defined(table)) \in Nat
<1>1. Defined(table) \subseteq Names
  BY DEF Defined
<1>2. IsFiniteSet(Defined(table))
  BY <1>1, ProcessConstants, FS_Subset
<1> QED
  BY <1>2, FS_CardinalityType

(* resolveVariable(): a new name gets the next word.                       *)
LEMMA ResolvedPacked ==
  ASSUME NEW size \in Nat, NEW table, Packed(table, size), NEW name \in Names \cup {None}
  PROVE  Packed(Resolved(table, name, size), size)
<1> DEFINE D == Defined(table)
           t == [table EXCEPT ![name] = 2 * Cardinality(D)]
<1>1. CASE Resolved(table, name, size) = table
  BY <1>1
<1>2. CASE /\ name # None /\ name \notin D /\ ~ (Cardinality(D) >= Capacity(size))
           /\ Resolved(table, name, size) = t
  <2>1. IsFiniteSet(D) /\ Cardinality(D) \in Nat
    BY DefinedFinite
  <2>2. table \in [Names -> Nat \cup {None}] /\ name \in Names
    BY <1>2 DEF Packed
  <2>3. t \in [Names -> Nat \cup {None}]
    BY <2>1, <2>2
  <2>4. /\ t[name] = 2 * Cardinality(D) /\ t[name] \in Nat /\ t[name] # None
        /\ \A n \in Names \ {name} : t[n] = table[n]
    BY <2>1, <2>2, ProcessConstants
  <2>5. Defined(t) = D \cup {name}
    BY <2>2, <2>4 DEF Defined
  <2>6. Cardinality(Defined(t)) = Cardinality(D) + 1
    BY <1>2, <2>1, <2>5, FS_AddElement
  <2>7. Capacity(size) \in Nat
    BY CapacityFits
  <2>8. Cardinality(Defined(t)) <= Capacity(size)
    BY <1>2, <2>1, <2>6, <2>7
  <2>9. \A n \in D : n # name /\ t[n] = table[n]
    BY <1>2, <2>4 DEF Defined
  <2>10. ASSUME NEW n \in D
         PROVE  \E k \in 0 .. Cardinality(D) - 1 : t[n] = 2 * k
    BY <2>9 DEF Packed
  <2>11. ASSUME NEW n \in Defined(t)
         PROVE  \E k \in 0 .. Cardinality(Defined(t)) - 1 : t[n] = 2 * k
    <3>1. CASE n \in D
      <4>1. PICK k \in 0 .. Cardinality(D) - 1 : t[n] = 2 * k
        BY <3>1, <2>10
      <4>2. k \in 0 .. Cardinality(Defined(t)) - 1
        BY <2>1, <2>6
      <4> QED
        BY <4>1, <4>2
    <3>2. CASE n = name
      <4>1. Cardinality(D) \in 0 .. Cardinality(Defined(t)) - 1
        BY <2>1, <2>6
      <4> QED
        BY <3>2, <2>4, <4>1
    <3> QED
      BY <3>1, <3>2, <2>5
  <2>12. \A n \in D : t[n] # t[name]
    <3> SUFFICES ASSUME NEW n \in D PROVE t[n] # t[name]
      OBVIOUS
    <3>1. PICK k \in 0 .. Cardinality(D) - 1 : t[n] = 2 * k
      BY <2>10
    <3> QED
      BY <3>1, <2>1, <2>4
  <2>13. \A m, n \in Defined(t) : t[m] = t[n] => m = n
    <3>1. \A m, n \in D : t[m] = t[n] => m = n
      BY <2>9 DEF Packed
    <3> QED
      BY <3>1, <2>5, <2>12
  <2>14. Packed(t, size)
    BY <2>3, <2>8, <2>11, <2>13 DEF Packed
  <2> QED
    BY <1>2, <2>14
<1> QED
  BY <1>1, <1>2 DEF Resolved

LEMMA TableAfterPacked ==
  ASSUME NEW size \in Nat, NEW table, Packed(table, size), NEW i \in Instructions
  PROVE  Packed(TableAfter(table, i, size), size)
<1>1. /\ i.arg1 \in Names \cup {None} /\ i.arg2 \in Names \cup {None}
      /\ i.arg3 \in Names \cup {None}
  BY ProgramsAssumption
<1> DEFINE t2 == Resolved(table, i.arg2, size)
           t3 == Resolved(t2, i.arg3, size)
<1>2. Packed(t2, size)
  BY <1>1, ResolvedPacked
<1>3. Packed(t3, size)
  <2> HIDE DEF t2
  <2> QED
    BY <1>1, <1>2, ResolvedPacked DEF t3
<1>4. Packed(Resolved(t3, i.arg1, size), size)
  <2> HIDE DEF t3
  <2> QED
    BY <1>1, <1>3, ResolvedPacked
<1> QED
  BY <1>4 DEF TableAfter

(* Every slot is in the segment.                                           *)
LEMMA SlotsInSegment ==
  ASSUME memorySize \in Nat, NEW table, Packed(table, memorySize),
         NEW names, names \subseteq Names \cup {None}
  PROVE  Slots(table, names) \subseteq Region(Segment)
<1> SUFFICES ASSUME NEW n \in names \ {None}, table[n] # None
             PROVE  {table[n], table[n] + 1} \subseteq Region(Segment)
  BY DEF Slots
<1>1. n \in Defined(table)
  BY DEF Defined
<1>2. PICK k \in 0 .. Cardinality(Defined(table)) - 1 : table[n] = 2 * k
  BY <1>1 DEF Packed
<1>3. Cardinality(Defined(table)) \in Nat /\ Capacity(memorySize) \in Nat
  BY DefinedFinite, CapacityFits
<1>4. k \in Nat /\ 2 * k + 2 <= 2 * Capacity(memorySize)
  BY <1>2, <1>3 DEF Packed
<1>5. 2 * k + 2 <= Segment.len /\ Segment.len \in Nat /\ Segment.addr = 0
  BY <1>3, <1>4, CapacityFits, ProcessConstants DEF Segment
<1> QED
  BY <1>2, <1>4, <1>5 DEF Region

------------------------------------------------------------------------------
(* Lines and FOR contexts.                                                 *)
Entries == {c \in Contexts : /\ c.forInst.opcode = "FOR"
                             /\ c.bodyIdx < Len(c.forInst.body)
                             /\ c.remaining \in 1 .. c.forInst.val1}

LEMMA GreatestExists ==
  ASSUME NEW n \in Nat, NEW T \in SUBSET (1 .. n), T # {}
  PROVE  \E k \in T : \A l \in T : l <= k
<1> DEFINE R == {n - k : k \in T}
<1>1. R \subseteq Nat /\ R # {}
  <2>1. \A k \in T : k \in Nat /\ n - k \in Nat
    OBVIOUS
  <2> QED
    BY <2>1
<1>2. PICK x \in R : \A y \in R : ~ (<<y, x>> \in OpToRel(<, Nat))
  <2> HIDE DEF R
  <2> QED
    BY <1>1, WFMin, NatLessThanWellFounded
<1>3. ASSUME NEW y \in R, y < x
      PROVE  <<y, x>> \in OpToRel(<, Nat)
  <2> HIDE DEF R
  <2> QED
    BY <1>1, <1>3, Zenon DEF OpToRel
<1>4. \A y \in R : ~ (y < x)
  BY <1>2, <1>3, Zenon
<1>5. PICK k \in T : x = n - k
  OBVIOUS
<1>6. ASSUME NEW l \in T
      PROVE  l <= k
  <2>1. n - l \in R /\ ~ (n - l < x)
    BY <1>4
  <2>2. k \in Nat /\ l \in Nat
    OBVIOUS
  <2> QED
    BY <2>1, <2>2, <1>5
<1> QED
  BY <1>6

LEMMA BodyIsProgram ==
  ASSUME NEW c \in Entries
  PROVE  /\ c.forInst \in Instructions /\ c.forInst.body \in Seq(Instructions)
         /\ Len(c.forInst.body) \in Nat /\ c.bodyIdx \in Nat
         /\ c.forInst.body[c.bodyIdx + 1] \in Instructions
         /\ c.forInst.val1 \in Nat
<1>1. c.forInst \in Instructions /\ c.bodyIdx \in Nat /\ c.bodyIdx < Len(c.forInst.body)
  BY DEF Entries, Contexts
<1>2. c.forInst.body \in Seq(Instructions) /\ c.forInst.val1 \in Words
  BY <1>1, ProgramsAssumption
<1>3. Len(c.forInst.body) \in Nat /\ c.bodyIdx + 1 \in 1 .. Len(c.forInst.body)
  BY <1>1, <1>2
<1>4. c.forInst.body[c.bodyIdx + 1] \in Instructions
  BY <1>2, <1>3
<1> QED
  BY <1>1, <1>2, <1>3, <1>4, ByteFacts

LEMMA SteppedTyped ==
  ASSUME NEW c \in Entries, ~ Over(c)
  PROVE  Stepped(c) \in Entries
<1>1. /\ c.forInst \in Instructions /\ Len(c.forInst.body) \in Nat
      /\ c.bodyIdx \in Nat /\ c.forInst.val1 \in Nat /\ c.remaining \in Nat
      /\ c.forInst.opcode = "FOR" /\ c.bodyIdx < Len(c.forInst.body)
      /\ c.remaining \in 1 .. c.forInst.val1
      /\ c \in [forInst : Instructions, bodyIdx : Nat, remaining : Nat]
  BY BodyIsProgram DEF Entries, Contexts
<1>2. CASE c.bodyIdx + 1 < Len(c.forInst.body)
  <2>1. Stepped(c) = [c EXCEPT !.bodyIdx = c.bodyIdx + 1]
    BY <1>2 DEF Stepped
  <2> QED
    BY <1>1, <1>2, <2>1 DEF Entries, Contexts
<1>3. CASE ~ (c.bodyIdx + 1 < Len(c.forInst.body))
  <2>1. Stepped(c) = [c EXCEPT !.bodyIdx = 0, !.remaining = c.remaining - 1]
    BY <1>3 DEF Stepped
  <2>2. c.remaining # 1
    BY <1>1, <1>3 DEF Over
  <2>3. Stepped(c) \in [forInst : Instructions, bodyIdx : Nat, remaining : Nat]
    <3> DEFINE d == [c EXCEPT !.bodyIdx = 0]
    <3>1. d \in Contexts /\ d.remaining = c.remaining
      BY <1>1 DEF Contexts
    <3>2. Stepped(c) = [d EXCEPT !.remaining = c.remaining - 1]
      BY <1>1, <2>1
    <3>3. c.remaining - 1 \in Nat
      BY <1>1, <2>2
    <3> HIDE DEF d
    <3> QED
      BY <3>1, <3>2, <3>3 DEF Contexts
  <2>4. /\ Stepped(c).forInst = c.forInst /\ Stepped(c).bodyIdx = 0
        /\ Stepped(c).remaining = c.remaining - 1
    BY <1>1, <2>1
  <2> QED
    BY <1>1, <2>2, <2>3, <2>4 DEF Entries, Contexts
<1> QED
  BY <1>2, <1>3

(* The contexts that are over go, the innermost other one steps.           *)
LEMMA NextStackTyped ==
  ASSUME forStack \in Seq(Entries)
  PROVE  NextStack \in Seq(Entries)
<1> DEFINE open == {k \in DOMAIN forStack : ~ Over(forStack[k])}
<1>1. CASE open = {}
  BY <1>1 DEF NextStack
<1>2. CASE open # {}
  <2>1. Len(forStack) \in Nat /\ DOMAIN forStack = 1 .. Len(forStack)
    OBVIOUS
  <2> DEFINE k == CHOOSE k \in open : \A l \in open : l <= k
  <2>2. \E k_1 \in open : \A l \in open : l <= k_1
    BY <1>2, <2>1, GreatestExists
  <2>3. k \in open
    BY <2>2
  <2>4. NextStack = Append(SubSeq(forStack, 1, k - 1), Stepped(forStack[k]))
    BY <1>2 DEF NextStack
  <2> HIDE DEF k
  <2>5. k \in 1 .. Len(forStack) /\ forStack[k] \in Entries /\ ~ Over(forStack[k])
    BY <2>1, <2>3
  <2>6. Stepped(forStack[k]) \in Entries
    BY <2>5, SteppedTyped
  <2>7. SubSeq(forStack, 1, k - 1) \in Seq(Entries)
    BY <2>1, <2>5
  <2> QED
    BY <2>4, <2>6, <2>7
<1> QED
  BY <1>1, <1>2

LEMMA StackTyped ==
  TypeOK => forStack \in Seq(Entries)
<1> SUFFICES ASSUME TypeOK PROVE forStack \in Seq(Entries)
  OBVIOUS
<1>1. forStack \in Seq(Contexts) /\ Len(forStack) \in Nat
  BY DEF TypeOK
<1>2. \A k \in DOMAIN forStack : forStack[k] \in Entries
  BY <1>1 DEF TypeOK, Entries
<1> QED
  BY <1>1, <1>2

LEMMA CurrentIsInstruction ==
  ASSUME TypeOK, MoreToDo, state = RUNNING
  PROVE  /\ Current \in Instructions
         /\ instructions \in Seq(Instructions) /\ Len(instructions) \in Nat
<1>1. instructions \in Seq(Instructions) /\ Len(instructions) \in Nat
  BY ProgramsAssumption DEF TypeOK
<1>2. CASE forStack = <<>>
  <2>1. currentLine + 1 \in 1 .. Len(instructions)
    BY <1>1, <1>2 DEF TypeOK, MoreToDo
  <2> QED
    BY <1>1, <1>2, <2>1 DEF Current
<1>3. CASE forStack # <<>>
  <2>1. forStack[Len(forStack)] \in Entries
    BY <1>3, StackTyped
  <2> QED
    BY <1>1, <1>3, <2>1, BodyIsProgram DEF Current
<1> QED
  BY <1>2, <1>3

------------------------------------------------------------------------------
LEMMA Sizes ==
  TypeOK => memorySize \in Nat /\ memorySize > 0 /\ IsFiniteSet(Names)
BY ProcessConstants DEF TypeOK

LEMMA EntriesTyped ==
  ASSUME NEW s \in Seq(Entries)
  PROVE  /\ s \in Seq(Contexts)
         /\ \A k \in DOMAIN s : /\ s[k].forInst.opcode = "FOR"
                                /\ s[k].bodyIdx < Len(s[k].forInst.body)
                                /\ s[k].remaining \in 1 .. s[k].forInst.val1
<1>1. \A k \in DOMAIN s : s[k] \in Entries
  OBVIOUS
<1>2. s \in Seq(Contexts)
  BY DEF Entries
<1> QED
  BY <1>1, <1>2 DEF Entries

LEMMA CurrentStays ==
  ASSUME UNCHANGED <<instructions, currentLine, forStack>>
  PROVE  Current' = Current
BY DEF Current

(* What can be asked for lies in the address space.                        *)
LEMMA RegionsInSpace ==
  ASSUME TypeOK
  PROVE  /\ Segment \in [addr : Nat, len : Nat]
         /\ Region(Segment) \subseteq 0 .. memorySize - 1
         /\ \A a \in Nat : IsValidAddress(a) =>
              /\ Target(a) \in [addr : Nat, len : Nat]
              /\ Region(Target(a)) \subseteq 0 .. memorySize - 1
<1>1. memorySize \in Nat /\ SymbolTableBytes \in Nat
  BY Sizes, ProcessConstants
<1>2. Segment.addr = 0 /\ Segment.len \in Nat /\ Segment.len <= memorySize
  BY <1>1 DEF Segment
<1>3. Segment \in [addr : Nat, len : Nat]
  BY <1>1 DEF Segment
<1>4. Region(Segment) \subseteq 0 .. memorySize - 1
  BY <1>1, <1>2 DEF Region
<1>5. ASSUME NEW a \in Nat, IsValidAddress(a)
      PROVE  /\ Target(a) \in [addr : Nat, len : Nat]
             /\ Region(Target(a)) \subseteq 0 .. memorySize - 1
  BY <1>1, <1>5 DEF Target, Region, IsValidAddress
<1> QED
  BY <1>3, <1>4, <1>5

LEMMA AskedInSpace ==
  ASSUME Inv, asked # None
  PROVE  Region(asked) \subseteq 0 .. memorySize - 1
<1>1. Current \in Instructions
  BY CurrentIsInstruction DEF Inv, AsksItsNeed
<1>2. Current.addr \in Nat
  BY <1>1, ProgramsAssumption
<1>3. asked = Segment \/ (Addressing /\ asked = Target(Current.addr))
  BY DEF Inv, AsksItsNeed, OperandRegion, LastRegion, Addressing
<1> QED
  BY <1>2, <1>3, RegionsInSpace DEF Inv, AsksItsNeed

(* The memory's answer.                                                    *)
LEMMA Answered ==
  ASSUME Inv, NEW r \in Residency, Answer(r)
  PROVE  /\ granted' \subseteq 0 .. memorySize - 1
         /\ r # UNAVAILABLE => Region(asked) \subseteq granted'
         /\ state = RUNNING /\ Current \in Instructions
         /\ Current.opcode \notin {"FOR", "SLEEP"}
<1>1. asked # None /\ state = RUNNING /\ Current.opcode \notin {"FOR", "SLEEP"}
  BY DEF Answer, Inv, AsksItsNeed
<1>2. Region(asked) \subseteq 0 .. memorySize - 1
  BY <1>1, AskedInSpace
<1>3. Current \in Instructions
  BY <1>1, CurrentIsInstruction DEF Inv
<1> QED
  BY <1>1, <1>2, <1>3 DEF Answer, Inv, TypeOK

(* The next line, or the end.                                              *)
LEMMA LineAdvanced ==
  ASSUME Inv, state = RUNNING, Current.opcode # "FOR", AdvanceLine,
         UNCHANGED program
  PROVE  /\ state' \in {RUNNING, FINISHED, TERMINATED}
         /\ currentLine' \in 0 .. Len(instructions)
         /\ forStack' \in Seq(Entries)
         /\ instrPhase' = 0 /\ violationAddress' = violationAddress
         /\ done' \in Seq(Leaves)
         /\ MoreToDo'
<1>1. /\ Current \in Instructions /\ Len(instructions) \in Nat
      /\ Len(instructions') = Len(instructions)
  BY CurrentIsInstruction DEF Inv, program
<1>2. forStack' \in Seq(Entries)
  BY StackTyped, NextStackTyped DEF Inv, AdvanceLine
<1>3. currentLine \in 0 .. Len(instructions)
  BY DEF Inv, TypeOK
<1>4. currentLine' \in 0 .. Len(instructions)
  <2>1. CASE forStack = <<>>
    BY <2>1, <1>1, <1>3 DEF AdvanceLine, Inv, MoreToDo
  <2>2. CASE forStack # <<>>
    BY <2>2, <1>3 DEF AdvanceLine
  <2> QED
    BY <2>1, <2>2
<1>5. done' \in Seq(Leaves)
  BY <1>1 DEF AdvanceLine, Inv, TypeOK, Leaves
<1>6. state' \in {RUNNING, FINISHED, TERMINATED}
  BY DEF AdvanceLine
<1>7. MoreToDo'
  BY <1>1, <1>4 DEF AdvanceLine, MoreToDo, RUNNING, FINISHED
<1> QED
  BY <1>2, <1>4, <1>5, <1>6, <1>7 DEF AdvanceLine, NextPhase

------------------------------------------------------------------------------
LEMMA Initially == Init => Inv
<1> SUFFICES ASSUME Init PROVE Inv
  OBVIOUS
<1>1. instructions \in Seq(Instructions) \ {<<>>} /\ memorySize \in Nat
  BY ProgramsAssumption, ProcessConstants DEF Init
<1>2. Len(instructions) \in Nat /\ Len(instructions) > 0
  BY <1>1
<1>3. mem \in [0 .. memorySize - 1 -> Bytes] /\ phaseValue \in Words
  BY ByteFacts DEF Init
<1>4. TypeOK
  <2>1. forStack \in Seq(Contexts) /\ done \in Seq(Leaves) /\ DOMAIN forStack = {}
    BY DEF Init
  <2> QED
    BY <1>2, <1>3, <2>1 DEF Init, TypeOK
<1>5. MoreToDo /\ AsksItsNeed /\ AccessesGranted
  BY <1>2 DEF Init, MoreToDo, AsksItsNeed, AccessesGranted
<1>6. Packed(symbolTable, memorySize)
  <2>1. Defined(symbolTable) = {}
    BY DEF Init, Defined
  <2>2. Cardinality(Defined(symbolTable)) = 0
    BY <2>1, FS_EmptySet
  <2>3. symbolTable \in [Names -> Nat \cup {None}]
    BY DEF Init
  <2>4. 0 <= Capacity(memorySize)
    BY <1>1, CapacityFits
  <2> QED
    BY <2>1, <2>2, <2>3, <2>4 DEF Packed
<1> QED
  BY <1>4, <1>5, <1>6 DEF Inv

(* Memory and symbol table of an action that leaves them.                  *)
LEMMA TableStays ==
  ASSUME Inv, UNCHANGED <<symbolTable, memorySize>>
  PROVE  Packed(symbolTable, memorySize)'
BY DEF Inv, Packed, Defined, Capacity

LEMMA EnterForKeeps == ASSUME Inv, EnterFor PROVE Inv'
<1>1. /\ Current \in Instructions /\ instructions \in Seq(Instructions)
      /\ Len(instructions) \in Nat /\ state = RUNNING /\ Current.opcode = "FOR"
  BY CurrentIsInstruction DEF EnterFor, Advance, Inv
<1>2. /\ Current.val1 \in Words /\ Current.val1 > 0 /\ Current.body \in Seq(Instructions)
      /\ Current.body # <<>>
  BY <1>1, ProgramsAssumption
<1> DEFINE c == [forInst |-> Current, bodyIdx |-> 0, remaining |-> Current.val1]
<1>3. c \in Entries
  <2>1. Len(Current.body) > 0
    BY <1>2
  <2>2. Current.val1 \in Nat
    BY <1>2, ByteFacts
  <2> QED
    BY <1>1, <1>2, <2>1, <2>2 DEF Entries, Contexts
<1>4. forStack' \in Seq(Entries) /\ forStack' # <<>>
  <2>1. forStack' = Append(forStack, c)
    BY DEF EnterFor, Entered
  <2> HIDE DEF c
  <2> QED
    BY <2>1, <1>3, StackTyped DEF Inv
<1>5. currentLine' \in 0 .. Len(instructions)
  BY <1>1 DEF EnterFor, Inv, TypeOK, MoreToDo
<1>6. topLine' \in 0 .. Len(instructions)
  BY <1>1 DEF EnterFor, Advance, Inv, TypeOK
<1>7. TypeOK'
  <2>1. /\ forStack' \in Seq(Contexts)
        /\ \A k \in DOMAIN forStack' :
             /\ forStack'[k].forInst.opcode = "FOR"
             /\ forStack'[k].bodyIdx < Len(forStack'[k].forInst.body)
             /\ forStack'[k].remaining \in 1 .. forStack'[k].forInst.val1
    BY <1>4, EntriesTyped
  <2> QED
    BY <2>1, <1>5, <1>6 DEF EnterFor, Advance, Inv, TypeOK, program, data
<1>8. MoreToDo' /\ AsksItsNeed' /\ AccessesGranted'
  BY <1>4 DEF EnterFor, Advance, MoreToDo, AsksItsNeed, AccessesGranted
<1> QED
  BY <1>7, <1>8, TableStays DEF Inv, EnterFor, Advance, program, data

LEMMA SleepKeeps == ASSUME Inv, Sleep PROVE Inv'
<1>1. /\ Current \in Instructions /\ state = RUNNING /\ Current.opcode # "FOR"
      /\ UNCHANGED program /\ AdvanceLine
  BY CurrentIsInstruction DEF Sleep, Advance, Inv
<1>2. sleepRemaining' \in Nat
  BY <1>1, ProgramsAssumption, ByteFacts DEF Sleep
<1>3. topLine' \in 0 .. Len(instructions)
  BY DEF Sleep, Advance, Inv, TypeOK
<1>4. TypeOK'
  BY <1>1, <1>2, <1>3, LineAdvanced, EntriesTyped
     DEF Sleep, Advance, Inv, TypeOK, program, data
<1>5. MoreToDo' /\ AsksItsNeed' /\ AccessesGranted'
  BY <1>1, LineAdvanced DEF Sleep, Advance, AsksItsNeed, AccessesGranted
<1> QED
  BY <1>4, <1>5, TableStays DEF Inv, Sleep, Advance, program, data

LEMMA SleptKeeps == ASSUME Inv, Slept PROVE Inv'
<1>1. TypeOK'
  BY DEF Slept, Inv, TypeOK, program, control, data
<1>2. Current' = Current
  BY CurrentStays DEF Slept, program, control
<1>3. MoreToDo' /\ AccessesGranted'
  BY DEF Slept, Inv, MoreToDo, AccessesGranted, program, control
<1>4. AsksItsNeed'
  BY <1>2 DEF Slept, Inv, AsksItsNeed, Addressing, Fetching, Fetches, IsValidAddress,
              OperandRegion, LastRegion, Segment, program, control
<1> QED
  BY <1>1, <1>3, <1>4, TableStays DEF Inv, Slept, program, data

LEMMA RaiseViolationKeeps == ASSUME Inv, RaiseViolation PROVE Inv'
<1>1. Current \in Instructions
  BY CurrentIsInstruction DEF RaiseViolation, BeginInstruction, Advance, Inv
<1>2. Current.addr \in Nat
  BY <1>1, ProgramsAssumption
<1>3. TypeOK'
  BY <1>2 DEF RaiseViolation, BeginInstruction, Advance, Inv, TypeOK, program, data
<1>4. MoreToDo' /\ AsksItsNeed' /\ AccessesGranted'
  BY DEF RaiseViolation, BeginInstruction, Advance, MoreToDo, AsksItsNeed,
         AccessesGranted, RUNNING, TERMINATED
<1> QED
  BY <1>3, <1>4, TableStays
     DEF Inv, RaiseViolation, BeginInstruction, Advance, program, data

LEMMA AskForOperandKeeps == ASSUME Inv, AskForOperand PROVE Inv'
<1>1. /\ Current \in Instructions /\ state = RUNNING
      /\ Current.opcode \in {"READ", "WRITE"} /\ IsValidAddress(Current.addr)
  BY CurrentIsInstruction
     DEF AskForOperand, BeginInstruction, Advance, Inv, Addressing
<1>2. asked' \in [addr : Nat, len : Nat]
  BY <1>1, RegionsInSpace, ProgramsAssumption DEF AskForOperand, OperandRegion, Inv
<1>3. TypeOK'
  BY <1>2
     DEF AskForOperand, BeginInstruction, Advance, Inv, TypeOK, program, control, data
<1>4. Current' = Current
  BY CurrentStays DEF AskForOperand, BeginInstruction, Advance, program, control
<1>5. MoreToDo' /\ AccessesGranted'
  BY DEF AskForOperand, BeginInstruction, Advance, Inv, MoreToDo, AccessesGranted,
         program, control
<1>6. AsksItsNeed'
  BY <1>1, <1>4
     DEF AskForOperand, BeginInstruction, Advance, AsksItsNeed, Addressing, Fetching,
         Fetches, IsValidAddress, OperandRegion, Segment, program, control
<1> QED
  BY <1>3, <1>5, <1>6, TableStays
     DEF Inv, AskForOperand, BeginInstruction, Advance, program, data

LEMMA AskForTargetKeeps == ASSUME Inv, AskForTarget PROVE Inv'
<1>1. /\ Current \in Instructions /\ state = RUNNING
      /\ Current.opcode \in {"READ", "WRITE"} /\ IsValidAddress(Current.addr)
  BY CurrentIsInstruction
     DEF AskForTarget, BeginInstruction, Advance, Inv, Addressing
<1>2. asked' \in [addr : Nat, len : Nat]
  BY <1>1, RegionsInSpace, ProgramsAssumption DEF AskForTarget, LastRegion, Inv
<1>3. phaseValue' \in Words
  BY <1>1, ProgramsAssumption DEF AskForTarget, Inv, TypeOK
<1>4. TypeOK'
  BY <1>2, <1>3
     DEF AskForTarget, BeginInstruction, Advance, Inv, TypeOK, program
<1>5. Current' = Current
  BY CurrentStays DEF AskForTarget, BeginInstruction, Advance, program
<1>6. MoreToDo' /\ AccessesGranted'
  BY DEF AskForTarget, BeginInstruction, Advance, Inv, MoreToDo, AccessesGranted, program
<1>7. AsksItsNeed'
  BY <1>1, <1>5
     DEF AskForTarget, BeginInstruction, Advance, AsksItsNeed, Addressing, Fetching,
         IsValidAddress, LastRegion, Segment, program
<1> QED
  BY <1>4, <1>6, <1>7, TableStays
     DEF Inv, AskForTarget, BeginInstruction, Advance, program

LEMMA AskForSymbolTableKeeps == ASSUME Inv, AskForSymbolTable PROVE Inv'
<1>1. /\ Current \in Instructions /\ state = RUNNING
      /\ Current.opcode \notin {"FOR", "SLEEP", "READ", "WRITE"}
  BY CurrentIsInstruction
     DEF AskForSymbolTable, BeginInstruction, Advance, Inv, TouchesSymbolTable
<1>2. asked' \in [addr : Nat, len : Nat]
  BY RegionsInSpace DEF AskForSymbolTable, Inv
<1>3. TypeOK'
  BY <1>2 DEF AskForSymbolTable, BeginInstruction, Advance, Inv, TypeOK, program,
              control, data
<1>4. Current' = Current
  BY CurrentStays DEF AskForSymbolTable, BeginInstruction, Advance, program, control
<1>5. MoreToDo' /\ AccessesGranted'
  BY DEF AskForSymbolTable, BeginInstruction, Advance, Inv, MoreToDo,
         AccessesGranted, program, control
<1>6. AsksItsNeed'
  BY <1>1, <1>4
     DEF AskForSymbolTable, BeginInstruction, Advance, AsksItsNeed, Addressing,
         Fetching, LastRegion, Segment, program, control
<1> QED
  BY <1>3, <1>5, <1>6, TableStays
     DEF Inv, AskForSymbolTable, BeginInstruction, Advance, program, data

LEMMA NeedsNoPageKeeps == ASSUME Inv, NeedsNoPage PROVE Inv'
<1>1. /\ state = RUNNING /\ Current.opcode # "FOR" /\ UNCHANGED program /\ AdvanceLine
  BY DEF NeedsNoPage, BeginInstruction, Advance
<1>2. topLine' \in 0 .. Len(instructions)
  BY DEF NeedsNoPage, BeginInstruction, Advance, Inv, TypeOK
<1>3. TypeOK'
  BY <1>1, <1>2, LineAdvanced, EntriesTyped
     DEF NeedsNoPage, BeginInstruction, Advance, Inv, TypeOK, program, data
<1>4. MoreToDo' /\ AsksItsNeed' /\ AccessesGranted'
  BY <1>1, LineAdvanced
     DEF NeedsNoPage, BeginInstruction, Advance, AsksItsNeed, AccessesGranted
<1> QED
  BY <1>3, <1>4, TableStays
     DEF Inv, NeedsNoPage, BeginInstruction, Advance, program, data

LEMMA FaultKeeps == ASSUME Inv, NEW r \in Residency, Fault(r) PROVE Inv'
<1>1. granted' \subseteq 0 .. memorySize - 1
  BY Answered DEF Fault
<1>2. TypeOK'
  BY <1>1 DEF Fault, Answer, Inv, TypeOK, program, control, data
<1>3. MoreToDo' /\ AsksItsNeed' /\ AccessesGranted'
  BY DEF Fault, Answer, Inv, MoreToDo, AsksItsNeed, AccessesGranted, program, control
<1> QED
  BY <1>2, <1>3, TableStays DEF Inv, Fault, Answer, program, data

LEMMA FetchOperandKeeps == ASSUME Inv, NEW r \in Residency, FetchOperand(r) PROVE Inv'
<1>1. /\ granted' \subseteq 0 .. memorySize - 1 /\ Region(asked) \subseteq granted'
      /\ state = RUNNING /\ Current \in Instructions
      /\ Current.opcode \in {"READ", "WRITE"} /\ IsValidAddress(Current.addr)
      /\ Fetches(Current) /\ asked = OperandRegion(Current)
  BY Answered
     DEF FetchOperand, Answer, Inv, AsksItsNeed, Addressing, Fetching
<1>2. /\ Current.addr \in Nat /\ memorySize \in Nat
      /\ mem \in [0 .. memorySize - 1 -> Bytes]
      /\ Current.arg1 \in Names \cup {None}
  BY <1>1, Sizes, ProgramsAssumption DEF Inv, TypeOK
<1>3. /\ Packed(symbolTable', memorySize) /\ phaseValue' \in Words
      /\ touched' \subseteq Region(asked)
  <2>1. CASE Current.opcode = "READ"
    <3>1. /\ phaseValue' = WordAt(mem, Current.addr)
          /\ touched' = Region(Target(Current.addr)) /\ symbolTable' = symbolTable
      BY <2>1 DEF FetchOperand
    <3>2. WordAt(mem, Current.addr) \in Words
      BY <1>2, WordRead
    <3> QED
      BY <1>1, <2>1, <3>1, <3>2 DEF OperandRegion, Inv
  <2>2. CASE Current.opcode = "WRITE"
    <3>1. /\ symbolTable' = TableAfter(symbolTable, Current, memorySize)
          /\ phaseValue' = ValueOf(mem, symbolTable', Current.arg1)
          /\ touched' = Slots(symbolTable', {Current.arg1})
      BY <2>2 DEF FetchOperand
    <3>2. Packed(symbolTable', memorySize)
      BY <1>1, <1>2, <3>1, TableAfterPacked DEF Inv
    <3>3. Current.arg1 \in Names
      BY <1>1, <1>2, <2>2 DEF Fetches
    <3>4. phaseValue' \in Words
      <4>1. symbolTable' \in [Names -> Nat \cup {None}] /\ 0 \in Words
        BY <3>2, ByteFacts DEF Packed
      <4> QED
        BY <1>2, <3>1, <3>3, <4>1, VariableTyped
    <3>5. touched' \subseteq Region(Segment)
      BY <1>2, <3>1, <3>2, SlotsInSegment
    <3> QED
      BY <1>1, <2>2, <3>2, <3>4, <3>5 DEF OperandRegion
  <2> QED
    BY <1>1, <2>1, <2>2
<1>4. Region(asked) \subseteq Nat
  BY <1>1, <1>2, RegionsInSpace DEF OperandRegion, Inv
<1>5. /\ LastRegion(Current) \in [addr : Nat, len : Nat]
      /\ asked' \in [addr : Nat, len : Nat] \cup {None}
  BY <1>1, <1>2, RegionsInSpace DEF LastRegion, FetchOperand, Inv
<1>6. TypeOK'
  BY <1>1, <1>3, <1>4, <1>5 DEF FetchOperand, Answer, Inv, TypeOK, Packed, program
<1>7. Current' = Current
  BY CurrentStays DEF FetchOperand, Answer, program
<1>8. MoreToDo' /\ AccessesGranted'
  BY <1>1, <1>3 DEF FetchOperand, Answer, Inv, MoreToDo, AccessesGranted, program
<1>9. AsksItsNeed'
  BY <1>1, <1>7 DEF FetchOperand, Answer, AsksItsNeed, Addressing, Fetching,
                    IsValidAddress, LastRegion, Segment, program
<1>10. Packed(symbolTable, memorySize)'
  BY <1>3 DEF FetchOperand, Answer, program
<1> QED
  BY <1>6, <1>8, <1>9, <1>10 DEF Inv

LEMMA ExecuteKeeps == ASSUME Inv, NEW r \in Residency, Execute(r) PROVE Inv'
<1>1. /\ granted' \subseteq 0 .. memorySize - 1 /\ Region(asked) \subseteq granted'
      /\ state = RUNNING /\ Current \in Instructions
      /\ Current.opcode \notin {"FOR", "SLEEP"}
      /\ Current.opcode \in {"READ", "WRITE"} => IsValidAddress(Current.addr)
      /\ asked = LastRegion(Current)
      /\ UNCHANGED program /\ AdvanceLine /\ sleepRemaining' = sleepRemaining
      /\ topLine' = topLine /\ phaseValue' = phaseValue /\ asked' = None
  BY Answered
     DEF Execute, Answer, Inv, AsksItsNeed, Addressing, RESIDENT, UNAVAILABLE
<1>2. /\ Current.addr \in Nat /\ memorySize \in Nat /\ phaseValue \in Words
      /\ mem \in [0 .. memorySize - 1 -> Bytes]
      /\ {Current.arg1, Current.arg2, Current.arg3} \subseteq Names \cup {None}
      /\ Current.opcode = "READ" => Current.arg1 \in Names
  BY <1>1, Sizes, ProgramsAssumption DEF Inv, TypeOK
<1>3. /\ Packed(symbolTable', memorySize) /\ mem' \in [0 .. memorySize - 1 -> Bytes]
      /\ touched' \subseteq Region(asked)
  <2>1. CASE Current.opcode = "WRITE"
    <3>1. /\ mem' = WithWord(mem, Current.addr, phaseValue)
          /\ touched' = Region(Target(Current.addr)) /\ symbolTable' = symbolTable
      BY <2>1 DEF Execute
    <3>2. mem' \in [0 .. memorySize - 1 -> Bytes]
      BY <1>2, <3>1, WordWritten
    <3> QED
      BY <1>1, <2>1, <3>1, <3>2 DEF LastRegion, Inv
  <2>2. CASE Current.opcode # "WRITE"
    <3>1. /\ symbolTable' = TableAfter(symbolTable, Current, memorySize)
          /\ mem' = IF Current.opcode = "READ"
                    THEN Stored(mem, symbolTable', Current.arg1, phaseValue)
                    ELSE Computed(mem, symbolTable', Current)
          /\ touched' = Slots(symbolTable',
                              {Current.arg1, Current.arg2, Current.arg3})
      BY <2>2 DEF Execute
    <3>2. Packed(symbolTable', memorySize)
      BY <1>1, <1>2, <3>1, TableAfterPacked DEF Inv
    <3>3. symbolTable' \in [Names -> Nat \cup {None}]
      BY <3>2 DEF Packed
    <3>4. mem' \in [0 .. memorySize - 1 -> Bytes]
      <4>1. CASE Current.opcode = "READ"
        BY <1>2, <3>1, <3>3, <4>1, VariableTyped
      <4>2. CASE Current.opcode # "READ"
        BY <1>1, <1>2, <3>1, <3>3, <4>2, ComputedTyped
      <4> QED
        BY <4>1, <4>2
    <3>5. touched' \subseteq Region(Segment)
      BY <1>2, <3>1, <3>2, SlotsInSegment
    <3> QED
      BY <1>1, <2>2, <3>2, <3>4, <3>5 DEF LastRegion
  <2> QED
    BY <2>1, <2>2
<1>4. touched' \subseteq Nat
  <2>1. 0 .. memorySize - 1 \subseteq Nat
    BY <1>2
  <2> QED
    BY <2>1, <1>1, <1>3
<1>5. TypeOK'
  BY <1>1, <1>3, <1>4, LineAdvanced, EntriesTyped DEF Inv, TypeOK, Packed, program
<1>6. MoreToDo' /\ AsksItsNeed' /\ AccessesGranted'
  BY <1>1, <1>3, LineAdvanced DEF AsksItsNeed, AccessesGranted
<1>7. Packed(symbolTable, memorySize)'
  BY <1>1, <1>3 DEF program
<1> QED
  BY <1>5, <1>6, <1>7 DEF Inv

------------------------------------------------------------------------------
THEOREM Consistent == Spec => []Inv
<1>1. Inv /\ [Next]_vars => Inv'
  <2> SUFFICES ASSUME Inv, [Next]_vars PROVE Inv'
    OBVIOUS
  <2>1. CASE Attempt
    BY <2>1, EnterForKeeps, SleepKeeps, RaiseViolationKeeps, AskForOperandKeeps,
       AskForTargetKeeps, AskForSymbolTableKeeps, NeedsNoPageKeeps DEF Attempt
  <2>2. CASE Slept
    BY <2>2, SleptKeeps
  <2>3. CASE \E r \in Residency : Fault(r) \/ FetchOperand(r) \/ Execute(r)
    BY <2>3, FaultKeeps, FetchOperandKeeps, ExecuteKeeps
  <2>4. CASE UNCHANGED vars
    <3>1. Current' = Current
      BY <2>4, CurrentStays DEF vars, program, control
    <3>2. TypeOK' /\ MoreToDo' /\ AccessesGranted'
      BY <2>4 DEF Inv, TypeOK, MoreToDo, AccessesGranted, vars, program, control, data
    <3>3. AsksItsNeed'
      BY <2>4, <3>1 DEF Inv, AsksItsNeed, Addressing, Fetching, Fetches,
         IsValidAddress, OperandRegion, LastRegion, Segment, vars, program, control
    <3> QED
      BY <2>4, <3>2, <3>3, TableStays DEF Inv, vars, program, data
  <2> QED
    BY <2>1, <2>2, <2>3, <2>4 DEF Next
<1> QED
  BY <1>1, Initially, PTL DEF Spec

(* Bytes stay bytes, lines stay in the program, FOR contexts in their      *)
(* bodies and rounds, through every instruction and every answer.          *)
THEOREM TypeCorrect == Spec => []TypeOK
<1>1. Inv => TypeOK
  BY DEF Inv
<1> QED
  BY <1>1, Consistent, PTL

(* executeStep() touches only bytes the memory answered for in the same    *)
(* attempt, in both phases of READ and WRITE and in the symbol table.      *)
THEOREM OnlyGrantedTouched == Spec => []AccessesGranted
<1>1. Inv => AccessesGranted
  BY DEF Inv
<1> QED
  BY <1>1, Consistent, PTL

(* resolveVariable() gives every name a word of its own in the segment,    *)
(* for spaces smaller than the segment too.                                *)
THEOREM VariablesApart == Spec => []SlotsApart
<1>1. Inv => SlotsApart
  <2> SUFFICES ASSUME Inv,
                      NEW m \in Defined(symbolTable), NEW n \in Defined(symbolTable)
               PROVE  /\ Slots(symbolTable, {n}) \subseteq Region(Segment)
                      /\ m # n => Slots(symbolTable, {m})
                                    \cap Slots(symbolTable, {n}) = {}
    BY DEF SlotsApart
  <2>1. /\ m \in Names /\ n \in Names
        /\ Packed(symbolTable, memorySize) /\ memorySize \in Nat
    BY Sizes DEF Inv, Defined
  <2>2. Slots(symbolTable, {n}) \subseteq Region(Segment)
    BY <2>1, SlotsInSegment
  <2>3. ASSUME m # n, NEW x \in Slots(symbolTable, {m}) \cap Slots(symbolTable, {n})
        PROVE  FALSE
    <3>1. /\ x \in {symbolTable[m], symbolTable[m] + 1}
          /\ x \in {symbolTable[n], symbolTable[n] + 1}
      BY <2>3 DEF Slots
    <3>2. Cardinality(Defined(symbolTable)) \in Nat
      BY DefinedFinite
    <3>3. PICK j \in 0 .. Cardinality(Defined(symbolTable)) - 1 : symbolTable[m] = 2 * j
      BY <2>1 DEF Packed
    <3>4. PICK k \in 0 .. Cardinality(Defined(symbolTable)) - 1 : symbolTable[n] = 2 * k
      BY <2>1 DEF Packed
    <3>5. 2 * j # 2 * k
      BY <2>1, <2>3, <3>3, <3>4 DEF Packed
    <3> QED
      BY <3>1, <3>2, <3>3, <3>4, <3>5
  <2> QED
    BY <2>2, <2>3
<1> QED
  BY <1>1, Consistent, PTL

(* In a block the line is already that of the next instruction of the      *)
(* program: EnterFor counts the FOR itself.                                *)
LinesKnown ==
  /\ forStack # <<>> => currentLine = topLine + 1
  /\ state = TERMINATED /\ forStack = <<>> => currentLine = topLine

(* screen -ls: the line of a killed process is the one it died on, or the  *)
(* next one if that was in a FOR block, and never another.                 *)
THEOREM KilledNearItsLine ==
  Spec => [](state = TERMINATED =>
               currentLine = IF forStack = <<>> THEN topLine ELSE topLine + 1)
<1>1. Init => LinesKnown
  BY DEF Init, LinesKnown, RUNNING, TERMINATED
<1>2. Inv /\ LinesKnown /\ [Next]_vars => LinesKnown'
  <2> SUFFICES ASSUME Inv, LinesKnown, [Next]_vars PROVE LinesKnown'
    OBVIOUS
  <2>1. CASE EnterFor
    BY <2>1 DEF EnterFor, Advance, LinesKnown, RUNNING, TERMINATED
  <2>2. CASE Sleep \/ NeedsNoPage \/ \E r \in Residency : Execute(r)
    <3>1. /\ state = RUNNING /\ AdvanceLine
          /\ topLine' = IF forStack = <<>> /\ (Sleep \/ NeedsNoPage) THEN currentLine
                        ELSE topLine
      BY <2>2, Answered DEF Sleep, NeedsNoPage, BeginInstruction, Advance, Execute, Answer
    <3>2. forStack = <<>> => forStack' = <<>>
      BY <3>1 DEF AdvanceLine, NextStack
    <3>3. state' # TERMINATED
      BY <3>1 DEF AdvanceLine, RUNNING, FINISHED, TERMINATED
    <3>4. forStack # <<>> => currentLine' = currentLine /\ topLine' = topLine
      BY <3>1 DEF AdvanceLine
    <3> QED
      BY <3>2, <3>3, <3>4 DEF LinesKnown
  <2>3. CASE RaiseViolation
    BY <2>3 DEF RaiseViolation, BeginInstruction, Advance, LinesKnown
  <2>4. CASE AskForOperand \/ AskForTarget \/ AskForSymbolTable
    BY <2>4 DEF AskForOperand, AskForTarget, AskForSymbolTable, BeginInstruction, Advance,
                LinesKnown, control, RUNNING, TERMINATED
  <2>5. CASE Slept \/ UNCHANGED vars \/ \E r \in Residency : Fault(r) \/ FetchOperand(r)
    <3>1. UNCHANGED <<state, forStack, currentLine, topLine>>
      BY <2>5 DEF Slept, Fault, FetchOperand, Answer, vars, control
    <3> QED
      BY <3>1 DEF LinesKnown
  <2> QED
    BY <2>1, <2>2, <2>3, <2>4, <2>5 DEF Next, Attempt
<1>3. LinesKnown => (state = TERMINATED =>
                       currentLine = IF forStack = <<>> THEN topLine ELSE topLine + 1)
  BY DEF LinesKnown
<1> QED
  BY <1>1, <1>2, <1>3, Consistent, PTL DEF Spec

------------------------------------------------------------------------------
(***************************************************************************)
(* READ and WRITE in two phases, faults between them and in them.  Nothing *)
(* changes the memory, the symbol table or the line between the fetch and  *)
(* the store, so what was fetched is what would be fetched now.            *)
(***************************************************************************)
FetchedIsFresh ==
  instrPhase = 1 /\ state = RUNNING =>
    /\ Addressing
    /\ TableAfter(symbolTable, Current, memorySize) = symbolTable
         \/ Current.opcode = "READ"
    /\ phaseValue = IF Current.opcode = "READ" THEN WordAt(mem, Current.addr)
                    ELSE Operand(mem, symbolTable, Current.arg1, Current.val1)

(* No name resolves to nothing, and a second time resolves to the same.    *)
LEMMA ResolvedAgain ==
  ASSUME NEW table \in [Names -> Nat \cup {None}], NEW name, NEW size
  PROVE  /\ Resolved(table, None, size) = table
         /\ name \in Names =>
              Resolved(Resolved(table, name, size), name, size) = Resolved(table, name, size)
<1> DEFINE offset == 2 * Cardinality(Defined(table))
           new == [table EXCEPT ![name] = offset]
<1>1. Cardinality(Defined(table)) \in Nat
  BY DefinedFinite
<1>2. ASSUME name \in Names, Resolved(table, name, size) # table
      PROVE  Resolved(new, name, size) = new
  <2>1. new[name] = offset /\ offset # None
    BY <1>1, <1>2, ProcessConstants
  <2>2. name \in Defined(new)
    BY <1>2, <2>1 DEF Defined
  <2> HIDE DEF new
  <2> QED
    BY <2>2 DEF Resolved
<1>3. Resolved(table, name, size) \in {table, new}
  BY DEF Resolved
<1>4. Resolved(table, None, size) = table
  BY DEF Resolved
<1> HIDE DEF new
<1> QED
  BY <1>2, <1>3, <1>4

(* A WRITE resolves one name, an instruction without names none.           *)
LEMMA NamesOfInstruction ==
  ASSUME NEW table \in [Names -> Nat \cup {None}], NEW i \in Instructions, NEW size
  PROVE  /\ i.opcode = "WRITE" => TableAfter(table, i, size) = Resolved(table, i.arg1, size)
         /\ i.arg1 = None /\ i.arg2 = None /\ i.arg3 = None => TableAfter(table, i, size) = table
<1>1. Resolved(table, None, size) = table
  BY ResolvedAgain
<1>2. i.opcode = "WRITE" => i.arg2 = None /\ i.arg3 = None
  BY ProgramsAssumption
<1> QED
  BY <1>1, <1>2 DEF TableAfter

(* The word is fetched: from now on it is the word that would be fetched.  *)
LEMMA FetchOperandFresh ==
  ASSUME Inv, NEW r \in Residency, FetchOperand(r)
  PROVE  FetchedIsFresh'
<1>1. /\ UNCHANGED <<instructions, memorySize, state, currentLine, forStack, mem>>
      /\ Answer(r) /\ Addressing
  BY DEF FetchOperand, program, Answer, Fetching
<1>2. Current' = Current
  BY <1>1, CurrentStays
<1>3. Current \in Instructions /\ symbolTable \in [Names -> Nat \cup {None}]
  BY <1>1, Answered DEF Inv, TypeOK
<1>4. CASE Current.opcode = "READ"
  BY <1>1, <1>2, <1>4 DEF FetchOperand, FetchedIsFresh, Addressing
<1>5. CASE Current.opcode # "READ"
  <2>1. Current.opcode = "WRITE"
    BY <1>1, <1>5 DEF Addressing
  <2>2. /\ symbolTable' = TableAfter(symbolTable, Current, memorySize)
        /\ phaseValue' = ValueOf(mem, symbolTable', Current.arg1)
    BY <1>5 DEF FetchOperand
  <2>3. Current.arg1 \in Names
    <3>1. Fetches(Current)
      BY <1>1 DEF FetchOperand, Answer, Inv, AsksItsNeed
    <3>2. Current.arg1 \in Names \cup {None}
      BY <1>3, ProgramsAssumption
    <3> QED
      BY <2>1, <3>1, <3>2 DEF Fetches
  <2>4. symbolTable' \in [Names -> Nat \cup {None}]
    BY FetchOperandKeeps DEF Inv, TypeOK
  <2>5. TableAfter(symbolTable', Current, memorySize) = symbolTable'
    <3>1. symbolTable' = Resolved(symbolTable, Current.arg1, memorySize)
      BY <1>3, <2>1, <2>2, NamesOfInstruction
    <3>2. TableAfter(symbolTable', Current, memorySize)
            = Resolved(symbolTable', Current.arg1, memorySize)
      BY <1>3, <2>1, <2>4, NamesOfInstruction
    <3> QED
      BY <1>3, <2>3, <3>1, <3>2, ResolvedAgain
  <2>6. phaseValue' = Operand(mem, symbolTable', Current.arg1, Current.val1)
    BY <2>2, <2>3, ProcessConstants DEF Operand
  <2> QED
    BY <1>1, <1>2, <2>1, <2>5, <2>6 DEF FetchedIsFresh, Addressing
<1> QED
  BY <1>4, <1>5

(* A literal is its own word.                                              *)
LEMMA AskForTargetFresh ==
  ASSUME Inv, FetchedIsFresh, AskForTarget
  PROVE  FetchedIsFresh'
<1>1. /\ UNCHANGED <<instructions, memorySize, state, currentLine, forStack, mem>>
      /\ UNCHANGED symbolTable /\ Addressing /\ state = RUNNING
      /\ instrPhase = 1 \/ ~ Fetches(Current)
      /\ phaseValue' = IF instrPhase = 0 THEN Current.val1 ELSE phaseValue
  BY DEF AskForTarget, BeginInstruction, Advance, program
<1>2. Current' = Current
  BY <1>1, CurrentStays
<1>3. /\ Current \in Instructions /\ symbolTable \in [Names -> Nat \cup {None}]
      /\ instrPhase \in {0, 1}
  BY <1>1, CurrentIsInstruction DEF Inv, TypeOK
<1>4. CASE instrPhase = 1
  BY <1>1, <1>2, <1>4 DEF FetchedIsFresh, Addressing
<1>5. CASE instrPhase = 0
  <2>1. Current.opcode = "WRITE" /\ Current.arg1 = None
    BY <1>1, <1>5 DEF Fetches, Addressing
  <2>2. TableAfter(symbolTable, Current, memorySize) = symbolTable
    BY <1>3, <2>1, NamesOfInstruction, ResolvedAgain
  <2> QED
    BY <1>1, <1>2, <1>5, <2>1, <2>2 DEF FetchedIsFresh, Addressing, Operand
<1> QED
  BY <1>3, <1>4, <1>5

(* Steps that consume no instruction and fetch no word.                    *)
LEMMA NothingFetched ==
  ASSUME Inv, FetchedIsFresh,
         UNCHANGED <<instructions, memorySize, state, currentLine, forStack>>,
         UNCHANGED <<instrPhase, phaseValue, symbolTable, mem>>
  PROVE  FetchedIsFresh'
<1>1. Current' = Current
  BY CurrentStays
<1> QED
  BY <1>1 DEF FetchedIsFresh, Addressing

LEMMA FreshStays == Inv /\ FetchedIsFresh /\ [Next]_vars => FetchedIsFresh'
<1> SUFFICES ASSUME Inv, FetchedIsFresh, [Next]_vars PROVE FetchedIsFresh'
  OBVIOUS
<1>1. CASE EnterFor
  <2>1. instrPhase' = instrPhase /\ state' = state /\ state = RUNNING
    BY <1>1 DEF EnterFor, Advance
  <2>2. ~ Addressing
    BY <1>1 DEF EnterFor, Addressing
  <2> QED
    BY <2>1, <2>2 DEF FetchedIsFresh
<1>2. CASE Sleep \/ NeedsNoPage \/ \E r \in Residency : Execute(r)
  <2>1. instrPhase' = 0
    BY <1>2 DEF Sleep, NeedsNoPage, Execute, AdvanceLine, NextPhase
  <2> QED
    BY <2>1 DEF FetchedIsFresh
<1>3. CASE RaiseViolation
  BY <1>3 DEF RaiseViolation, FetchedIsFresh, RUNNING, TERMINATED
<1>4. CASE AskForOperand \/ AskForSymbolTable \/ Slept \/ UNCHANGED vars
             \/ \E r \in Residency : Fault(r)
  <2>1. /\ UNCHANGED <<instructions, memorySize, state, currentLine, forStack>>
        /\ UNCHANGED <<instrPhase, phaseValue, symbolTable, mem>>
    BY <1>4 DEF AskForOperand, AskForSymbolTable, BeginInstruction, Advance, Slept, Fault,
                Answer, vars, program, control, data
  <2> QED
    BY <2>1, NothingFetched
<1>5. CASE AskForTarget
  BY <1>5, AskForTargetFresh
<1>6. CASE \E r \in Residency : FetchOperand(r)
  BY <1>6, FetchOperandFresh
<1> QED
  BY <1>1, <1>2, <1>3, <1>4, <1>5, <1>6 DEF Next, Attempt

(* An instruction that is consumed has its effect as a whole.              *)
LEMMA ConsumedAtOnce ==
  ASSUME Inv, FetchedIsFresh, Sleep \/ NeedsNoPage \/ \E r \in Residency : Execute(r)
  PROVE  /\ mem' = Effect(mem, symbolTable, Current)
         /\ symbolTable' = TableAfter(symbolTable, Current, memorySize)
<1>1. state = RUNNING
  BY Answered DEF Sleep, NeedsNoPage, BeginInstruction, Advance, Execute
<1>2. /\ Current \in Instructions /\ symbolTable \in [Names -> Nat \cup {None}]
      /\ instrPhase \in {0, 1}
  BY <1>1, CurrentIsInstruction DEF Inv, TypeOK
<1>3. CASE Sleep \/ NeedsNoPage
  <2>1. /\ UNCHANGED <<mem, symbolTable>>
        /\ Current.opcode \notin {"READ", "WRITE", "DECLARE", "ADD", "SUBTRACT"}
        /\ Current.opcode = "PRINT" => Current.arg2 = None
    BY <1>3 DEF Sleep, NeedsNoPage, BeginInstruction, TouchesSymbolTable, Addressing, data
  <2>2. Current.arg1 = None /\ Current.arg2 = None /\ Current.arg3 = None
    <3>1. Current.opcode \in {"PRINT", "SLEEP"}
      BY <1>2, <1>3, <2>1, ProgramsAssumption DEF Sleep, NeedsNoPage, BeginInstruction, Opcodes
    <3> QED
      BY <1>2, <2>1, <3>1, ProgramsAssumption
  <2>3. Effect(mem, symbolTable, Current) = mem
    BY <2>1 DEF Effect, Computed
  <2> QED
    BY <1>2, <2>1, <2>2, <2>3, NamesOfInstruction
<1>4. CASE \E r \in Residency : Execute(r)
  <2> PICK r \in Residency : Execute(r)
    BY <1>4
  <2>1. Addressing => instrPhase = 1
    BY <1>2 DEF Execute, Fetching
  <2>2. CASE Current.opcode = "WRITE"
    <3>1. /\ TableAfter(symbolTable, Current, memorySize) = symbolTable
          /\ phaseValue = Operand(mem, symbolTable, Current.arg1, Current.val1)
      BY <1>1, <2>1, <2>2 DEF FetchedIsFresh, Addressing
    <3>2. mem' = WithWord(mem, Current.addr, phaseValue) /\ UNCHANGED symbolTable
      BY <2>2 DEF Execute
    <3> QED
      BY <2>2, <3>1, <3>2 DEF Effect
  <2>3. CASE Current.opcode = "READ"
    <3>1. phaseValue = WordAt(mem, Current.addr)
      BY <1>1, <2>1, <2>3 DEF FetchedIsFresh, Addressing
    <3>2. /\ symbolTable' = TableAfter(symbolTable, Current, memorySize)
          /\ mem' = Stored(mem, symbolTable', Current.arg1, phaseValue)
      BY <2>3 DEF Execute
    <3> QED
      BY <2>3, <3>1, <3>2 DEF Effect
  <2>4. CASE Current.opcode \notin {"READ", "WRITE"}
    <3>1. /\ symbolTable' = TableAfter(symbolTable, Current, memorySize)
          /\ mem' = Computed(mem, symbolTable', Current)
      BY <2>4 DEF Execute
    <3> QED
      BY <2>4, <3>1 DEF Effect
  <2> QED
    BY <2>2, <2>3, <2>4
<1> QED
  BY <1>3, <1>4

(* executeStep(): an instruction reads and writes what it would if it ran  *)
(* at once when its last region is there, whatever happened on the way.    *)
THEOREM AtOnce == Spec => TakesEffectAtOnce
<1> DEFINE Step == IF done' = done THEN UNCHANGED mem
                   ELSE /\ mem' = Effect(mem, symbolTable, Current)
                        /\ symbolTable' = TableAfter(symbolTable, Current, memorySize)
<1>1. Init => FetchedIsFresh
  BY DEF Init, FetchedIsFresh
<1>2. ASSUME Inv, FetchedIsFresh, Next
      PROVE  Step
  <2>1. CASE Sleep \/ NeedsNoPage \/ \E r \in Residency : Execute(r)
    <3>1. done' # done
      <4>1. done' = Append(done, Current)
        BY <2>1 DEF Sleep, NeedsNoPage, Execute, AdvanceLine
      <4>2. done \in Seq(Leaves)
        BY <1>2 DEF Inv, TypeOK
      <4>3. Len(done') # Len(done)
        BY <4>1, <4>2
      <4> QED
        BY <4>3
    <3> QED
      BY <1>2, <2>1, <3>1, ConsumedAtOnce
  <2>2. CASE ~ (Sleep \/ NeedsNoPage \/ \E r \in Residency : Execute(r))
    <3>1. UNCHANGED <<done, mem>>
      BY <1>2, <2>2
      DEF Next, Attempt, EnterFor, RaiseViolation, AskForOperand, AskForTarget,
          AskForSymbolTable, Slept, Fault, FetchOperand, data
    <3> QED
      BY <3>1
  <2> QED
    BY <2>1, <2>2
<1>3. Inv /\ FetchedIsFresh /\ [Next]_vars => [Step]_vars
  BY <1>2
<1> QED
  BY <1>1, <1>3, FreshStays, Consistent, PTL DEF Spec, TakesEffectAtOnce

------------------------------------------------------------------------------
(***************************************************************************)
(* Which instruction comes next.  R[k] is what the k outermost blocks and  *)
(* the program leave to do once the current instruction of each is done.   *)
(***************************************************************************)
(* One list, then the other: \o, whose elements the next proofs never see. *)
Then(s, t) == s \o t

LEMMA ThenFacts ==
  ASSUME NEW s \in Seq(Leaves), NEW t \in Seq(Leaves)
  PROVE  /\ Then(s, t) \in Seq(Leaves)
         /\ Then(s, t) = <<>> <=> s = <<>> /\ t = <<>>
  BY ConcatProperties, ConcatEqualIffEmpty DEF Then

LEMMA ThenNothing ==
  ASSUME NEW s \in Seq(Leaves)
  PROVE  Then(<<>>, s) = s /\ Then(s, <<>>) = s
  BY ConcatEmptySeq DEF Then

LEMMA ThenTogether ==
  ASSUME NEW s \in Seq(Leaves), NEW t \in Seq(Leaves), NEW u \in Seq(Leaves)
  PROVE  Then(Then(s, t), u) = Then(s, Then(t, u))
  BY ConcatAssociative DEF Then

LEMMA NoLeaf == <<>> \in Seq(Leaves)
  OBVIOUS

(* A list from one place on begins with the instruction there.             *)
LEMMA RestFacts ==
  ASSUME NEW p \in Seq(Instructions), NEW k \in 0 .. Len(p)
  PROVE  /\ Rest(p, 0) = p
         /\ k = Len(p) <=> Rest(p, k) = <<>>
         /\ k < Len(p) => Head(Rest(p, k)) = p[k + 1] /\ Tail(Rest(p, k)) = Rest(p, k + 1)
<1>1. Len(p) \in Nat
  OBVIOUS
<1>2. Rest(p, 0) = p
  BY SubSeqFull DEF Rest
<1>3. ASSUME k = Len(p) PROVE Rest(p, k) = <<>>
  BY <1>1, <1>3, SubSeqEmpty DEF Rest
<1>4. ASSUME k < Len(p)
      PROVE  /\ Head(Rest(p, k)) = p[k + 1] /\ Tail(Rest(p, k)) = Rest(p, k + 1)
             /\ Rest(p, k) # <<>>
  <2>1. k + 1 \in 1 .. Len(p) /\ Len(p) \in k + 1 .. Len(p)
    BY <1>1, <1>4
  <2>2. /\ Head(SubSeq(p, k + 1, Len(p))) = p[k + 1]
        /\ Tail(SubSeq(p, k + 1, Len(p))) = SubSeq(p, k + 1 + 1, Len(p))
    BY <2>1, HeadTailOfSubSeq
  <2>3. Len(SubSeq(p, k + 1, Len(p))) = Len(p) - (k + 1) + 1
    <3>1. \A i \in k + 1 .. Len(p) : p[i] \in Instructions
      BY <1>1
    <3> QED
      BY <1>1, <1>4, <3>1, SubSeqProperties
  <2>4. Len(Rest(p, k)) # 0
    BY <1>1, <1>4, <2>3 DEF Rest
  <2>5. Rest(p, k) # <<>>
    BY <2>4
  <2> QED
    BY <2>2, <2>5 DEF Rest
<1> QED
  BY <1>1, <1>2, <1>3, <1>4

(* The instructions of a program or of a block's body.                     *)
IsList(p) == p \in Programs \/ \E i \in Instructions : p = i.body

LEMMA UnrolledRest ==
  ASSUME NEW p, IsList(p), NEW k \in 0 .. Len(p)
  PROVE  /\ p \in Seq(Instructions) /\ Len(p) \in Nat
         /\ Unroll(Rest(p, k)) \in Seq(Leaves)
         /\ k = Len(p) <=> Unroll(Rest(p, k)) = <<>>
         /\ k < Len(p) => Unroll(Rest(p, k)) = Then(Executed(p[k + 1]), Unroll(Rest(p, k + 1)))
         /\ Unroll(Rest(p, 0)) = Unroll(p)
<1>1. p \in Seq(Instructions)
  BY ProgramsAssumption DEF IsList
<1>2. Rest(p, k) \in Lists
  BY DEF Lists, IsList
<1>3. /\ Unroll(Rest(p, k)) \in Seq(Leaves)
      /\ Unroll(Rest(p, k)) = <<>> <=> Rest(p, k) = <<>>
      /\ Rest(p, k) # <<>> =>
           Unroll(Rest(p, k)) = Then(Executed(Head(Rest(p, k))), Unroll(Tail(Rest(p, k))))
  BY <1>2, UnrollAssumption DEF Then
<1>4. /\ Rest(p, 0) = p
      /\ k = Len(p) <=> Rest(p, k) = <<>>
      /\ k < Len(p) => Head(Rest(p, k)) = p[k + 1] /\ Tail(Rest(p, k)) = Rest(p, k + 1)
  BY <1>1, RestFacts
<1>5. Len(p) \in Nat /\ (k < Len(p) <=> k # Len(p))
  BY <1>1
<1> QED
  BY <1>1, <1>3, <1>4, <1>5

(* Division with rest, by any divisor.                                     *)
LEMMA OneMore ==
  ASSUME NEW d \in Nat \ {0}, NEW a \in Nat
  PROVE  (a + d) % d = a % d
<1> DEFINE q == a \div d
           r == a % d
           q2 == (a + d) \div d
           r2 == (a + d) % d
<1>1. q \in Int /\ r \in Int /\ 0 <= r /\ r < d /\ a = d * q + r
  OBVIOUS
<1>2. q2 \in Int /\ r2 \in Int /\ 0 <= r2 /\ r2 < d /\ a + d = d * q2 + r2
  OBVIOUS
<1> HIDE DEF q, r, q2, r2
<1> DEFINE e == q2 - q - 1
<1>3. e \in Int /\ d * e = r - r2
  BY <1>1, <1>2
<1> HIDE DEF e
<1>4. e < 1
  BY <1>1, <1>2, <1>3
<1>5. e > -1
  BY <1>1, <1>2, <1>3
<1>6. e = 0
  BY <1>3, <1>4, <1>5
<1>7. r = r2
  BY <1>1, <1>2, <1>3, <1>6
<1> QED
  BY <1>7 DEF r, r2

(* n + 1 times is once and n times.                                        *)
LEMMA RepeatedFacts ==
  ASSUME NEW s \in Seq(Leaves), NEW n \in Nat
  PROVE  /\ Repeated(s, n) \in Seq(Leaves)
         /\ Repeated(s, 0) = <<>>
         /\ Repeated(s, n + 1) = Then(s, Repeated(s, n))
<1> DEFINE l == Len(s)
           t(m) == Repeated(s, m)
<1>1. l \in Nat /\ DOMAIN s = 1 .. l /\ \A k \in 1 .. l : s[k] \in Leaves
  OBVIOUS
<1>2. \A m \in Nat : m * l \in Nat /\ (m + 1) * l = m * l + l
  BY <1>1
<1> HIDE DEF l
<1>3. ASSUME NEW m \in Nat, NEW k \in 1 .. m * l
      PROVE  l # 0 /\ ((k - 1) % l) + 1 \in 1 .. l
  <2>1. l # 0
    BY <1>1, <1>3
  <2>2. (k - 1) % l \in Int /\ 0 <= (k - 1) % l /\ (k - 1) % l < l
    BY <1>1, <1>2, <2>1
  <2> QED
    BY <1>1, <2>1, <2>2
<1>4. ASSUME NEW m \in Nat
      PROVE  t(m) \in Seq(Leaves) /\ Len(t(m)) = m * l
             /\ \A k \in 1 .. m * l : t(m)[k] = s[((k - 1) % l) + 1]
  BY <1>1, <1>2, <1>3 DEF Repeated, l
<1>5. t(0) = <<>>
  <2>1. 0 * l = 0
    BY <1>1
  <2>2. Len(t(0)) = 0 /\ t(0) \in Seq(Leaves)
    BY <1>4, <2>1
  <2> QED
    BY <2>2
<1> HIDE DEF t
<1> DEFINE u == Then(s, t(n))
<1>6. u \in Seq(Leaves) /\ Len(u) = l + n * l
      /\ \A k \in 1 .. l + n * l : u[k] = IF k <= l THEN s[k] ELSE t(n)[k - l]
  <2>1. t(n) \in Seq(Leaves) /\ Len(t(n)) = n * l
    BY <1>4
  <2>2. /\ s \o t(n) \in Seq(Leaves)
        /\ Len(s \o t(n)) = Len(s) + Len(t(n))
        /\ \A k \in 1 .. Len(s) + Len(t(n)) : (s \o t(n))[k] =
             IF k <= Len(s) THEN s[k] ELSE t(n)[k - Len(s)]
    BY <2>1, ConcatProperties
  <2> QED
    BY <2>1, <2>2, Zenon DEF Then, l
<1> HIDE DEF u
<1>7. ASSUME NEW k \in 1 .. (n + 1) * l
      PROVE  t(n + 1)[k] = u[k]
  <2>1. t(n + 1)[k] = s[((k - 1) % l) + 1] /\ l # 0
    <3>1. n + 1 \in Nat
      OBVIOUS
    <3> QED
      BY <1>3, <1>4, <3>1
  <2>2. CASE k <= l
    <3>1. (k - 1) % l = k - 1
      BY <1>1, <1>2, <2>1, <2>2
    <3>2. k \in 1 .. l + n * l /\ k - 1 + 1 = k
      BY <1>1, <1>2, <2>2
    <3> QED
      BY <1>6, <2>1, <2>2, <3>1, <3>2
  <2>3. CASE k > l
    <3>1. k - l \in 1 .. n * l
      BY <1>1, <1>2, <2>3
    <3>2. (k - 1) % l = (k - l - 1) % l
      <4> DEFINE a == k - l - 1
      <4>1. a \in Nat /\ a + l = k - 1 /\ l \in Nat \ {0}
        BY <1>1, <1>2, <2>1, <2>3
      <4> HIDE DEF a
      <4>2. (a + l) % l = a % l
        BY <4>1, OneMore
      <4> QED
        BY <4>1, <4>2 DEF a
    <3>3. t(n)[k - l] = s[((k - l - 1) % l) + 1]
      BY <1>4, <3>1
    <3>4. k \in 1 .. l + n * l /\ ~ (k <= l)
      BY <1>1, <1>2, <2>3
    <3>5. u[k] = t(n)[k - l]
      BY <1>6, <3>4
    <3> QED
      BY <2>1, <3>2, <3>3, <3>5
  <2> QED
    BY <1>1, <1>2, <2>2, <2>3
<1>8. t(n + 1) \in Seq(Leaves) /\ Len(t(n + 1)) = (n + 1) * l
  BY <1>4
<1>9. t(n + 1) = u
  <2>1. Len(t(n + 1)) = Len(u)
    BY <1>1, <1>2, <1>6, <1>8
  <2> QED
    BY <1>6, <1>7, <1>8, <2>1, SeqEqual
<1> QED
  BY <1>4, <1>5, <1>9 DEF t, u

LEMMA RoundsFacts ==
  ASSUME NEW i \in Instructions, NEW n \in Nat
  PROVE  /\ IsList(i.body) /\ i.body \in Seq(Instructions) /\ Len(i.body) \in Nat
         /\ Unroll(i.body) \in Seq(Leaves)
         /\ Rounds(i, n) \in Seq(Leaves)
         /\ Rounds(i, 0) = <<>>
         /\ Rounds(i, n + 1) = Then(Unroll(i.body), Rounds(i, n))
<1>1. IsList(i.body)
  BY DEF IsList
<1>2. i.body \in Seq(Instructions)
  BY ProgramsAssumption
<1>3. 0 \in 0 .. Len(i.body)
  BY <1>2
<1>4. Unroll(i.body) \in Seq(Leaves)
  BY <1>1, <1>3, UnrolledRest
<1> DEFINE s == Unroll(i.body)
<1> HIDE DEF s
<1>5. /\ Repeated(s, n) \in Seq(Leaves)
      /\ Repeated(s, 0) = <<>>
      /\ Repeated(s, n + 1) = Then(s, Repeated(s, n))
  <2>1. s \in Seq(Leaves)
    BY <1>4 DEF s
  <2> QED
    BY <2>1, RepeatedFacts
<1> QED
  BY <1>1, <1>2, <1>4, <1>5 DEF Rounds, s

LEMMA ExecutedTyped ==
  ASSUME NEW i \in Instructions
  PROVE  /\ Executed(i) \in Seq(Leaves)
         /\ i.opcode # "FOR" => Executed(i) = <<i>>
<1>1. i.val1 \in Nat
  BY ProgramsAssumption, ByteFacts
<1>2. Rounds(i, i.val1) \in Seq(Leaves)
  BY <1>1, RoundsFacts
<1>3. i.opcode # "FOR" => <<i>> \in Seq(Leaves)
  BY DEF Leaves
<1> QED
  BY <1>2, <1>3 DEF Executed

(* A round begins with the body's first instruction.                       *)
LEMMA RoundBegins ==
  ASSUME NEW i \in Instructions, i.body # <<>>, NEW n \in Nat
  PROVE  /\ Rounds(i, n + 1) =
              Then(Executed(i.body[1]), Then(Unroll(Rest(i.body, 1)), Rounds(i, n)))
         /\ i.body[1] \in Instructions
         /\ Unroll(i.body) # <<>>
<1> DEFINE b == i.body
<1>1. IsList(b) /\ b \in Seq(Instructions) /\ Len(b) \in Nat /\ Len(b) > 0
  <2>1. IsList(b) /\ b \in Seq(Instructions) /\ Len(b) \in Nat
    BY RoundsFacts
  <2> QED
    BY <2>1
<1>2. 0 \in 0 .. Len(b) /\ 1 \in 0 .. Len(b) /\ 0 + 1 = 1 /\ 1 \in 1 .. Len(b)
  BY <1>1
<1>3. /\ Unroll(Rest(b, 0)) = Then(Executed(b[0 + 1]), Unroll(Rest(b, 0 + 1)))
      /\ Unroll(Rest(b, 0)) = Unroll(b) /\ Unroll(Rest(b, 0)) # <<>>
  BY <1>1, <1>2, UnrolledRest
<1>4. Unroll(Rest(b, 1)) \in Seq(Leaves)
  BY <1>1, <1>2, UnrolledRest
<1>5. b[1] \in Instructions
  BY <1>1, <1>2
<1>6. Rounds(i, n) \in Seq(Leaves) /\ Rounds(i, n + 1) = Then(Unroll(b), Rounds(i, n))
  BY RoundsFacts
<1>7. Executed(b[1]) \in Seq(Leaves)
  BY <1>5, ExecutedTyped
<1>8. Then(Unroll(b), Rounds(i, n)) =
        Then(Executed(b[1]), Then(Unroll(Rest(b, 1)), Rounds(i, n)))
  <2>1. Unroll(b) = Then(Executed(b[1]), Unroll(Rest(b, 1)))
    BY <1>2, <1>3
  <2> QED
    BY <1>4, <1>6, <1>7, <2>1, ThenTogether
<1> QED
  BY <1>3, <1>5, <1>6, <1>8

LEMMA ExecutedSomething ==
  ASSUME NEW i \in Instructions
  PROVE  Executed(i) # <<>>
<1>1. CASE i.opcode # "FOR"
  <2>1. Executed(i) = <<i>>
    BY <1>1, ExecutedTyped
  <2>2. Len(<<i>>) # Len(<<>>)
    OBVIOUS
  <2> QED
    BY <2>1, <2>2
<1>2. CASE i.opcode = "FOR"
  <2>1. i.val1 \in Nat /\ i.val1 > 0 /\ i.body # <<>>
    BY <1>2, ProgramsAssumption, ByteFacts
  <2>2. i.val1 - 1 \in Nat /\ i.val1 - 1 + 1 = i.val1
    BY <2>1
  <2>3. Rounds(i, i.val1) = Then(Unroll(i.body), Rounds(i, i.val1 - 1))
    BY <2>2, RoundsFacts
  <2>4. /\ Unroll(i.body) \in Seq(Leaves) /\ Unroll(i.body) # <<>>
        /\ Rounds(i, i.val1 - 1) \in Seq(Leaves)
    BY <2>1, <2>2, RoundsFacts, RoundBegins
  <2>5. Rounds(i, i.val1) # <<>>
    BY <2>3, <2>4, ThenFacts
  <2> QED
    BY <1>2, <2>5 DEF Executed
<1> QED
  BY <1>1, <1>2

(***************************************************************************)
(* What a block leaves to do once the current instruction of its body is   *)
(* done.                                                                   *)
(***************************************************************************)
After(c) == Then(Unroll(Rest(c.forInst.body, c.bodyIdx + 1)),
                 Rounds(c.forInst, c.remaining - 1))

At(c) == c.forInst.body[c.bodyIdx + 1]

LEMMA AfterTyped ==
  ASSUME NEW c \in Entries
  PROVE  /\ IsList(c.forInst.body) /\ c.bodyIdx + 1 \in 0 .. Len(c.forInst.body)
         /\ Unroll(Rest(c.forInst.body, c.bodyIdx + 1)) \in Seq(Leaves)
         /\ c.remaining \in Nat /\ c.remaining - 1 \in Nat
         /\ Rounds(c.forInst, c.remaining - 1) \in Seq(Leaves)
         /\ After(c) \in Seq(Leaves)
<1>1. /\ c.forInst \in Instructions /\ Len(c.forInst.body) \in Nat /\ c.bodyIdx \in Nat
      /\ c.forInst.val1 \in Nat
  BY BodyIsProgram
<1>2. c.bodyIdx < Len(c.forInst.body) /\ c.remaining \in 1 .. c.forInst.val1
  BY DEF Entries
<1>3. c.bodyIdx + 1 \in 0 .. Len(c.forInst.body)
  BY <1>1, <1>2
<1>4. c.remaining \in Nat /\ c.remaining - 1 \in Nat
  BY <1>1, <1>2
<1>5. IsList(c.forInst.body)
  BY <1>1 DEF IsList
<1>6. Unroll(Rest(c.forInst.body, c.bodyIdx + 1)) \in Seq(Leaves)
  BY <1>3, <1>5, UnrolledRest
<1>7. Rounds(c.forInst, c.remaining - 1) \in Seq(Leaves)
  BY <1>1, <1>4, RoundsFacts
<1> QED
  BY <1>3, <1>4, <1>5, <1>6, <1>7, ThenFacts DEF After

(* A block that is over leaves nothing.                                    *)
LEMMA OverLeavesNothing ==
  ASSUME NEW c \in Entries, Over(c)
  PROVE  After(c) = <<>>
<1>1. /\ IsList(c.forInst.body) /\ c.bodyIdx + 1 \in 0 .. Len(c.forInst.body)
      /\ c.remaining = 1 /\ c.forInst \in Instructions
      /\ Len(c.forInst.body) \in Nat
  BY AfterTyped, BodyIsProgram DEF Over
<1>2. c.bodyIdx + 1 = Len(c.forInst.body)
  BY <1>1 DEF Over
<1>3. Unroll(Rest(c.forInst.body, c.bodyIdx + 1)) = <<>>
  BY <1>1, <1>2, UnrolledRest
<1>4. Rounds(c.forInst, c.remaining - 1) = <<>>
  <2>1. c.remaining - 1 = 0
    BY <1>1
  <2>2. Rounds(c.forInst, 0) = <<>>
    BY <1>1, RoundsFacts
  <2> QED
    BY <2>1, <2>2
<1> QED
  BY <1>3, <1>4, NoLeaf, ThenNothing DEF After

(* Another one goes on with its next instruction.                          *)
LEMMA SteppedGoesOn ==
  ASSUME NEW c \in Entries, ~ Over(c)
  PROVE  /\ Stepped(c) \in Entries
         /\ After(c) = Then(Executed(At(Stepped(c))), After(Stepped(c)))
<1> DEFINE d == Stepped(c)
           b == c.forInst.body
<1>1. d \in Entries
  BY SteppedTyped
<1>2. /\ c.forInst \in Instructions /\ b \in Seq(Instructions) /\ Len(b) \in Nat
      /\ c.bodyIdx \in Nat /\ c.bodyIdx < Len(b) /\ IsList(b)
      /\ c.remaining \in Nat /\ c.remaining - 1 \in Nat
      /\ Rounds(c.forInst, c.remaining - 1) \in Seq(Leaves)
      /\ c \in [forInst : Instructions, bodyIdx : Nat, remaining : Nat]
  BY AfterTyped, BodyIsProgram DEF Entries, Contexts
<1>3. CASE c.bodyIdx + 1 < Len(b)
  <2>1. d = [c EXCEPT !.bodyIdx = c.bodyIdx + 1]
    BY <1>3 DEF Stepped
  <2>2. d.forInst = c.forInst /\ d.bodyIdx = c.bodyIdx + 1 /\ d.remaining = c.remaining
    BY <1>2, <2>1
  <2> HIDE DEF d
  <2>3. c.bodyIdx + 1 \in 0 .. Len(b) /\ c.bodyIdx + 1 + 1 \in 1 .. Len(b)
    BY <1>2, <1>3
  <2>4. Unroll(Rest(b, c.bodyIdx + 1)) =
          Then(Executed(b[c.bodyIdx + 1 + 1]), Unroll(Rest(b, c.bodyIdx + 1 + 1)))
    BY <1>2, <1>3, <2>3, UnrolledRest
  <2>5. b[c.bodyIdx + 1 + 1] \in Instructions
    BY <1>2, <2>3
  <2>6. /\ Executed(b[c.bodyIdx + 1 + 1]) \in Seq(Leaves)
        /\ Unroll(Rest(b, c.bodyIdx + 1 + 1)) \in Seq(Leaves)
    <3>1. c.bodyIdx + 1 + 1 \in 0 .. Len(b)
      BY <2>3
    <3> QED
      BY <1>2, <2>5, <3>1, ExecutedTyped, UnrolledRest
  <2>7. After(c) = Then(Executed(b[c.bodyIdx + 1 + 1]),
                        Then(Unroll(Rest(b, c.bodyIdx + 1 + 1)),
                             Rounds(c.forInst, c.remaining - 1)))
    BY <1>2, <2>4, <2>6, ThenTogether DEF After
  <2> QED
    BY <1>1, <2>2, <2>7 DEF d, After, At
<1>4. CASE ~ (c.bodyIdx + 1 < Len(b))
  <2>1. d = [c EXCEPT !.bodyIdx = 0, !.remaining = c.remaining - 1]
    BY <1>4 DEF Stepped
  <2>2. d.forInst = c.forInst /\ d.bodyIdx = 0 /\ d.remaining = c.remaining - 1
    BY <1>2, <2>1
  <2> HIDE DEF d
  <2>3. c.bodyIdx + 1 = Len(b) /\ c.bodyIdx + 1 \in 0 .. Len(b) /\ b # <<>>
    BY <1>2, <1>4
  <2>4. c.remaining # 1
    BY <1>2, <2>3 DEF Over
  <2>5. c.remaining - 2 \in Nat /\ c.remaining - 2 + 1 = c.remaining - 1
        /\ c.remaining - 1 - 1 = c.remaining - 2
    BY <1>2, <2>4
  <2>6. Unroll(Rest(b, c.bodyIdx + 1)) = <<>>
    BY <1>2, <2>3, UnrolledRest
  <2>7. After(c) = Rounds(c.forInst, c.remaining - 1)
    BY <1>2, <2>6, ThenNothing DEF After
  <2>8. Rounds(c.forInst, c.remaining - 2 + 1) =
          Then(Executed(b[1]), Then(Unroll(Rest(b, 1)), Rounds(c.forInst, c.remaining - 2)))
    BY <1>2, <2>3, <2>5, RoundBegins
  <2>9. After(d) = Then(Unroll(Rest(b, 1)), Rounds(c.forInst, c.remaining - 2)) /\ At(d) = b[1]
    <3>1. 0 + 1 = 1
      OBVIOUS
    <3> QED
      BY <2>2, <2>5, <3>1 DEF After, At
  <2> QED
    BY <1>1, <2>5, <2>7, <2>8, <2>9 DEF d
<1> QED
  BY <1>3, <1>4

(* A block just entered is to do its body as often as it says.             *)
LEMMA EnteredBegins ==
  ASSUME NEW i \in Instructions, i.opcode = "FOR",
         NEW c, c = [forInst |-> i, bodyIdx |-> 0, remaining |-> i.val1]
  PROVE  c \in Entries /\ Executed(i) = Then(Executed(At(c)), After(c))
<1>1. i.val1 \in Nat /\ i.val1 > 0 /\ i.body # <<>> /\ i.body \in Seq(Instructions)
  BY ProgramsAssumption, ByteFacts
<1>2. c \in Contexts /\ c.forInst = i /\ c.bodyIdx = 0 /\ c.remaining = i.val1
  BY <1>1 DEF Contexts
<1>3. c \in Entries
  <2>1. Len(i.body) > 0 /\ i.val1 \in 1 .. i.val1
    BY <1>1
  <2> QED
    BY <1>2, <2>1 DEF Entries
<1>4. i.val1 - 1 \in Nat /\ i.val1 - 1 + 1 = i.val1 /\ 0 + 1 = 1
  BY <1>1
<1>5. Rounds(i, i.val1) =
        Then(Executed(i.body[1]), Then(Unroll(Rest(i.body, 1)), Rounds(i, i.val1 - 1)))
  BY <1>1, <1>4, RoundBegins
<1>6. After(c) = Then(Unroll(Rest(i.body, 1)), Rounds(i, i.val1 - 1)) /\ At(c) = i.body[1]
  BY <1>2, <1>4 DEF After, At
<1> QED
  BY <1>3, <1>5, <1>6 DEF Executed

(* R[k]: what the k outermost blocks of stack s and the program p they are *)
(* in leave to do once each one's current instruction is done; line is the *)
(* program's next one.                                                     *)
Nested(R, p, s, line) ==
  /\ R \in [0 .. Len(s) -> Seq(Leaves)]
  /\ R[0] = Unroll(Rest(p, line))
  /\ \A k \in 1 .. Len(s) : R[k] = Then(After(s[k]), R[k - 1])

(* The k outermost blocks, and c inside them.                              *)
Within(s, k, c) == Append(SubSeq(s, 1, k), c)

(* One block more, on top of the k outermost ones.                         *)
LEMMA NestedDeeper ==
  ASSUME NEW p, NEW s \in Seq(Entries), NEW line, NEW B, Nested(B, p, s, line),
         NEW k \in 0 .. Len(s), NEW c \in Entries
  PROVE  /\ Within(s, k, c) \in Seq(Entries) /\ Within(s, k, c) # <<>>
         /\ Len(Within(s, k, c)) = k + 1 /\ Within(s, k, c)[k + 1] = c
         /\ \E R : /\ Nested(R, p, Within(s, k, c), line)
                  /\ R[k + 1] = Then(After(c), B[k])
<1> DEFINE u == SubSeq(s, 1, k)
           t == Within(s, k, c)
           R == [j \in 0 .. k + 1 |-> IF j <= k THEN B[j] ELSE Then(After(c), B[k])]
<1>1. Len(s) \in Nat /\ k \in Nat /\ k <= Len(s)
  OBVIOUS
<1>2. u \in Seq(Entries) /\ Len(u) = k /\ \A j \in 1 .. k : u[j] = s[j]
  <2>1. \A j \in 1 .. k : s[j] \in Entries
    BY <1>1
  <2> QED
    BY <1>1, <2>1, SubSeqProperties
<1>3. /\ t \in Seq(Entries) /\ t # <<>> /\ Len(t) = k + 1 /\ t[k + 1] = c
      /\ \A j \in 1 .. k : t[j] = s[j]
  <2>1. t = Append(u, c)
    BY DEF Within
  <2> HIDE DEF u, t
  <2>2. /\ Append(u, c) \in Seq(Entries) /\ Append(u, c) # <<>>
        /\ Len(Append(u, c)) = Len(u) + 1
        /\ \A j \in 1 .. Len(u) : Append(u, c)[j] = u[j]
        /\ Append(u, c)[Len(u) + 1] = c
    BY <1>2, AppendProperties
  <2> QED
    BY <1>2, <2>1, <2>2
<1> HIDE DEF u, t
<1>4. /\ B[k] \in Seq(Leaves) /\ \A j \in 0 .. k : B[j] \in Seq(Leaves)
      /\ B[0] = Unroll(Rest(p, line))
      /\ \A j \in 1 .. k : B[j] = Then(After(s[j]), B[j - 1])
  <2>1. /\ B \in [0 .. Len(s) -> Seq(Leaves)] /\ B[0] = Unroll(Rest(p, line))
        /\ \A j \in 1 .. Len(s) : B[j] = Then(After(s[j]), B[j - 1])
    BY DEF Nested
  <2>2. \A j \in 0 .. k : j \in 0 .. Len(s)
    BY <1>1
  <2>3. \A j \in 1 .. k : j \in 1 .. Len(s)
    BY <1>1
  <2> QED
    BY <1>1, <2>1, <2>2, <2>3
<1>5. Then(After(c), B[k]) \in Seq(Leaves)
  BY <1>4, AfterTyped, ThenFacts
<1>6. R \in [0 .. Len(t) -> Seq(Leaves)]
  BY <1>1, <1>3, <1>4, <1>5
<1>7. /\ R[0] = B[0] /\ R[k + 1] = Then(After(c), B[k])
      /\ \A j \in 0 .. k : R[j] = B[j]
  BY <1>1
<1> HIDE DEF R
<1>8. ASSUME NEW j \in 1 .. Len(t)
      PROVE  R[j] = Then(After(t[j]), R[j - 1])
  <2>1. CASE j = k + 1
    <3>1. R[j - 1] = B[k]
      BY <1>1, <1>7, <2>1
    <3> QED
      BY <1>3, <1>7, <2>1, <3>1
  <2>2. CASE j # k + 1
    <3>1. j \in 1 .. k /\ j \in 0 .. k /\ j - 1 \in 0 .. k
      BY <1>1, <1>3, <2>2
    <3>2. R[j] = B[j] /\ R[j - 1] = B[j - 1] /\ t[j] = s[j]
      BY <1>3, <1>7, <3>1
    <3> QED
      BY <1>4, <3>1, <3>2
  <2> QED
    BY <2>1, <2>2
<1>9. Nested(R, p, t, line)
  BY <1>4, <1>6, <1>7, <1>8 DEF Nested
<1> QED
  BY <1>3, <1>7, <1>9 DEF t

(* Where every element is the one before, the last one is the first.       *)
LEMMA AllTheSame ==
  ASSUME NEW n \in Nat, NEW m \in 0 .. n, NEW B,
         \A k \in m + 1 .. n : B[k] = B[k - 1]
  PROVE  B[n] = B[m]
<1> DEFINE T == {j \in 1 .. (n - m) + 1 : B[n - j + 1] = B[n]}
<1>1. n - m \in Nat /\ (n - m) + 1 \in Nat
  OBVIOUS
<1>2. T \in SUBSET (1 .. (n - m) + 1) /\ 1 \in T
  <2>1. n - 1 + 1 = n
    OBVIOUS
  <2> QED
    BY <1>1, <2>1
<1>3. PICK k \in T : \A l \in T : l <= k
  <2> HIDE DEF T
  <2> QED
    BY <1>1, <1>2, GreatestExists
<1>4. k \in 1 .. (n - m) + 1 /\ B[n - k + 1] = B[n]
  OBVIOUS
<1>5. CASE n - k + 1 = m
  BY <1>4, <1>5
<1>6. CASE n - k + 1 # m
  <2>1. n - k + 1 \in m + 1 .. n
    BY <1>4, <1>6
  <2>2. B[n - k + 1 - 1] = B[n]
    BY <1>4, <2>1
  <2>3. k + 1 \in 1 .. (n - m) + 1 /\ n - (k + 1) + 1 = n - k + 1 - 1
    BY <1>4, <1>6
  <2>4. k + 1 \in T
    BY <2>2, <2>3
  <2>5. k + 1 <= k
    BY <1>3, <2>4
  <2> QED
    BY <1>4, <2>5
<1> QED
  BY <1>5, <1>6

(* The contexts that are popped leave nothing to do, the one that goes on  *)
(* does its next instruction.                                              *)
LEMMA Popped ==
  ASSUME forStack \in Seq(Entries), NEW p, NEW line, NEW B, Nested(B, p, forStack, line)
  PROVE  \/ NextStack = <<>> /\ B[Len(forStack)] = B[0]
         \/ /\ forStack # <<>>
            /\ \E k \in 1 .. Len(forStack) :
                 /\ forStack[k] \in Entries /\ ~ Over(forStack[k])
                 /\ NextStack = Within(forStack, k - 1, Stepped(forStack[k]))
                 /\ B[Len(forStack)] = B[k]
<1> DEFINE open == {k \in DOMAIN forStack : ~ Over(forStack[k])}
           n == Len(forStack)
<1>1. /\ n \in Nat /\ DOMAIN forStack = 1 .. n
      /\ \A k \in 1 .. n : forStack[k] \in Entries
  OBVIOUS
<1>2. ASSUME NEW k \in 1 .. n, Over(forStack[k])
      PROVE  B[k] = B[k - 1]
  <2>1. After(forStack[k]) = <<>>
    BY <1>1, <1>2, OverLeavesNothing
  <2>2. k - 1 \in 0 .. n
    BY <1>1
  <2>3. B[k - 1] \in Seq(Leaves) /\ B[k] = Then(After(forStack[k]), B[k - 1])
    BY <2>2 DEF Nested
  <2> QED
    BY <2>1, <2>3, ThenNothing
<1>3. CASE open = {}
  <2>1. NextStack = <<>>
    BY <1>3 DEF NextStack
  <2>2. \A k \in 1 .. n : B[k] = B[k - 1]
    BY <1>1, <1>2, <1>3
  <2>3. 0 \in 0 .. n /\ 0 + 1 = 1
    BY <1>1
  <2>4. B[n] = B[0]
    <3> HIDE DEF n
    <3> QED
      BY <1>1, <2>2, <2>3, AllTheSame
  <2> QED
    BY <2>1, <2>4
<1>4. CASE open # {}
  <2> DEFINE k == CHOOSE k \in open : \A l \in open : l <= k
  <2>1. \E k_1 \in open : \A l \in open : l <= k_1
    BY <1>4, <1>1, GreatestExists
  <2>2. k \in open /\ \A l \in open : l <= k
    BY <2>1
  <2>3. NextStack = Within(forStack, k - 1, Stepped(forStack[k]))
    BY <1>4 DEF NextStack, Within
  <2> HIDE DEF k
  <2>4. k \in 1 .. n /\ forStack[k] \in Entries /\ ~ Over(forStack[k])
    BY <1>1, <2>2
  <2>5. ASSUME NEW l \in k + 1 .. n
        PROVE  B[l] = B[l - 1]
    <3>1. l \in 1 .. n /\ ~ (l <= k)
      BY <1>1, <2>4
    <3>2. Over(forStack[l])
      BY <1>1, <2>2, <3>1
    <3> QED
      BY <1>2, <3>1, <3>2
  <2>6. B[n] = B[k]
    <3>1. k \in 0 .. n
      BY <1>1, <2>4
    <3> HIDE DEF n
    <3> QED
      BY <1>1, <2>5, <3>1, AllTheSame
  <2>7. forStack # <<>>
    BY <1>1, <2>4
  <2> QED
    BY <2>3, <2>4, <2>6, <2>7
<1> QED
  BY <1>3, <1>4

(* What is left of the unrolled program, by the stack and the line.        *)
LeftBy(R) == IF forStack = <<>> THEN R[0]
             ELSE Then(Executed(Current), R[Len(forStack)])

(* What was executed is the beginning of the unrolled program, what is     *)
(* left is the rest of it.                                                 *)
InOrder == \E R : /\ Nested(R, instructions, forStack, currentLine)
                  /\ Unrolled = Then(done, LeftBy(R))

LEMMA ProgramUnrolled ==
  ASSUME Inv
  PROVE  /\ IsList(instructions) /\ instructions \in Seq(Instructions)
         /\ Len(instructions) \in Nat /\ instructions # <<>>
         /\ Unrolled \in Seq(Leaves) /\ Unrolled \in UnrolledPrograms
         /\ forStack \in Seq(Entries) /\ Len(forStack) \in Nat
         /\ done \in Seq(Leaves)
         /\ currentLine \in 0 .. Len(instructions)
<1>1. /\ instructions \in Programs /\ currentLine \in 0 .. Len(instructions)
      /\ done \in Seq(Leaves) /\ forStack \in Seq(Entries)
  BY StackTyped DEF Inv, TypeOK
<1>2. instructions \in Seq(Instructions) /\ instructions # <<>>
  BY <1>1, ProgramsAssumption
<1>3. IsList(instructions) /\ Len(instructions) \in Nat /\ 0 \in 0 .. Len(instructions)
  BY <1>1, <1>2 DEF IsList
<1>4. Unrolled \in Seq(Leaves)
  BY <1>3, UnrolledRest DEF Unrolled
<1>5. Unrolled \in UnrolledPrograms
  BY <1>1 DEF UnrolledPrograms, Unrolled
<1> QED
  BY <1>1, <1>2, <1>3, <1>4, <1>5

(* The line of the program the process is at once the instruction in hand  *)
(* is done, or a block of it entered.                                      *)
LineAfter == IF forStack = <<>> THEN currentLine + 1 ELSE currentLine

LEMMA Underway ==
  ASSUME Inv, InOrder, state = RUNNING
  PROVE  \E B : /\ Nested(B, instructions, forStack, LineAfter)
                /\ B[Len(forStack)] \in Seq(Leaves)
                /\ Unrolled = Then(done, Then(Executed(Current), B[Len(forStack)]))
                /\ B[0] = Unroll(Rest(instructions, LineAfter))
                /\ LineAfter \in 0 .. Len(instructions)
                /\ B[0] = <<>> <=> LineAfter = Len(instructions)
<1> DEFINE n == Len(forStack)
<1>1. PICK R : /\ Nested(R, instructions, forStack, currentLine)
               /\ Unrolled = Then(done, LeftBy(R))
  BY DEF InOrder
<1>2. /\ IsList(instructions) /\ Len(instructions) \in Nat /\ n \in Nat
      /\ currentLine \in 0 .. Len(instructions)
  BY ProgramUnrolled
<1>3. CASE forStack # <<>>
  <2>1. LineAfter = currentLine /\ LeftBy(R) = Then(Executed(Current), R[n])
    BY <1>3 DEF LineAfter, LeftBy
  <2>2. R[n] \in Seq(Leaves) /\ R[0] = Unroll(Rest(instructions, currentLine))
    <3>1. n \in 0 .. n
      BY <1>2
    <3> QED
      BY <1>1, <3>1 DEF Nested
  <2>3. R[0] = <<>> <=> currentLine = Len(instructions)
    BY <1>2, <2>2, UnrolledRest
  <2> QED
    BY <1>1, <1>2, <2>1, <2>2, <2>3
<1>4. CASE forStack = <<>>
  <2> DEFINE rest == Unroll(Rest(instructions, currentLine + 1))
             B == [k \in 0 .. 0 |-> rest]
  <2>1. LineAfter = currentLine + 1 /\ LeftBy(R) = R[0] /\ n = 0
        /\ Current = instructions[currentLine + 1]
    BY <1>4 DEF LineAfter, LeftBy, Current
  <2>2. currentLine < Len(instructions) /\ currentLine + 1 \in 0 .. Len(instructions)
    BY <1>2, <1>4 DEF Inv, MoreToDo
  <2>3. R[0] = Then(Executed(Current), rest)
    <3>1. R[0] = Unroll(Rest(instructions, currentLine))
      BY <1>1 DEF Nested
    <3>2. Unroll(Rest(instructions, currentLine))
            = Then(Executed(instructions[currentLine + 1]), rest)
      BY <1>2, <2>2, UnrolledRest
    <3> QED
      BY <2>1, <3>1, <3>2
  <2>4. rest \in Seq(Leaves) /\ (rest = <<>> <=> currentLine + 1 = Len(instructions))
    BY <1>2, <2>2, UnrolledRest
  <2> HIDE DEF rest
  <2>5. B \in [0 .. 0 -> Seq(Leaves)] /\ B[0] = rest /\ 0 .. n = 0 .. 0 /\ 1 .. n = {}
    BY <2>1, <2>4
  <2> HIDE DEF B
  <2>6. Nested(B, instructions, forStack, LineAfter)
    BY <2>1, <2>5 DEF Nested, rest
  <2>7. B[n] = rest
    BY <2>1, <2>5
  <2> QED
    BY <1>1, <2>1, <2>2, <2>3, <2>4, <2>5, <2>6, <2>7 DEF rest
<1> QED
  BY <1>3, <1>4

(* The instruction in hand is consumed: it comes off the rest of the       *)
(* unrolled program, and the process ends with the last one.               *)
LEMMA ConsumedInOrder ==
  ASSUME Inv, InOrder, state = RUNNING, Current.opcode # "FOR", AdvanceLine,
         UNCHANGED program
  PROVE  /\ InOrder'
         /\ \E y \in Seq(Leaves) :
              /\ Unrolled = Then(done, Then(<<Current>>, y))
              /\ Unrolled' = Then(done', y)
              /\ state' = IF y = <<>> THEN FINISHED ELSE RUNNING
<1> DEFINE n == Len(forStack)
<1>1. PICK B : /\ Nested(B, instructions, forStack, LineAfter)
               /\ B[n] \in Seq(Leaves)
               /\ Unrolled = Then(done, Then(Executed(Current), B[n]))
               /\ B[0] = Unroll(Rest(instructions, LineAfter))
               /\ LineAfter \in 0 .. Len(instructions)
               /\ B[0] = <<>> <=> LineAfter = Len(instructions)
  BY Underway
<1>2. /\ Current \in Instructions /\ Executed(Current) = <<Current>>
      /\ <<Current>> \in Seq(Leaves)
  BY CurrentIsInstruction, ExecutedTyped DEF Inv
<1>3. /\ instructions' = instructions /\ forStack' = NextStack /\ currentLine' = LineAfter
      /\ done' = Append(done, Current) /\ Unrolled' = Unrolled
      /\ state' = IF forStack' = <<>> /\ currentLine' >= Len(instructions)
                  THEN FINISHED ELSE RUNNING
  BY DEF AdvanceLine, program, LineAfter, Unrolled
<1>4. /\ forStack \in Seq(Entries) /\ n \in Nat /\ done \in Seq(Leaves)
      /\ Len(instructions) \in Nat
  BY ProgramUnrolled
<1>5. done' = Then(done, <<Current>>)
  <2>1. Current \in Leaves
    BY <1>2 DEF Leaves
  <2> QED
    BY <1>3, <1>4, <2>1, AppendIsConcat DEF Then
<1>6. Unrolled' = Then(done', B[n])
  <2>1. Then(Then(done, <<Current>>), B[n]) = Then(done, Then(<<Current>>, B[n]))
    BY <1>1, <1>2, <1>4, ThenTogether, Zenon
  <2>2. Unrolled = Then(done, Then(<<Current>>, B[n]))
    BY <1>1, <1>2
  <2> QED
    BY <1>3, <1>5, <2>1, <2>2, Zenon
<1>7. CASE NextStack = <<>> /\ B[n] = B[0]
  <2> DEFINE R == [k \in 0 .. 0 |-> B[0]]
  <2>1. R \in [0 .. 0 -> Seq(Leaves)] /\ R[0] = B[0]
    BY <1>1, <1>7
  <2> HIDE DEF R
  <2>2. Len(forStack') = 0 /\ 1 .. Len(forStack') = {} /\ 0 .. Len(forStack') = 0 .. 0
    BY <1>3, <1>7
  <2>3. Nested(R, instructions', forStack', currentLine')
    BY <1>1, <1>3, <2>1, <2>2 DEF Nested
  <2>4. LeftBy(R)' = B[n]
    BY <1>3, <1>7, <2>1 DEF LeftBy
  <2>5. InOrder'
    BY <1>6, <2>3, <2>4 DEF InOrder
  <2>6. forStack' = <<>> /\ (currentLine' >= Len(instructions) <=> B[n] = <<>>)
    BY <1>1, <1>3, <1>4, <1>7
  <2> QED
    BY <1>1, <1>2, <1>3, <1>6, <2>5, <2>6
<1>8. CASE \E k \in 1 .. n :
                 /\ forStack[k] \in Entries /\ ~ Over(forStack[k])
                 /\ NextStack = Within(forStack, k - 1, Stepped(forStack[k]))
                 /\ B[n] = B[k]
  <2>1. PICK k \in 1 .. n :
                 /\ forStack[k] \in Entries /\ ~ Over(forStack[k])
                 /\ NextStack = Within(forStack, k - 1, Stepped(forStack[k]))
                 /\ B[n] = B[k]
    BY <1>8
  <2> DEFINE d == Stepped(forStack[k])
  <2>2. d \in Entries /\ After(forStack[k]) = Then(Executed(At(d)), After(d))
    BY <2>1, SteppedGoesOn
  <2> HIDE DEF d
  <2>3. k - 1 \in 0 .. n /\ k - 1 + 1 = k /\ k \in 0 .. n
    BY <1>4, <2>1
  <2>4. /\ forStack' # <<>> /\ Len(forStack') = k /\ forStack'[k] = d
        /\ \E R : Nested(R, instructions, forStack', LineAfter)
                  /\ R[k] = Then(After(d), B[k - 1])
    <3> DEFINE t == Within(forStack, k - 1, d)
    <3>1. /\ t # <<>> /\ Len(t) = k - 1 + 1 /\ t[k - 1 + 1] = d
          /\ \E R : Nested(R, instructions, t, LineAfter)
                  /\ R[k - 1 + 1] = Then(After(d), B[k - 1])
      BY <1>1, <1>4, <2>2, <2>3, NestedDeeper
    <3>2. t = forStack'
      BY <1>3, <2>1 DEF d
    <3> QED
      BY <2>3, <3>1, <3>2
  <2>5. PICK R : Nested(R, instructions, forStack', LineAfter)
                 /\ R[k] = Then(After(d), B[k - 1])
    BY <2>4
  <2>6. Current' = At(d)
    BY <2>4 DEF Current, At
  <2>7. At(d) \in Instructions /\ B[k - 1] \in Seq(Leaves) /\ B[k] = Then(After(forStack[k]), B[k - 1])
    BY <1>1, <2>1, <2>2, <2>3, BodyIsProgram DEF Nested, At
  <2>8. Executed(At(d)) \in Seq(Leaves) /\ After(d) \in Seq(Leaves) /\ Executed(At(d)) # <<>>
    BY <2>2, <2>7, ExecutedTyped, AfterTyped, ExecutedSomething
  <2>9. B[n] = Then(Executed(At(d)), R[k])
    BY <2>1, <2>2, <2>5, <2>7, <2>8, ThenTogether
  <2>10. LeftBy(R)' = B[n]
    BY <2>4, <2>6, <2>9 DEF LeftBy
  <2>11. InOrder'
    BY <1>3, <1>6, <2>5, <2>10 DEF InOrder
  <2>12. B[n] # <<>>
    BY <2>7, <2>8, <2>2, <2>1, ThenFacts
  <2> QED
    BY <1>1, <1>2, <1>3, <1>6, <2>4, <2>11, <2>12
<1> QED
  BY <1>1, <1>4, <1>7, <1>8, Popped

LEMMA EnterForInOrder ==
  ASSUME Inv, InOrder, EnterFor
  PROVE  InOrder'
<1> DEFINE n == Len(forStack)
           c == [forInst |-> Current, bodyIdx |-> 0, remaining |-> Current.val1]
<1>1. PICK B : /\ Nested(B, instructions, forStack, LineAfter)
               /\ B[n] \in Seq(Leaves)
               /\ Unrolled = Then(done, Then(Executed(Current), B[n]))
  BY Underway DEF EnterFor, Advance
<1>2. /\ Current \in Instructions /\ Current.opcode = "FOR"
  BY CurrentIsInstruction DEF Inv, EnterFor, Advance
<1>3. /\ instructions' = instructions /\ forStack' = Append(forStack, c)
      /\ currentLine' = LineAfter /\ done' = done /\ Unrolled' = Unrolled
  BY DEF EnterFor, Advance, Entered, program, LineAfter, Unrolled
<1>4. forStack \in Seq(Entries) /\ n \in 0 .. n /\ n \in Nat /\ done \in Seq(Leaves)
  BY ProgramUnrolled
<1>5. c \in Entries /\ Executed(Current) = Then(Executed(At(c)), After(c))
  BY <1>2, EnteredBegins
<1> HIDE DEF c
<1>6. /\ forStack' # <<>> /\ Len(forStack') = n + 1 /\ forStack'[n + 1] = c
      /\ \E R : Nested(R, instructions, forStack', LineAfter)
                /\ R[n + 1] = Then(After(c), B[n])
  <2> DEFINE t == Within(forStack, n, c)
  <2>1. /\ t # <<>> /\ Len(t) = n + 1 /\ t[n + 1] = c
        /\ \E R : Nested(R, instructions, t, LineAfter)
                  /\ R[n + 1] = Then(After(c), B[n])
    BY <1>1, <1>4, <1>5, NestedDeeper
  <2>2. SubSeq(forStack, 1, n) = forStack
    BY <1>4, SubSeqFull
  <2>3. t = forStack'
    BY <1>3, <2>2 DEF Within
  <2> QED
    BY <2>1, <2>3
<1>7. PICK R : Nested(R, instructions, forStack', LineAfter)
               /\ R[n + 1] = Then(After(c), B[n])
  BY <1>6
<1>8. Current' = At(c)
  BY <1>6 DEF Current, At
<1>9. /\ At(c) \in Instructions /\ Executed(At(c)) \in Seq(Leaves)
      /\ After(c) \in Seq(Leaves)
  BY <1>5, BodyIsProgram, ExecutedTyped, AfterTyped DEF At
<1>10. LeftBy(R)' = Then(Executed(Current), B[n])
  <2>1. LeftBy(R)' = Then(Executed(At(c)), Then(After(c), B[n]))
    BY <1>6, <1>7, <1>8 DEF LeftBy
  <2> QED
    BY <1>1, <1>5, <1>9, <2>1, ThenTogether
<1> QED
  BY <1>1, <1>3, <1>7, <1>10 DEF InOrder

LEMMA StartsInOrder == Init => InOrder
<1> SUFFICES ASSUME Init PROVE InOrder
  OBVIOUS
<1>1. Inv
  BY Initially
<1> DEFINE R == [k \in 0 .. 0 |-> Unrolled]
<1>2. /\ IsList(instructions) /\ 0 \in 0 .. Len(instructions) /\ Unrolled \in Seq(Leaves)
  BY <1>1, ProgramUnrolled
<1>3. Unroll(Rest(instructions, 0)) = Unrolled
  BY <1>2, UnrolledRest DEF Unrolled
<1>4. /\ forStack = <<>> /\ Len(forStack) = 0 /\ 1 .. Len(forStack) = {}
      /\ 0 .. Len(forStack) = 0 .. 0 /\ currentLine = 0 /\ done = <<>>
  BY DEF Init
<1>5. R \in [0 .. 0 -> Seq(Leaves)] /\ R[0] = Unrolled
  BY <1>2
<1> HIDE DEF R
<1>6. Nested(R, instructions, forStack, currentLine)
  BY <1>3, <1>4, <1>5 DEF Nested
<1>7. Unrolled = Then(done, LeftBy(R))
  BY <1>2, <1>4, <1>5, ThenNothing DEF LeftBy
<1> QED
  BY <1>6, <1>7 DEF InOrder

(* The rest of the unrolled program is found from what was executed.       *)
LeftOf(d, u) == IF IsPrefix(d, u) THEN SubSeq(u, Len(d) + 1, Len(u)) ELSE <<None>>

LEMMA LeftIsRest ==
  ASSUME NEW d \in Seq(Leaves), NEW y \in Seq(Leaves)
  PROVE  LeftOf(d, Then(d, y)) = y
<1> DEFINE u == Then(d, y)
<1>1. /\ u \in Seq(Leaves) /\ Len(u) = Len(d) + Len(y)
      /\ \A k \in 1 .. Len(d) + Len(y) : u[k] = IF k <= Len(d) THEN d[k] ELSE y[k - Len(d)]
  <2>1. /\ d \o y \in Seq(Leaves) /\ Len(d \o y) = Len(d) + Len(y)
        /\ \A k \in 1 .. Len(d) + Len(y) :
             (d \o y)[k] = IF k <= Len(d) THEN d[k] ELSE y[k - Len(d)]
    BY ConcatProperties
  <2>2. u = d \o y
    BY DEF Then
  <2> QED
    BY <2>1, <2>2, Zenon
<1>2. d \in Seq(Leaves) /\ Len(d) \in Nat /\ Len(y) \in Nat
  OBVIOUS
<1> HIDE DEF u
<1>3. SubSeq(u, 1, Len(d)) = SubSeq(d, 1, Len(d))
  <2>1. \A k \in 1 .. Len(d) : u[k] = d[k]
    BY <1>1, <1>2
  <2>2. \A k \in 1 .. Len(d) : u[k] \in Leaves /\ d[k] \in Leaves
    BY <1>2, <2>1
  <2>3. /\ SubSeq(u, 1, Len(d)) \in Seq(Leaves) /\ SubSeq(d, 1, Len(d)) \in Seq(Leaves)
        /\ Len(SubSeq(u, 1, Len(d))) = Len(SubSeq(d, 1, Len(d)))
        /\ Len(SubSeq(u, 1, Len(d))) = Len(d)
        /\ \A k \in 1 .. Len(d) : SubSeq(u, 1, Len(d))[k] = u[k]
        /\ \A k \in 1 .. Len(d) : SubSeq(d, 1, Len(d))[k] = d[k]
    BY <1>2, <2>2, SubSeqProperties
  <2> QED
    BY <2>1, <2>3, SeqEqual
<1>4. IsPrefix(d, u)
  BY <1>1, <1>2, <1>3 DEF IsPrefix
<1>5. SubSeq(u, Len(d) + 1, Len(u)) = y
  <2> DEFINE v == SubSeq(u, Len(d) + 1, Len(u))
  <2>1. \A k \in Len(d) + 1 .. Len(u) : u[k] \in Leaves
    BY <1>1, <1>2
  <2>2. /\ v \in Seq(Leaves) /\ Len(v) = Len(y)
        /\ \A k \in 1 .. Len(y) : v[k] = u[Len(d) + 1 + k - 1]
    BY <1>1, <1>2, <2>1, SubSeqProperties
  <2>3. ASSUME NEW k \in 1 .. Len(y)
        PROVE  u[Len(d) + 1 + k - 1] = y[k]
    <3> DEFINE j == Len(d) + 1 + k - 1
    <3>1. j \in 1 .. Len(d) + Len(y) /\ ~ (j <= Len(d)) /\ j - Len(d) = k
      BY <1>2
    <3> HIDE DEF j
    <3>2. u[j] = y[j - Len(d)]
      BY <1>1, <3>1
    <3> QED
      BY <3>1, <3>2 DEF j
  <2> HIDE DEF v
  <2>4. v = y
    BY <2>2, <2>3, SeqEqual
  <2> QED
    BY <2>4 DEF v
<1> QED
  BY <1>4, <1>5 DEF LeftOf, u

LEMMA TodoIs ==
  /\ Todo = LeftOf(done, Unrolled)
  /\ Todo' = LeftOf(done', Unrolled')
BY DEF Todo, LeftOf

LEMMA HeadOfThen ==
  ASSUME NEW e \in Leaves, NEW y \in Seq(Leaves)
  PROVE  /\ Then(<<e>>, y) # <<>> /\ Then(<<e>>, y) \in Seq(Leaves)
         /\ Head(Then(<<e>>, y)) = e /\ Tail(Then(<<e>>, y)) = y
<1>1. <<e>> \in Seq(Leaves) /\ <<e>> # <<>>
  OBVIOUS
<1> DEFINE u == <<e>> \o y
<1>2. /\ u \in Seq(Leaves) /\ Len(u) = 1 + Len(y) /\ Len(y) \in Nat
      /\ \A k \in 1 .. 1 + Len(y) : u[k] = IF k <= 1 THEN e ELSE y[k - 1]
  <2>1. /\ <<e>> \o y \in Seq(Leaves) /\ Len(<<e>> \o y) = Len(<<e>>) + Len(y)
        /\ \A k \in 1 .. Len(<<e>>) + Len(y) :
             (<<e>> \o y)[k] = IF k <= Len(<<e>>) THEN <<e>>[k] ELSE y[k - Len(<<e>>)]
    BY <1>1, ConcatProperties
  <2> QED
    BY <2>1
<1> HIDE DEF u
<1>3. u # <<>> /\ Head(u) = e
  BY <1>2
<1>4. Tail(u) = y
  <2>1. /\ Tail(u) \in Seq(Leaves) /\ Len(Tail(u)) = Len(y)
        /\ \A k \in 1 .. Len(y) : Tail(u)[k] = u[k + 1]
    BY <1>2, <1>3, HeadTailProperties
  <2>2. \A k \in 1 .. Len(y) : u[k + 1] = y[k]
    BY <1>2
  <2> QED
    BY <2>1, <2>2, SeqEqual
<1> QED
  BY <1>2, <1>3, <1>4 DEF u, Then

(***************************************************************************)
(* The names in use, by slot.                                              *)
(***************************************************************************)
LEMMA SlotsInOrder ==
  ASSUME NEW size \in Nat, NEW table, Packed(table, size)
  PROVE  LET names == NamesBySlot(table)
             n == Cardinality(Defined(table))
         IN  /\ n \in Nat /\ names \in Seq(Names) /\ Len(names) = n
             /\ \A k \in 1 .. n : /\ names[k] \in Defined(table)
                                  /\ table[names[k]] = 2 * (k - 1)
             /\ \A x \in Defined(table) : \E k \in 1 .. n : names[k] = x
<1> DEFINE D == Defined(table)
           n == Cardinality(D)
           names == NamesBySlot(table)
           f == [x \in D |-> (table[x] \div 2) + 1]
<1>1. n \in Nat /\ IsFiniteSet(D)
  BY DefinedFinite
<1>2. ASSUME NEW x \in D
      PROVE  f[x] \in 1 .. n /\ table[x] = 2 * (f[x] - 1)
  <2>1. PICK k \in 0 .. n - 1 : table[x] = 2 * k
    BY DEF Packed
  <2>2. (2 * k) \div 2 = k
    BY <1>1
  <2>3. f[x] = k + 1
    BY <2>1, <2>2
  <2>4. k \in Int /\ k + 1 \in 1 .. n /\ k + 1 - 1 = k
    BY <1>1
  <2> HIDE DEF f
  <2> QED
    BY <2>1, <2>3, <2>4
<1>3. f \in Injection(D, 1 .. n)
  <2>1. f \in [D -> 1 .. n]
    BY <1>2
  <2>2. ASSUME NEW x \in D, NEW y \in D, f[x] = f[y]
        PROVE  x = y
    <3>1. table[x] = table[y]
      BY <1>2, <2>2
    <3> QED
      BY <3>1 DEF Packed
  <2> HIDE DEF f
  <2> QED
    BY <2>1, <2>2 DEF Injection, IsInjective
<1>4. f \in Surjection(D, 1 .. n)
  <2> HIDE DEF f
  <2>1. IsFiniteSet(1 .. n) /\ Cardinality(1 .. n) = n
    BY <1>1, FS_Interval
  <2> QED
    BY <1>3, <2>1, FS_Injection
<1>5. ASSUME NEW k \in 1 .. n
      PROVE  /\ \E x \in Names : table[x] = 2 * (k - 1)
             /\ names[k] \in D /\ table[names[k]] = 2 * (k - 1)
  <2>1. PICK x \in D : f[x] = k
    <3> HIDE DEF f
    <3> QED
      BY <1>4 DEF Surjection
  <2>2. x \in Names /\ table[x] = 2 * (k - 1)
    BY <1>2, <2>1 DEF Defined
  <2>3. names[k] = CHOOSE x_1 \in Names : table[x_1] = 2 * (k - 1)
    BY DEF NamesBySlot
  <2>4. names[k] \in Names /\ table[names[k]] = 2 * (k - 1)
    BY <2>2, <2>3
  <2>5. 2 * (k - 1) # None
    BY <1>1, ProcessConstants
  <2> QED
    BY <2>2, <2>4, <2>5 DEF Defined
<1>6. names \in Seq(Names) /\ Len(names) = n
  <2>1. \A k \in 1 .. n : names[k] \in Names
    BY <1>5 DEF Defined
  <2>2. names = [k \in 1 .. n |-> names[k]]
    BY DEF NamesBySlot
  <2> HIDE DEF names
  <2> QED
    BY <1>1, <2>1, <2>2
<1>7. ASSUME NEW x \in D
      PROVE  \E k \in 1 .. n : names[k] = x
  <2>1. f[x] \in 1 .. n /\ table[x] = 2 * (f[x] - 1)
    BY <1>2
  <2>2. names[f[x]] \in D /\ table[names[f[x]]] = table[x]
    BY <1>5, <2>1
  <2>3. names[f[x]] = x
    BY <2>2 DEF Packed
  <2> QED
    BY <2>1, <2>3
<1> QED
  BY <1>1, <1>5, <1>6, <1>7

LEMMA InUse ==
  ASSUME NEW size \in Nat, NEW table, Packed(table, size)
  PROVE  /\ Atomic!ToSet(NamesBySlot(table)) = Defined(table)
         /\ \A x \in Defined(table) :
              2 * (Atomic!SelectInSeq(NamesBySlot(table), LAMBDA m : m = x) - 1) = table[x]
<1> DEFINE n == Cardinality(Defined(table))
           names == NamesBySlot(table)
<1>1. /\ n \in Nat /\ names \in Seq(Names) /\ Len(names) = n
      /\ \A k \in 1 .. n : /\ names[k] \in Defined(table)
                           /\ table[names[k]] = 2 * (k - 1)
      /\ \A x \in Defined(table) : \E k \in 1 .. n : names[k] = x
  BY SlotsInOrder
<1> HIDE DEF n, names
<1>2. Atomic!ToSet(names) = Defined(table)
  <2>1. DOMAIN names = 1 .. n
    BY <1>1
  <2> QED
    BY <1>1, <2>1 DEF Atomic!ToSet
<1>3. ASSUME NEW x \in Defined(table)
      PROVE  2 * (Atomic!SelectInSeq(names, LAMBDA m : m = x) - 1) = table[x]
  <2> DEFINE I == {i \in 1 .. Len(names) : names[i] = x}
  <2>1. PICK k \in 1 .. n : names[k] = x
    BY <1>1
  <2>2. \A l \in I : l = k
    <3> SUFFICES ASSUME NEW l \in I PROVE l = k
      OBVIOUS
    <3>1. table[names[l]] = 2 * (l - 1) /\ table[names[k]] = 2 * (k - 1)
      BY <1>1
    <3> QED
      BY <1>1, <2>1, <3>1
  <2>3. k \in I /\ k \in Int
    BY <1>1, <2>1
  <2> HIDE DEF I
  <2>4. Atomic!Min(I) = k
    <3>1. Atomic!Min(I) = CHOOSE i \in I : \A j \in I : i <= j
      BY DEF Atomic!Min
    <3>2. \E i \in I : \A j \in I : i <= j
      BY <2>2, <2>3
    <3>3. (CHOOSE i \in I : \A j \in I : i <= j) \in I
      BY <3>2
    <3> QED
      BY <2>2, <3>1, <3>3
  <2>5. Atomic!SelectInSeq(names, LAMBDA m : m = x) = k
    BY <2>3, <2>4 DEF Atomic!SelectInSeq, I
  <2> QED
    BY <1>1, <2>1, <2>5
<1> QED
  BY <1>2, <1>3 DEF names

(* resolveVariable() gives a new name the next slot, if there is room.     *)
LEMMA RoomIsCapacity ==
  ASSUME memorySize \in Nat, NEW s \in Seq(Names)
  PROVE  Atomic!HasRoom(s) <=> ~ (Len(s) >= Capacity(memorySize))
<1>1. Len(s) \in Nat /\ memorySize \in Nat /\ MaxVariables \in Nat
  BY ProcessConstants
<1>2. 2 * (Len(s) + 1) <= memorySize <=> Len(s) < memorySize \div 2
  <2> DEFINE q == memorySize \div 2
  <2>1. q \in Nat /\ (memorySize = 2 * q \/ memorySize = 2 * q + 1)
    BY <1>1
  <2> HIDE DEF q
  <2> QED
    BY <1>1, <2>1 DEF q
<1>3. memorySize \div 2 \in Nat
  BY <1>1
<1> QED
  BY <1>1, <1>2, <1>3 DEF Atomic!HasRoom, Capacity, Min2

LEMMA ResolvedIsLearnt ==
  ASSUME memorySize \in Nat, NEW table, Packed(table, memorySize),
         NEW name \in Names \cup {None}
  PROVE  NamesBySlot(Resolved(table, name, memorySize))
           = Atomic!Learn(NamesBySlot(table), name)
<1> DEFINE D == Defined(table)
           n == Cardinality(D)
           s == NamesBySlot(table)
           t == Resolved(table, name, memorySize)
<1>1. /\ n \in Nat /\ s \in Seq(Names) /\ Len(s) = n
      /\ \A k \in 1 .. n : s[k] \in D /\ table[s[k]] = 2 * (k - 1)
  BY SlotsInOrder
<1>2. Atomic!ToSet(s) = D
  BY InUse
<1>3. Atomic!HasRoom(s) <=> ~ (n >= Capacity(memorySize))
  BY <1>1, RoomIsCapacity
<1>4. CASE name = None \/ name \in D \/ n >= Capacity(memorySize)
  <2>1. t = table
    BY <1>4 DEF Resolved
  <2>2. Atomic!Learn(s, name) = s
    BY <1>2, <1>3, <1>4 DEF Atomic!Learn
  <2> QED
    BY <2>1, <2>2
<1>5. CASE ~ (name = None \/ name \in D \/ n >= Capacity(memorySize))
  <2>1. t = [table EXCEPT ![name] = 2 * n] /\ name \in Names
    BY <1>5 DEF Resolved
  <2>2. Atomic!Learn(s, name) = Append(s, name)
    BY <1>2, <1>3, <1>5 DEF Atomic!Learn
  <2>3. Packed(t, memorySize)
    BY ResolvedPacked
  <2>4. table \in [Names -> Nat \cup {None}]
    BY DEF Packed
  <2>5. /\ t[name] = 2 * n /\ 2 * n # None
        /\ \A x \in Names \ {name} : t[x] = table[x]
    BY <1>1, <2>1, <2>4, ProcessConstants
  <2>6. Defined(t) = D \cup {name}
    BY <2>1, <2>5 DEF Defined
  <2>7. Cardinality(Defined(t)) = n + 1
    BY <1>5, <2>6, DefinedFinite, FS_AddElement
  <2> DEFINE u == NamesBySlot(t)
  <2>8. /\ u \in Seq(Names) /\ Len(u) = n + 1
        /\ \A k \in 1 .. n + 1 : u[k] \in Defined(t) /\ t[u[k]] = 2 * (k - 1)
    <3> HIDE DEF t
    <3> QED
      BY <2>3, <2>7, SlotsInOrder
  <2>9. /\ Append(s, name) \in Seq(Names) /\ Len(Append(s, name)) = n + 1
        /\ \A k \in 1 .. n : Append(s, name)[k] = s[k]
        /\ Append(s, name)[n + 1] = name
    BY <1>1, <2>1, AppendProperties
  <2> HIDE DEF t, u, s, n
  <2>10. ASSUME NEW k \in 1 .. n + 1
         PROVE  u[k] = Append(s, name)[k]
    <3>1. t[u[k]] = 2 * (k - 1) /\ u[k] \in Defined(t)
      BY <2>8
    <3> DEFINE x == Append(s, name)[k]
    <3>2. x \in Defined(t) /\ t[x] = 2 * (k - 1)
      <4>1. CASE k = n + 1
        BY <1>1, <2>5, <2>6, <2>9, <4>1
      <4>2. CASE k # n + 1
        <5>1. k \in 1 .. n
          BY <1>1, <4>2
        <5>2. x = s[k] /\ s[k] \in D /\ table[s[k]] = 2 * (k - 1)
          BY <1>1, <2>9, <5>1
        <5>3. s[k] \in Names \ {name}
          BY <1>5, <5>2 DEF Defined
        <5> QED
          BY <2>5, <2>6, <5>2, <5>3
      <4> QED
        BY <4>1, <4>2
    <3> HIDE DEF x
    <3>3. u[k] = x
      BY <2>3, <3>1, <3>2 DEF Packed
    <3> QED
      BY <3>3 DEF x
  <2>11. u = Append(s, name)
    BY <2>8, <2>9, <2>10, SeqEqual
  <2> QED
    BY <2>2, <2>11 DEF u, t, s
<1> QED
  BY <1>4, <1>5

LEMMA NamesLearnt ==
  ASSUME Inv, NEW i \in Instructions,
         symbolTable' = TableAfter(symbolTable, i, memorySize)
  PROVE  /\ NamesBySlot(symbolTable)' =
              Atomic!Learn(Atomic!Learn(Atomic!Learn(NamesBySlot(symbolTable), i.arg2),
                                        i.arg3), i.arg1)
         /\ Packed(symbolTable', memorySize)
<1> DEFINE t2 == Resolved(symbolTable, i.arg2, memorySize)
           t3 == Resolved(t2, i.arg3, memorySize)
           t1 == Resolved(t3, i.arg1, memorySize)
<1>1. /\ {i.arg1, i.arg2, i.arg3} \subseteq Names \cup {None}
      /\ memorySize \in Nat /\ Packed(symbolTable, memorySize)
  BY ProgramsAssumption, Sizes DEF Inv
<1>2. /\ Packed(t2, memorySize)
      /\ NamesBySlot(t2) = Atomic!Learn(NamesBySlot(symbolTable), i.arg2)
  BY <1>1, ResolvedPacked, ResolvedIsLearnt
<1>3. /\ Packed(t3, memorySize)
      /\ NamesBySlot(t3) = Atomic!Learn(NamesBySlot(t2), i.arg3)
  <2> HIDE DEF t2
  <2> QED
    BY <1>1, <1>2, ResolvedPacked, ResolvedIsLearnt
<1>4. /\ Packed(t1, memorySize)
      /\ NamesBySlot(t1) = Atomic!Learn(NamesBySlot(t3), i.arg1)
  <2> HIDE DEF t3
  <2> QED
    BY <1>1, <1>3, ResolvedPacked, ResolvedIsLearnt
<1>5. symbolTable' = t1
  BY DEF TableAfter
<1>6. NamesBySlot(symbolTable)' = NamesBySlot(t1)
  <2>1. NamesBySlot(symbolTable)' = NamesBySlot(symbolTable')
    BY DEF NamesBySlot, Defined
  <2> QED
    BY <1>5, <2>1
<1> HIDE DEF t1, t2, t3
<1> QED
  BY <1>2, <1>3, <1>4, <1>5, <1>6

(***************************************************************************)
(* Variables are words of the memory.                                      *)
(***************************************************************************)
LEMMA SlotInSpace ==
  ASSUME NEW size \in Nat, NEW table, Packed(table, size), NEW x \in Defined(table)
  PROVE  {table[x], table[x] + 1} \subseteq 0 .. size - 1
<1>1. PICK k \in 0 .. Cardinality(Defined(table)) - 1 : table[x] = 2 * k
  BY DEF Packed
<1>2. Cardinality(Defined(table)) \in Nat /\ Capacity(size) \in Nat
  BY DefinedFinite, CapacityFits
<1>3. k \in Nat /\ 2 * k + 2 <= 2 * Capacity(size)
  BY <1>1, <1>2 DEF Packed
<1>4. 2 * k + 2 <= size
  BY <1>2, <1>3, CapacityFits
<1> QED
  BY <1>1, <1>3, <1>4

LEMMA OperandIsRead ==
  ASSUME Inv, Packed(symbolTable', memorySize), NEW x \in Names \cup {None}, NEW v
  PROVE  Atomic!In(x, v) = Operand(mem, symbolTable', x, v)
<1> DEFINE t == symbolTable'
<1>1. memorySize \in Nat /\ mem \in [0 .. memorySize - 1 -> Bytes]
  BY Sizes DEF Inv, TypeOK
<1>2. /\ Atomic!ToSet(NamesBySlot(symbolTable)') = Defined(t)
      /\ \A y \in Defined(t) :
           2 * (Atomic!SelectInSeq(NamesBySlot(symbolTable)', LAMBDA m : m = y) - 1) = t[y]
  <2>1. NamesBySlot(symbolTable)' = NamesBySlot(t)
    BY DEF NamesBySlot, Defined
  <2> QED
    BY <1>1, <2>1, InUse
<1>3. CASE x = None
  BY <1>3 DEF Atomic!In, Operand
<1>4. CASE x \in Names /\ x \notin Defined(t)
  <2>1. t[x] = None /\ x # None
    BY <1>4, ProcessConstants DEF Defined
  <2> QED
    BY <1>2, <1>4, <2>1 DEF Atomic!In, Operand, ValueOf
<1>5. CASE x \in Defined(t)
  <2>1. t[x] # None /\ x # None
    BY <1>5, ProcessConstants DEF Defined
  <2>2. {t[x], t[x] + 1} \subseteq DOMAIN mem
    BY <1>1, <1>5, SlotInSpace
  <2>3. Atomic!AddressOf(x) = t[x]
    BY <1>2, <1>5 DEF Atomic!AddressOf
  <2>4. Atomic!In(x, v) = mem[t[x]] + ByteBase * mem[t[x] + 1]
    BY <1>2, <1>5, <2>1, <2>3 DEF Atomic!In, Atomic!Word
  <2> QED
    BY <2>1, <2>2, <2>4 DEF Operand, ValueOf, WordAt
<1> QED
  BY <1>3, <1>4, <1>5

LEMMA WordIsPut ==
  ASSUME NEW v \in Words, NEW a, mem' = WithWord(mem, a, v)
  PROVE  Atomic!Put(a, v)
<1> DEFINE lo == v % ByteBase
           hi == v \div ByteBase
<1>1. lo \in 0 .. ByteBase - 1 /\ hi \in 0 .. ByteBase - 1
  BY AWordIsTwoBytes DEF Bytes
<1>2. v \in Nat /\ ByteBase \in Nat /\ ByteBase > 0
  BY ByteFacts
<1>3. lo + ByteBase * hi = v
  BY <1>2
<1>4. mem' = [mem EXCEPT ![a] = lo, ![a + 1] = hi]
  BY DEF WithWord
<1> HIDE DEF lo, hi
<1> QED
  BY <1>1, <1>3, <1>4 DEF Atomic!Put

LEMMA VariableIsAssigned ==
  ASSUME Inv, NEW i \in Instructions, i.arg1 # None, i = Head(Todo),
         symbolTable' = TableAfter(symbolTable, i, memorySize),
         NEW v \in Words, mem' = Stored(mem, symbolTable', i.arg1, v)
  PROVE  Atomic!Assign(v) /\ Atomic!UseNames
<1> DEFINE t == symbolTable'
<1>1. memorySize \in Nat /\ Packed(t, memorySize) /\ i.arg1 \in Names
  BY Sizes, NamesLearnt, ProgramsAssumption DEF Inv
<1>2. Atomic!UseNames
  BY NamesLearnt DEF Atomic!UseNames, Atomic!Op
<1>3. /\ Atomic!ToSet(NamesBySlot(symbolTable)') = Defined(t)
      /\ \A y \in Defined(t) :
           2 * (Atomic!SelectInSeq(NamesBySlot(symbolTable)', LAMBDA m : m = y) - 1) = t[y]
  <2>1. NamesBySlot(symbolTable)' = NamesBySlot(t)
    BY DEF NamesBySlot, Defined
  <2> QED
    BY <1>1, <2>1, InUse
<1>4. CASE i.arg1 \in Defined(t)
  <2>1. t[i.arg1] # None
    BY <1>4 DEF Defined
  <2>2. Atomic!AddressOf(i.arg1) = t[i.arg1]
    BY <1>3, <1>4 DEF Atomic!AddressOf
  <2>3. Atomic!Put(t[i.arg1], v)
    BY <2>1, WordIsPut DEF Stored
  <2>4. Atomic!Put(Atomic!AddressOf(i.arg1), v)
    BY <2>2, <2>3
  <2> QED
    BY <1>2, <1>3, <1>4, <2>4 DEF Atomic!Assign, Atomic!Op
<1>5. CASE i.arg1 \notin Defined(t)
  <2>1. mem' = mem
    BY <1>1, <1>5 DEF Defined, Stored
  <2> QED
    BY <1>2, <1>3, <1>5, <2>1 DEF Atomic!Assign, Atomic!Op
<1> QED
  BY <1>4, <1>5

(* The sum and the difference the abstract ADD and SUBTRACT store.         *)
LEMMA ClampedSum ==
  ASSUME NEW a \in Words, NEW b \in Words
  PROVE  /\ ClampUint16(a + b) = IF a + b > MaxWord THEN MaxWord ELSE a + b
         /\ ClampUint16(a - b) = IF a - b < 0 THEN 0 ELSE a - b
         /\ ClampUint16(a + b) \in Words /\ ClampUint16(a - b) \in Words
<1>1. a \in Nat /\ b \in Nat /\ MaxWord \in Nat /\ a <= MaxWord /\ b <= MaxWord
  BY ByteFacts DEF Words
<1>2. ClampUint16(a + b) \in Words /\ ClampUint16(a - b) \in Words
  <2>1. a + b \in Int /\ a - b \in Int
    BY <1>1
  <2> QED
    BY <2>1, Clamped
<1> QED
  BY <1>1, <1>2 DEF ClampUint16, Min2

(* What an instruction does as a whole is what the abstract one does.      *)
LEMMA EffectIsOp ==
  ASSUME Inv, NEW i \in Instructions, i = Head(Todo), i.opcode # "FOR",
         i.opcode \in {"READ", "WRITE"} => IsValidAddress(i.addr),
         symbolTable' = TableAfter(symbolTable, i, memorySize),
         mem' = Effect(mem, symbolTable, i)
  PROVE  \/ Atomic!Declare \/ Atomic!Add \/ Atomic!Subtract \/ Atomic!Read
         \/ Atomic!Write \/ Atomic!Display \/ Atomic!Sleep
<1> DEFINE t == symbolTable'
           a == Operand(mem, t, i.arg2, i.val2)
           b == Operand(mem, t, i.arg3, i.val3)
<1>1. /\ memorySize \in Nat /\ mem \in [0 .. memorySize - 1 -> Bytes]
      /\ {i.arg1, i.arg2, i.arg3} \subseteq Names \cup {None}
      /\ i.val1 \in Words /\ i.val2 \in Words /\ i.val3 \in Words /\ i.addr \in Nat
      /\ i.opcode \in Opcodes
      /\ i.opcode \in {"READ", "DECLARE", "ADD", "SUBTRACT"} => i.arg1 # None
  BY Sizes, ProgramsAssumption DEF Inv, TypeOK
<1>2. Packed(t, memorySize) /\ t \in [Names -> Nat \cup {None}]
  BY NamesLearnt DEF Packed
<1>3. a \in Words /\ b \in Words
  BY <1>1, <1>2, OperandTyped
<1>4. Atomic!In(i.arg2, i.val2) = a /\ Atomic!In(i.arg3, i.val3) = b
  BY <1>1, <1>2, OperandIsRead
<1> HIDE DEF a, b
<1>5. Atomic!UseNames
  BY NamesLearnt DEF Atomic!UseNames, Atomic!Op
<1>6. CASE i.opcode = "DECLARE"
  <2>1. mem' = Stored(mem, t, i.arg1, i.val1)
    BY <1>6 DEF Effect, Computed
  <2>2. Atomic!Assign(i.val1)
    BY <1>1, <1>6, <2>1, VariableIsAssigned
  <2> QED
    BY <1>6, <2>2 DEF Atomic!Declare, Atomic!Op
<1>7. CASE i.opcode = "ADD"
  <2>1. mem' = Stored(mem, t, i.arg1, ClampUint16(a + b))
    BY <1>7 DEF Effect, Computed, a, b
  <2>2. Atomic!Assign(ClampUint16(a + b))
    BY <1>1, <1>3, <1>7, <2>1, ClampedSum, VariableIsAssigned
  <2>3. MaxWord = Atomic!MaxWord
    BY DEF MaxWord, Atomic!MaxWord
  <2>4. Atomic!Assign(IF a + b > Atomic!MaxWord THEN Atomic!MaxWord ELSE a + b)
    <3>1. ClampUint16(a + b) = IF a + b > Atomic!MaxWord THEN Atomic!MaxWord ELSE a + b
      BY <1>3, <2>3, ClampedSum
    <3> QED
      BY <2>2, <3>1
  <2> QED
    BY <1>4, <1>5, <1>7, <2>4 DEF Atomic!Add, Atomic!Op
<1>8. CASE i.opcode = "SUBTRACT"
  <2>1. mem' = Stored(mem, t, i.arg1, ClampUint16(a - b))
    BY <1>8 DEF Effect, Computed, a, b
  <2>2. Atomic!Assign(ClampUint16(a - b))
    BY <1>1, <1>3, <1>8, <2>1, ClampedSum, VariableIsAssigned
  <2>3. Atomic!Assign(IF a - b < 0 THEN 0 ELSE a - b)
    <3>1. ClampUint16(a - b) = IF a - b < 0 THEN 0 ELSE a - b
      BY <1>3, ClampedSum
    <3> QED
      BY <2>2, <3>1
  <2> QED
    BY <1>4, <1>5, <1>8, <2>3 DEF Atomic!Subtract, Atomic!Op
<1>9. CASE i.opcode = "READ"
  <2>1. mem' = Stored(mem, t, i.arg1, WordAt(mem, i.addr))
    BY <1>9 DEF Effect
  <2>2. WordAt(mem, i.addr) \in Words
    BY <1>1, WordRead
  <2>3. Atomic!Assign(WordAt(mem, i.addr))
    BY <1>1, <1>9, <2>1, <2>2, VariableIsAssigned
  <2>4. WordAt(mem, i.addr) = Atomic!Word(i.addr)
    <3>1. {i.addr, i.addr + 1} \subseteq DOMAIN mem
      BY <1>1, <1>9 DEF IsValidAddress
    <3> QED
      BY <3>1 DEF WordAt, Atomic!Word
  <2>5. Atomic!Assign(Atomic!Word(i.addr))
    BY <2>3, <2>4
  <2> QED
    BY <1>9, <2>5 DEF Atomic!Read, Atomic!Op
<1>10. CASE i.opcode = "WRITE"
  <2> DEFINE c == Operand(mem, t, i.arg1, i.val1)
  <2>1. mem' = WithWord(mem, i.addr, c)
    BY <1>10 DEF Effect
  <2>2. c \in Words /\ Atomic!In(i.arg1, i.val1) = c
    BY <1>1, <1>2, OperandTyped, OperandIsRead
  <2> HIDE DEF c
  <2>3. Atomic!Put(i.addr, c)
    BY <2>1, <2>2, WordIsPut
  <2>4. Atomic!Put(i.addr, Atomic!In(i.arg1, i.val1))
    BY <2>2, <2>3
  <2> QED
    BY <1>5, <1>10, <2>4 DEF Atomic!Write, Atomic!Op
<1>11. CASE i.opcode \in {"PRINT", "SLEEP"}
  <2>1. mem' = mem
    BY <1>11 DEF Effect, Computed
  <2>2. i.opcode = "SLEEP" => NamesBySlot(symbolTable)' = NamesBySlot(symbolTable)
    <3> SUFFICES ASSUME i.opcode = "SLEEP"
                 PROVE  NamesBySlot(symbolTable)' = NamesBySlot(symbolTable)
      OBVIOUS
    <3>1. i.arg1 = None /\ i.arg2 = None /\ i.arg3 = None
      BY ProgramsAssumption
    <3>2. symbolTable' = symbolTable
      BY <3>1, NamesOfInstruction DEF Inv, TypeOK
    <3>3. NamesBySlot(symbolTable)' = NamesBySlot(symbolTable')
      BY DEF NamesBySlot, Defined
    <3> QED
      BY <3>2, <3>3
  <2> QED
    BY <1>5, <1>11, <2>1, <2>2 DEF Atomic!Display, Atomic!Sleep, Atomic!Op
<1> QED
  BY <1>1, <1>6, <1>7, <1>8, <1>9, <1>10, <1>11 DEF Opcodes

(* A consumed instruction is a step of the unrolled program.               *)
LEMMA ConsumedIsStep ==
  ASSUME Inv, FetchedIsFresh, InOrder, Sleep \/ NeedsNoPage \/ \E r \in Residency : Execute(r)
  PROVE  Atomic!Execute /\ InOrder'
<1>1. /\ state = RUNNING /\ Current.opcode # "FOR" /\ AdvanceLine /\ UNCHANGED program
      /\ Current.opcode \in {"READ", "WRITE"} => IsValidAddress(Current.addr)
  <2>1. CASE Sleep \/ NeedsNoPage
    BY <2>1 DEF Sleep, NeedsNoPage, BeginInstruction, Advance, Addressing
  <2>2. CASE \E r \in Residency : Execute(r)
    <3> PICK r \in Residency : Execute(r)
      BY <2>2
    <3>1. asked # None /\ AdvanceLine /\ UNCHANGED program
      BY DEF Execute, Answer
    <3> QED
      BY <3>1 DEF Inv, AsksItsNeed, Addressing
  <2> QED
    BY <2>1, <2>2
<1>2. Current \in Instructions /\ Current \in Leaves
  BY <1>1, CurrentIsInstruction DEF Inv, Leaves
<1>3. /\ mem' = Effect(mem, symbolTable, Current)
      /\ symbolTable' = TableAfter(symbolTable, Current, memorySize)
  BY ConsumedAtOnce
<1>4. InOrder'
  BY <1>1, ConsumedInOrder
<1>5. PICK y \in Seq(Leaves) :
         /\ Unrolled = Then(done, Then(<<Current>>, y))
         /\ Unrolled' = Then(done', y)
         /\ state' = IF y = <<>> THEN FINISHED ELSE RUNNING
  BY <1>1, ConsumedInOrder
<1>6. /\ Then(<<Current>>, y) \in Seq(Leaves) /\ Then(<<Current>>, y) # <<>>
      /\ Head(Then(<<Current>>, y)) = Current /\ Tail(Then(<<Current>>, y)) = y
  BY <1>2, HeadOfThen
<1>7. done \in Seq(Leaves) /\ done' \in Seq(Leaves)
  BY <1>1, LineAdvanced, ProgramUnrolled
<1>8. Todo = Then(<<Current>>, y)
  BY <1>5, <1>6, <1>7, TodoIs, LeftIsRest
<1>9. Todo' = y
  BY <1>5, <1>7, TodoIs, LeftIsRest
<1>10. /\ Todo # <<>> /\ Head(Todo) = Current /\ Tail(Todo) = Todo'
       /\ state' = IF Todo' = <<>> THEN FINISHED ELSE RUNNING
  BY <1>5, <1>6, <1>8, <1>9
<1>11. \/ Atomic!Declare \/ Atomic!Add \/ Atomic!Subtract \/ Atomic!Read
       \/ Atomic!Write \/ Atomic!Display \/ Atomic!Sleep
  BY <1>1, <1>2, <1>3, <1>10, EffectIsOp
<1>12. ~ Atomic!Outside
  <2>1. Current.addr \in Nat /\ memorySize \in Nat
    BY <1>2, ProgramsAssumption, Sizes DEF Inv
  <2> QED
    BY <1>1, <1>10, <2>1 DEF Atomic!Outside, Atomic!Op, IsValidAddress
<1>13. Atomic!Consume
  BY <1>1, <1>10 DEF Atomic!Consume, program, RUNNING, FINISHED
<1> QED
  BY <1>4, <1>11, <1>12, <1>13 DEF Atomic!Execute

(* The instruction in hand heads the unrolled program, unless it is a FOR. *)
LEMMA CurrentIsNext ==
  ASSUME Inv, InOrder, state = RUNNING, Current.opcode # "FOR"
  PROVE  Todo # <<>> /\ Head(Todo) = Current /\ Todo \in Seq(Leaves)
<1>1. PICK B : /\ B[Len(forStack)] \in Seq(Leaves)
               /\ Unrolled = Then(done, Then(Executed(Current), B[Len(forStack)]))
  BY Underway
<1>2. Current \in Instructions /\ Current \in Leaves
  BY CurrentIsInstruction DEF Inv, Leaves
<1> DEFINE y == B[Len(forStack)]
<1>3. Executed(Current) = <<Current>>
  BY <1>2, ExecutedTyped
<1>4. Unrolled = Then(done, Then(<<Current>>, y))
  BY <1>1, <1>3
<1>5. y \in Seq(Leaves) /\ done \in Seq(Leaves)
  BY <1>1, ProgramUnrolled
<1> HIDE DEF y
<1>6. /\ Then(<<Current>>, y) \in Seq(Leaves) /\ Then(<<Current>>, y) # <<>>
      /\ Head(Then(<<Current>>, y)) = Current
  BY <1>2, <1>5, HeadOfThen
<1>7. Todo = Then(<<Current>>, y)
  BY <1>4, <1>5, <1>6, TodoIs, LeftIsRest
<1> QED
  BY <1>6, <1>7

(* A step that moves neither line nor stack keeps the order.               *)
LEMMA OrderStays ==
  ASSUME InOrder, UNCHANGED <<instructions, currentLine, forStack, done>>
  PROVE  InOrder'
<1>1. Current' = Current
  BY CurrentStays
<1>2. PICK R : /\ Nested(R, instructions, forStack, currentLine)
               /\ Unrolled = Then(done, LeftBy(R))
  BY DEF InOrder
<1>3. LeftBy(R)' = LeftBy(R) /\ Unrolled' = Unrolled
  BY <1>1 DEF LeftBy, Unrolled
<1> QED
  BY <1>2, <1>3 DEF InOrder

(* The violation ends the unrolled program as well.                        *)
LEMMA ViolationIsDie ==
  ASSUME Inv, InOrder, RaiseViolation
  PROVE  Atomic!Die /\ InOrder'
<1>1. /\ state = RUNNING /\ Current.opcode # "FOR"
      /\ Current.opcode \in {"READ", "WRITE"} /\ ~ IsValidAddress(Current.addr)
      /\ state' = TERMINATED
      /\ UNCHANGED <<instructions, memorySize, currentLine, forStack, done, mem, symbolTable>>
  BY DEF RaiseViolation, BeginInstruction, Advance, Addressing, program, data
<1>2. Todo # <<>> /\ Head(Todo) = Current
  BY <1>1, CurrentIsNext
<1>3. Current.addr \in Nat /\ memorySize \in Nat
  BY <1>1, CurrentIsInstruction, ProgramsAssumption, Sizes DEF Inv
<1>4. Atomic!Outside
  BY <1>1, <1>2, <1>3 DEF Atomic!Outside, Atomic!Op, IsValidAddress
<1>5. Todo' = Todo /\ NamesBySlot(symbolTable)' = NamesBySlot(symbolTable)
  BY <1>1 DEF Todo, Unrolled, NamesBySlot, Defined
<1> QED
  BY <1>1, <1>2, <1>4, <1>5, OrderStays DEF Atomic!Die, RUNNING, TERMINATED

(* Fetching a WRITE's operand puts its name in use.                        *)
LEMMA FetchIsLookUp ==
  ASSUME Inv, InOrder, NEW r \in Residency, FetchOperand(r)
  PROVE  (Atomic!LookUp \/ UNCHANGED Atomic!vars) /\ InOrder'
<1>1. /\ UNCHANGED <<instructions, memorySize, state, currentLine, forStack, done, mem>>
      /\ Answer(r) /\ Addressing
  BY DEF FetchOperand, program, Answer, Fetching
<1>2. state = RUNNING /\ Current \in Instructions /\ Current.opcode # "FOR"
  BY <1>1, Answered
<1>3. Todo # <<>> /\ Head(Todo) = Current
  BY <1>2, CurrentIsNext
<1>4. Todo' = Todo
  BY <1>1 DEF Todo, Unrolled
<1>5. CASE Current.opcode = "READ"
  <2>1. symbolTable' = symbolTable
    BY <1>5 DEF FetchOperand
  <2>2. NamesBySlot(symbolTable)' = NamesBySlot(symbolTable)
    BY <2>1 DEF NamesBySlot, Defined
  <2> QED
    BY <1>1, <1>4, <2>2, OrderStays DEF Atomic!vars
<1>6. CASE Current.opcode # "READ"
  <2>1. Current.opcode = "WRITE" /\ symbolTable' = TableAfter(symbolTable, Current, memorySize)
    BY <1>1, <1>6 DEF FetchOperand, Addressing
  <2>2. Current.arg1 \in Names \cup {None} /\ Current.arg2 = None /\ Current.arg3 = None
    BY <1>2, <2>1, ProgramsAssumption
  <2>3. \A s : Atomic!Learn(s, None) = s
    BY DEF Atomic!Learn
  <2>4. NamesBySlot(symbolTable)' = Atomic!Learn(NamesBySlot(symbolTable), Current.arg1)
    BY <1>2, <2>1, <2>2, <2>3, NamesLearnt
  <2> QED
    BY <1>1, <1>2, <1>3, <1>4, <2>1, <2>4, OrderStays DEF Atomic!LookUp, Atomic!Op, RUNNING
<1> QED
  BY <1>5, <1>6

(* Asking, faulting and entering a block are invisible.                    *)
LEMMA OthersAreInvisible ==
  ASSUME Inv, InOrder,
         EnterFor \/ AskForOperand \/ AskForTarget \/ AskForSymbolTable \/ Slept
           \/ (\E r \in Residency : Fault(r)) \/ UNCHANGED vars
  PROVE  UNCHANGED Atomic!vars /\ InOrder'
<1>1. UNCHANGED <<instructions, memorySize, state, done, mem, symbolTable>>
  BY DEF EnterFor, AskForOperand, AskForTarget, AskForSymbolTable, BeginInstruction,
         Advance, Slept, Fault, Answer, vars, program, control, data
<1>2. UNCHANGED Atomic!vars
  <2>1. Todo' = Todo /\ NamesBySlot(symbolTable)' = NamesBySlot(symbolTable')
    BY <1>1 DEF Todo, Unrolled, NamesBySlot, Defined
  <2> QED
    BY <1>1, <2>1 DEF Atomic!vars
<1>3. CASE EnterFor
  BY <1>2, <1>3, EnterForInOrder
<1>4. CASE ~ EnterFor
  <2>1. UNCHANGED <<currentLine, forStack>>
    BY <1>4
    DEF AskForOperand, AskForTarget, AskForSymbolTable, BeginInstruction, Advance, Slept,
        Fault, vars, control
  <2> QED
    BY <1>1, <1>2, <2>1, OrderStays
<1> QED
  BY <1>3, <1>4

LEMMA StartsUnrolled == Init => Atomic!Init
<1> SUFFICES ASSUME Init PROVE Atomic!Init
  OBVIOUS
<1>1. Inv
  BY Initially
<1>2. Unrolled \in Seq(Leaves) /\ Unrolled \in UnrolledPrograms
  BY <1>1, ProgramUnrolled
<1>3. Todo = Unrolled
  <2>1. done = <<>> /\ Then(<<>>, Unrolled) = Unrolled
    BY <1>2, ThenNothing DEF Init
  <2> QED
    BY <1>2, <2>1, NoLeaf, TodoIs, LeftIsRest
<1>4. NamesBySlot(symbolTable) = <<>>
  <2>1. Defined(symbolTable) = {}
    BY DEF Init, Defined
  <2>2. Cardinality(Defined(symbolTable)) = 0
    BY <2>1, FS_EmptySet
  <2>3. Len(NamesBySlot(symbolTable)) = 0 /\ NamesBySlot(symbolTable) \in Seq(Names)
    <3>1. memorySize \in Nat /\ Packed(symbolTable, memorySize)
      BY <1>1, Sizes DEF Inv
    <3> QED
      BY <2>2, <3>1, SlotsInOrder
  <2> QED
    BY <2>3
<1> QED
  BY <1>2, <1>3, <1>4 DEF Init, Atomic!Init, RUNNING

(* advance(): with any number of faults, retries and phases, each          *)
(* instruction of the unrolled program takes effect once, in order, up to  *)
(* the last one or the first that leaves the address space.                *)
THEOREM RunsAsUnrolled == Spec => ExecutesAtomically
<1>1. Init => Atomic!Init /\ InOrder /\ FetchedIsFresh
  BY StartsUnrolled, StartsInOrder DEF Init, FetchedIsFresh
<1>2. Inv /\ FetchedIsFresh /\ InOrder /\ [Next]_vars
        => InOrder' /\ [Atomic!Next]_(Atomic!vars)
  <2> SUFFICES ASSUME Inv, FetchedIsFresh, InOrder, [Next]_vars
               PROVE  InOrder' /\ [Atomic!Next]_(Atomic!vars)
    OBVIOUS
  <2>1. CASE Sleep \/ NeedsNoPage \/ \E r \in Residency : Execute(r)
    BY <2>1, ConsumedIsStep DEF Atomic!Next
  <2>2. CASE RaiseViolation
    BY <2>2, ViolationIsDie DEF Atomic!Next
  <2>3. CASE \E r \in Residency : FetchOperand(r)
    BY <2>3, FetchIsLookUp DEF Atomic!Next
  <2>4. CASE EnterFor \/ AskForOperand \/ AskForTarget \/ AskForSymbolTable \/ Slept
               \/ (\E r \in Residency : Fault(r)) \/ UNCHANGED vars
    BY <2>4, OthersAreInvisible
  <2> QED
    BY <2>1, <2>2, <2>3, <2>4 DEF Next, Attempt
<1> QED
  BY <1>1, <1>2, FreshStays, Consistent, PTL DEF Spec, ExecutesAtomically, Atomic!Spec
==============================================================================

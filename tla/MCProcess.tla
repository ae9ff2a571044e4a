------------------------------ MODULE MCProcess ------------------------------
(***************************************************************************)
(* Small programs for Process, and their unrolling.                        *)
(***************************************************************************)
EXTENDS Unrolling

Blank == [opcode |-> "PRINT", arg1 |-> None, arg2 |-> None, arg3 |-> None,
          val1 |-> 0, val2 |-> 0, val3 |-> 0, addr |-> 0, body |-> <<>>]

PrintText(k)     == [Blank EXCEPT !.val3 = k]     \* k tells two texts apart
PrintVar(n)      == [Blank EXCEPT !.arg2 = n]
SleepFor(k)      == [Blank EXCEPT !.opcode = "SLEEP", !.val1 = k]
Declare(n, v)    == [Blank EXCEPT !.opcode = "DECLARE", !.arg1 = n, !.val1 = v]
Add(n, a, b)     == [Blank EXCEPT !.opcode = "ADD", !.arg1 = n, !.arg2 = a, !.arg3 = b]
SubLit(n, a, v)  == [Blank EXCEPT !.opcode = "SUBTRACT", !.arg1 = n, !.arg2 = a, !.val3 = v]
ReadAt(n, a)     == [Blank EXCEPT !.opcode = "READ", !.arg1 = n, !.addr = a]
WriteVar(a, n)   == [Blank EXCEPT !.opcode = "WRITE", !.arg1 = n, !.addr = a]
WriteLit(a, v)   == [Blank EXCEPT !.opcode = "WRITE", !.val1 = v, !.addr = a]
ForBlock(b, k)   == [Blank EXCEPT !.opcode = "FOR", !.body = b, !.val1 = k]

(* The lists of one to k instructions of S.                                *)
UpTo(S, k) == UNION {[1 .. n -> S] : n \in 1 .. k}

------------------------------------------------------------------------------
(* Flat programs that read and write variables and words above them.       *)
DataPrograms ==
  UpTo({Declare("x", 2), Declare("y", 3), Add("x", "x", "y"), SubLit("y", "z", 1),
        ReadAt("z", 4), ReadAt("y", 5), WriteVar(4, "x"), WriteVar(5, "y"),
        WriteLit(6, 3), PrintVar("z")}, 3)

(* The same with addresses in the symbol table segment and at the bounds.  *)
AliasPrograms ==
  UpTo({Declare("x", 2), Add("z", "y", "x"), ReadAt("y", 1), ReadAt("x", 7),
        WriteVar(0, "y"), WriteVar(3, "x"), WriteLit(6, 3), WriteLit(1, 1)}, 3)

(* Blocks in blocks, with instructions before and after the inner block,   *)
(* some of which may fault or sleep.                                       *)
Steps == {PrintText(1), ReadAt("y", 4), WriteVar(4, "x")}
Inner  == {ForBlock(b, k) : b \in UpTo(Steps, 2), k \in 1 .. 2}
Bodies == {<<f>> : f \in Inner} \cup {<<PrintText(2), f>> : f \in Inner}
          \cup {<<f, SleepFor(1)>> : f \in Inner}
Outer  == {ForBlock(b, k) : b \in Bodies, k \in 1 .. 2}
LoopPrograms ==
  {<<f>> : f \in Outer} \cup {<<f, PrintText(2)>> : f \in Outer}
  \cup {<<ForBlock(<<ForBlock(<<ForBlock(<<PrintText(1)>>, 2), PrintText(2)>>, 2)>>, 3)>>}

(* A violation in a block.                                                 *)
KilledPrograms ==
  {<<PrintText(1), ForBlock(<<WriteLit(a, 1)>>, 2), PrintText(2)>> : a \in {4, 99}}

PlainPrograms == DataPrograms \cup AliasPrograms \cup LoopPrograms

(* The instructions in lists, and in the blocks of those, three deep.      *)
In(lists)     == UNION {Range(p) : p \in lists}
Deeper(S)     == S \cup In({i.body : i \in S})
Occurring(P)  == Deeper(Deeper(Deeper(In(P))))

PlainInstructions  == Occurring(PlainPrograms)
KilledInstructions == Occurring(KilledPrograms)

------------------------------------------------------------------------------
RECURSIVE UnrollList(_)
UnrollList(p) ==
  FlattenSeq([k \in 1 .. Len(p) |->
    IF p[k].opcode = "FOR"
    THEN FlattenSeq([round \in 1 .. p[k].val1 |-> UnrollList(p[k].body)])
    ELSE <<p[k]>>])

(* Unrolled once for all.                                                  *)
UnrollOf == [list \in Lists |-> UnrollList(list)]
UnrollListed(list) == UnrollOf[list]
==============================================================================

-------------------------------- MODULE MCInputs --------------------------------
(***************************************************************************)
(* Small files and texts for Inputs, and the notation of instruction lists *)
(* written out, which the parser is compared with.                         *)
(***************************************************************************)
EXTENDS Inputs

Number(n) == Value(n, FALSE, "")
Line(key, value) == [key |-> key, value |-> value]

BaseFile ==
  <<Line("num-cpu", Number(2)), Line("scheduler", Value(NoNumber, FALSE, "rr")),
    Line("quantum-cycles", Number(1)), Line("batch-process-freq", Number(1)),
    Line("min-ins", Number(1)), Line("max-ins", Number(8)),
    Line("delay-per-exec", Number(0)), Line("max-overall-mem", Number(64)),
    Line("mem-per-frame", Number(8)), Line("min-mem-per-proc", Number(8)),
    Line("max-mem-per-proc", Number(64))>>

BaseFiles == {BaseFile, Tail(BaseFile)}

(* 300 is too much, -1 is 299, 4k is 4, and a word throws.                 *)
Sizes == {Number(n) : n \in {0, 8, 12, 16, 24, 64, 128}}
Odd   == {Number(UlongMax + 1), Value(1, TRUE, ""), Value(4, FALSE, "k"),
          Value(NoNumber, FALSE, "")}

SizesTyped == Sizes \cup Odd

SizeKeys == {"max-overall-mem", "mem-per-frame", "min-mem-per-proc", "max-mem-per-proc"}

SomeLines ==
  {Line(k, v) : k \in SizeKeys, v \in Sizes}
  \cup {Line(k, v) : k \in NumericKeys \cup {"delays-per-exec", "typo"},
                     v \in {Number(0), Number(1)} \cup Odd}
  \cup {Line("scheduler", Value(NoNumber, FALSE, w)) : w \in {"rr", "fcfs", "lottery"}}

------------------------------------------------------------------------------
(* Number n, in digits.                                                    *)
RECURSIVE Digits(_, _)
Digits(n, base) ==
  (IF n < Len(base) THEN <<>> ELSE Digits(n \div Len(base), base))
    \o <<base[(n % Len(base)) + 1]>>

Decimal(n) == Digits(n, DecimalDigits)
Hex(n) == <<"0", "x">> \o Digits(n, HexDigits)

NameOrWord(name, word) == IF name = <<>> THEN Decimal(word) ELSE name

Spaced(parts) == FoldLeft(LAMBDA t, p : t \o <<Blank>> \o p, parts[1], Tail(parts))

RECURSIVE Written(_), WrittenOne(_)
WrittenOne(i) ==
  CASE i.opcode = "DECLARE" -> Spaced(<< <<"DECLARE">>, i.arg1, Decimal(i.val1) >>)
    [] i.opcode \in {"ADD", "SUBTRACT"} ->
         Spaced(<< <<i.opcode>>, i.arg1, NameOrWord(i.arg2, i.val2),
                   NameOrWord(i.arg3, i.val3) >>)
    [] i.opcode = "SLEEP" -> Spaced(<< <<"SLEEP">>, Decimal(i.val1) >>)
    [] i.opcode = "READ"  -> Spaced(<< <<"READ">>, i.arg1, Hex(i.addr) >>)
    [] i.opcode = "WRITE" -> Spaced(<< <<"WRITE">>, Hex(i.addr), NameOrWord(i.arg1, i.val1) >>)
    [] i.opcode = "FOR"   -> <<"FOR", "(", "[">> \o Written(i.body) \o <<"]", ",">>
                               \o Decimal(i.val1) \o <<")">>
    [] i.opcode = "PRINT" /\ ~ i.literalSet -> <<"PRINT">>
    [] OTHER -> <<"PRINT", "(", Quote>> \o i.arg1 \o <<Quote>>
                  \o (IF i.arg2 = <<>> THEN <<>> ELSE <<"+">> \o i.arg2) \o <<")">>

Written(list) ==
  FoldLeft(LAMBDA t, i : t \o <<";">> \o WrittenOne(i), WrittenOne(list[1]), Tail(list))

Escaped(t) == FlattenSeq([k \in DOMAIN t |-> IF t[k] = Quote THEN <<Backslash, Quote>>
                                                             ELSE <<t[k]>>])
Quoted(t) == <<Quote>> \o t \o <<Quote>>

------------------------------------------------------------------------------
X == <<"x">>
OneName == {X}

Simple ==
  {NewInstruction}
  \cup {[NewInstruction EXCEPT !.literalSet = TRUE, !.arg1 = l, !.arg2 = v] :
          l \in {<<>>, <<"x", ";", "]", ",", "(">>, <<"+">>}, v \in {<<>>, X}}
  \cup {[NewInstruction EXCEPT !.opcode = "DECLARE", !.arg1 = X, !.val1 = w] : w \in {0, MaxWord}}
  \cup {[NewInstruction EXCEPT !.opcode = op, !.arg1 = X, !.arg2 = v, !.val3 = 7] :
          op \in {"ADD", "SUBTRACT"}, v \in {<<>>, <<"a", "1">>}}
  \cup {[NewInstruction EXCEPT !.opcode = "SLEEP", !.val1 = 10]}
  \cup {[NewInstruction EXCEPT !.opcode = "READ", !.arg1 = X, !.addr = 26]}
  \cup {[NewInstruction EXCEPT !.opcode = "WRITE", !.arg1 = v, !.addr = a] :
          v \in {<<>>, X}, a \in {0, MaxAddress}}

Block(list, n) == [NewInstruction EXCEPT !.opcode = "FOR", !.body = list, !.val1 = n]
Nested(P) == {<<Block(p, n)>> : p \in P, n \in {1, 12}}

ShortLists  == {<<i>> : i \in Simple} \cup {<<i, j>> : i, j \in Simple}
SomePrograms ==
  ShortLists \cup Nested(ShortLists) \cup Nested(Nested({<<i>> : i \in Simple}))
  \cup {p \o <<i>> \o p : p \in Nested({<<i>> : i \in Simple}), i \in Simple}

(* Texts nobody meant: any few lexemes, by themselves or where a count, a  *)
(* body or something to print is due.                                      *)
Lists(S, n) == UNION {[1 .. k -> S] : k \in 0 .. n}

Stray ==
  Lists({"PRINT", "SLEEP", "ADD", "x", "7", "0", "(", ")", ";", Quote, Blank}, 3)
  \cup {<<"FOR", "(">> \o t \o <<")">> : t \in Lists({"[", "]", "PRINT", ",", "0", "1", Blank}, 5)}
  \cup {<<"PRINT", "(">> \o t \o <<")">> : t \in Lists({Quote, "+", "x", "(", ")", ";"}, 4)}
  \cup {<<"WRITE", Blank>> \o t : t \in Lists({"0", "x", "a", "9", Blank}, 4)}
  \cup {<<"DECLARE", Blank, "x", Blank>> \o t : t \in Lists({"0", "9", "x", Blank}, 5)}

Typing(text, meant) == [text |-> Quoted(text), meant |-> meant]

MeantTexts ==
  UNION {{Typing(Written(p), p), Typing(Escaped(Written(p)), p)} : p \in SomePrograms}
  \cup {Typing(Written(<<i, i, i, i>>), Refused) : i \in Simple}
  \cup {Typing(<<"FOR", "(", "[", "PRINT", "]", ",", "1", "0", "0", ")">>,
               <<Block(<<NewInstruction>>, MaxWord)>>)}

SomeTexts == MeantTexts \cup {Typing(t, Unmeant) : t \in Stray}

OneText == {Typing(<<"PRINT">>, <<NewInstruction>>)}
==============================================================================

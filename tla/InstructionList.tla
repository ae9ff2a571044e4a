---------------------------- MODULE InstructionList ----------------------------
(***************************************************************************)
(* Where programs come from: the instruction list typed after screen -c    *)
(* (Process::parseInstructions) and the random one of every other process  *)
(* (generateInstructions).                                                 *)
(*                                                                         *)
(* A text is a sequence of lexemes: a character, or a keyword in either    *)
(* case, which no rule of the notation looks into.  Blank is any white     *)
(* space.  A name or a literal is the text it was written as, <<>> when    *)
(* there is none.  A number too large for its field is the next one above. *)
(***************************************************************************)
EXTENDS Integers, Sequences, SequencesExt

CONSTANTS
  MaxWord,           \* UINT16_MAX
  MaxAddress,        \* bound: larger addresses are as good as this one
  SymbolTableBytes,  \* SYMBOL_TABLE_BYTES, 64 in the program
  MaxInstructions,   \* 50 in the program
  Refused            \* what is no instruction, or no list

Blank == " "
Quote == "\""
Backslash == "\\"
Opening == {"(", "["}
Closing == {")", "]"}

DecimalDigits == <<"0", "1", "2", "3", "4", "5", "6", "7", "8", "9">>
HexDigits     == DecimalDigits \o <<"a", "b", "c", "d", "e", "f">>

Min2(a, b) == IF a <= b THEN a ELSE b

NewInstruction ==
  [opcode |-> "PRINT", arg1 |-> <<>>, arg2 |-> <<>>, arg3 |-> <<>>, val1 |-> 0,
   val2 |-> 0, val3 |-> 0, addr |-> 0, body |-> <<>>, literalSet |-> FALSE]

------------------------------------------------------------------------------
(***************************************************************************)
(* Faulty forms of the definitions that follow, one plausible slip each;   *)
(* no specification uses them, the properties are tested against them.     *)
(***************************************************************************)
SplitsQuoted(acc, c) == [acc EXCEPT !.depth = @ + IF c \in Opening THEN 1
                                             ELSE IF c \in Closing THEN -1 ELSE 0]
WrapsParsed(n) == n % (MaxWord + 1)
WordsFromZero(size) == 0 .. (size \div 2) - 1
WordsToSize(size) == Min2(SymbolTableBytes, size) \div 2 .. size \div 2
------------------------------------------------------------------------------

(* Parts of a text.                                                        *)
TrimText(s) ==
  LET first == SelectInSeq(s, LAMBDA c : c # Blank)
      last  == SelectLastInSeq(s, LAMBDA c : c # Blank)
  IN  IF first = 0 THEN <<>> ELSE SubSeq(s, first, last)

Inner(s) == SubSeq(s, 2, Len(s) - 1)

Enclosed(s, l, r) == Len(s) >= 2 /\ Head(s) = l /\ Last(s) = r

(* Quotes and brackets are tracked, neither has to balance.                *)
Nesting(acc, c) ==
  IF c = Quote THEN [acc EXCEPT !.inQuotes = ~ @]
  ELSE IF acc.inQuotes THEN acc
  ELSE [acc EXCEPT !.depth = @ + IF c \in Opening THEN 1
                            ELSE IF c \in Closing THEN -1 ELSE 0]

SplitTopLevel(s, sep) ==
  LET Take(acc, c) ==
        IF c = sep /\ ~ acc.inQuotes /\ acc.depth = 0
        THEN [acc EXCEPT !.out = Append(@, acc.cur), !.cur = <<>>]
        ELSE [Nesting(acc, c) EXCEPT !.cur = Append(@, c)]
      end == FoldLeft(Take, [out |-> <<>>, cur |-> <<>>, depth |-> 0,
                             inQuotes |-> FALSE], s)
  IN  Append(end.out, end.cur)

NonEmpty(pieces) == SelectSeq(pieces, LAMBDA t : t # <<>>)

Trimmed(pieces) == NonEmpty([i \in DOMAIN pieces |-> TrimText(pieces[i])])

Tokenize(s) ==
  LET Take(out, c) == IF c = Blank THEN Append(out, <<>>)
                      ELSE Append(Front(out), Append(Last(out), c))
  IN  NonEmpty(FoldLeft(Take, << <<>> >>, s))

------------------------------------------------------------------------------
(* Numbers and operands.                                                   *)
AllIn(tok, digits) == tok # <<>> /\ ToSet(tok) \subseteq ToSet(digits)

NumberIn(tok, digits, top) ==
  FoldLeft(LAMBDA n, c : Min2(n * Len(digits) + SelectInSeq(digits, LAMBDA d : d = c) - 1,
                              top), 0, tok)

IsUint(tok) == AllIn(tok, DecimalDigits)

(* A word, out of whatever number: saturated, never wrapped.               *)
ClampParsed(n) == Min2(n, MaxWord)

ParsedUint(tok) == NumberIn(tok, DecimalDigits, MaxWord + 1)

WordOf(tok) == ClampParsed(ParsedUint(tok))

IsHexAddress(tok) ==
  Len(tok) >= 3 /\ tok[1] = "0" /\ tok[2] = "x" /\ AllIn(SubSeq(tok, 3, Len(tok)), HexDigits)

AddressOf(tok) == NumberIn(SubSeq(tok, 3, Len(tok)), HexDigits, MaxAddress)

OperandName(tok) == IF IsUint(tok) THEN <<>> ELSE tok
OperandWord(tok) == IF IsUint(tok) THEN WordOf(tok) ELSE 0

------------------------------------------------------------------------------
RECURSIVE ParseList(_)

(* The last literal and the last name count.                               *)
ParsePrint(inside) ==
  LET Take(i, part) == IF Enclosed(part, Quote, Quote)
                       THEN [i EXCEPT !.arg1 = Inner(part)]
                       ELSE [i EXCEPT !.arg2 = part]
  IN  IF TrimText(inside) = <<>> THEN NewInstruction
      ELSE FoldLeft(Take, [NewInstruction EXCEPT !.literalSet = TRUE],
                    Trimmed(SplitTopLevel(TrimText(inside), "+")))

(* FOR([<instructions>], <repeats>)                                        *)
ParseFor(inside) ==
  LET parts == SplitTopLevel(inside, ",")
      block == TrimText(parts[1])
      count == TrimText(parts[2])
      list  == ParseList(Inner(block))
  IN  IF Len(parts) # 2 \/ ~ Enclosed(block, "[", "]") \/ ~ IsUint(count)
         \/ ParsedUint(count) = 0 \/ list \in {Refused, <<>>}
      THEN Refused
      ELSE [NewInstruction EXCEPT !.opcode = "FOR", !.val1 = WordOf(count), !.body = list]

(* The keyword runs up to the first space or opening parenthesis.          *)
KeywordEnd(s) ==
  LET k == SelectInSeq(s, LAMBDA c : c \in {Blank, "("})
  IN  IF k = 0 THEN Len(s) ELSE k - 1

ParseOperands(op, tok) ==
  CASE op = "DECLARE" /\ Len(tok) = 2 /\ IsUint(tok[2]) ->
         [NewInstruction EXCEPT !.opcode = op, !.arg1 = tok[1], !.val1 = WordOf(tok[2])]
    [] op \in {"ADD", "SUBTRACT"} /\ Len(tok) = 3 ->
         [NewInstruction EXCEPT !.opcode = op, !.arg1 = tok[1],
            !.arg2 = OperandName(tok[2]), !.val2 = OperandWord(tok[2]),
            !.arg3 = OperandName(tok[3]), !.val3 = OperandWord(tok[3])]
    [] op = "SLEEP" /\ Len(tok) = 1 /\ IsUint(tok[1]) ->
         [NewInstruction EXCEPT !.opcode = op, !.val1 = WordOf(tok[1])]
    [] op = "READ" /\ Len(tok) = 2 /\ IsHexAddress(tok[2]) ->
         [NewInstruction EXCEPT !.opcode = op, !.arg1 = tok[1], !.addr = AddressOf(tok[2])]
    [] op = "WRITE" /\ Len(tok) = 2 /\ IsHexAddress(tok[1]) ->
         [NewInstruction EXCEPT !.opcode = op, !.addr = AddressOf(tok[1]),
            !.arg1 = OperandName(tok[2]), !.val1 = OperandWord(tok[2])]
    [] OTHER -> Refused

ParseOne(s) ==
  LET op   == SubSeq(s, 1, KeywordEnd(s))
      rest == TrimText(SubSeq(s, KeywordEnd(s) + 1, Len(s)))
  IN  CASE op = <<"PRINT">> /\ rest = <<>> -> NewInstruction
        [] op = <<"PRINT">> /\ Enclosed(rest, "(", ")") -> ParsePrint(Inner(rest))
        [] op = <<"FOR">> /\ Enclosed(rest, "(", ")") -> ParseFor(Inner(rest))
        [] Len(op) = 1 -> ParseOperands(op[1], Tokenize(rest))
        [] OTHER -> Refused

(* A trailing or doubled semicolon is tolerated.                           *)
ParseList(text) ==
  LET pieces == Trimmed(SplitTopLevel(text, ";"))
      list   == [i \in DOMAIN pieces |-> ParseOne(pieces[i])]
  IN  IF Refused \in ToSet(list) THEN Refused ELSE list

ParseInstructions(text) == ParseList(text)

------------------------------------------------------------------------------
(* screen -c: the list runs from the first quote to the last, and each \"  *)
(* in it stands for a quote.                                               *)
UnescapeQuotes(s) ==
  LET Escaping(i) == s[i] = Backslash /\ i < Len(s) /\ s[i + 1] = Quote
  IN  FoldLeft(LAMBDA out, i : IF Escaping(i) THEN out ELSE Append(out, s[i]),
               <<>>, [i \in DOMAIN s |-> i])

TypedList(input) ==
  LET open  == SelectInSeq(input, LAMBDA c : c = Quote)
      close == SelectLastInSeq(input, LAMBDA c : c = Quote)
      list  == ParseInstructions(UnescapeQuotes(SubSeq(input, open + 1, close - 1)))
  IN  IF open = 0 \/ close <= open \/ list = Refused \/ list = <<>>
         \/ Len(list) > MaxInstructions
      THEN Refused ELSE list

------------------------------------------------------------------------------
(* generateInstructions(): the words above the symbol table, if the space  *)
(* has any, and the instructions one roll of the dice can make.            *)
CanAddress(size) == size >= Min2(SymbolTableBytes, size) + 2

WordDist(size) == Min2(SymbolTableBytes, size) \div 2 .. (size - 2) \div 2

GeneratedInstructions(size, names, words) ==
  {NewInstruction}
  \cup {[NewInstruction EXCEPT !.arg1 = <<"Value from: ">>, !.arg2 = n] : n \in names}
  \cup {[NewInstruction EXCEPT !.opcode = "DECLARE", !.arg1 = n, !.val1 = w] : n \in names, w \in words}
  \cup {[NewInstruction EXCEPT !.opcode = op, !.arg1 = n, !.arg2 = m, !.val3 = w] :
          op \in {"ADD", "SUBTRACT"}, n \in names, m \in names, w \in words}
  \cup IF CanAddress(size)
       THEN {[NewInstruction EXCEPT !.opcode = op, !.arg1 = n, !.addr = a * 2] :
               op \in {"READ", "WRITE"}, n \in names, a \in WordDist(size)}
       ELSE {}
==============================================================================

--------------------------------- MODULE Inputs ---------------------------------
(***************************************************************************)
(* What comes into the program from outside: config.txt, which may be      *)
(* edited until initialize accepts it, and the commands that make          *)
(* processes of it.  A process depends on none made before it, so a run    *)
(* ends with its first one.                                                *)
(***************************************************************************)
EXTENDS Configuration, InstructionList

CONSTANTS
  Files,        \* the configuration files it starts with
  Lines,        \* lines somebody appends to it, [key, value]
  MaxEdits,     \* bound: how many
  SizeValues,   \* sizes typed at the prompt
  Texts,        \* what is typed after screen -c: a text, and the program it means
  CommonTexts,  \* bound: those typed under any configuration, and
  TypedFiles,   \* the configurations all are typed under
  Names, Words, \* what generated instructions are made of
  Unmeant,      \* what a text means that is no program's, and no text
  NoProcess

VARIABLES
  configFile,
  edits,        \* how many lines were appended
  status,       \* "uninitialized", "failed", "initialized", or "crashed"
  config,       \* the scheduler's configuration
  made          \* the process: how it was made, from what text, its size,
                \* and its program or Refused

vars == <<configFile, edits, status, config, made>>

Init ==
  /\ configFile \in Files
  /\ edits = 0
  /\ status = "uninitialized"
  /\ config = DefaultConfig
  /\ made = NoProcess

(* Somebody edits the file, before initialize or after it failed.          *)
Edit(line) ==
  /\ status \in {"uninitialized", "failed"}
  /\ edits < MaxEdits
  /\ edits' = edits + 1
  /\ configFile' = Append(configFile, line)
  /\ UNCHANGED <<status, config, made>>

Initialize ==
  /\ status \in {"uninitialized", "failed"}
  /\ LET parsed == Parse(configFile)
     IN  /\ status' = IF parsed = Crash THEN "crashed"
                      ELSE IF Validate(parsed) THEN "initialized" ELSE "failed"
         /\ config' = IF status' = "initialized" THEN parsed ELSE config
  /\ UNCHANGED <<configFile, edits, made>>

Make(how, size, typed, program) ==
  /\ status = "initialized"
  /\ made = NoProcess
  /\ made' = [how |-> how, memorySize |-> size, typed |-> typed, program |-> program]
  /\ UNCHANGED <<configFile, edits, status, config>>

(* The instructions are rolled one by one: a list of one stands for all.   *)
Generated(size) == {<<i>> : i \in GeneratedInstructions(size, Names, Words)}

(* scheduler-start                                                         *)
GenerateBatchProcess ==
  \E size \in RolledSizes(config) : \E p \in Generated(size) :
    Make("batch", size, Unmeant, p)

(* screen -s <name> <size>                                                 *)
ScreenS(v) ==
  /\ SizeAccepted(v)
  /\ \E p \in Generated(v.number) : Make("-s", v.number, Unmeant, p)

Typable == IF configFile \in TypedFiles THEN Texts ELSE CommonTexts

(* screen -c <name> <size> <text>, and screen -c <name> <text>             *)
ScreenC(v, text) ==
  /\ SizeAccepted(v)
  /\ Make("-c", v.number, text, TypedList(text.text))

ScreenCWithoutSize(text) ==
  Make("-c default", DefaultSize(config), text, TypedList(text.text))

Next ==
  \/ \E line \in Lines : Edit(line)
  \/ Initialize
  \/ GenerateBatchProcess
  \/ \E v \in SizeValues : ScreenS(v) \/ \E text \in CommonTexts : ScreenC(v, text)
  \/ status = "initialized" /\ made = NoProcess /\ \E text \in Typable : ScreenCWithoutSize(text)

Spec == Init /\ [][Next]_vars

------------------------------------------------------------------------------
PowersOfTwo == {2 ^ k : k \in 0 .. 16} \cap (MinMemSize .. MaxMemSize)

Made == made # NoProcess /\ made.program # Refused

(* README.md: "Invalid values are reported and initialize fails, leaving   *)
(* the emulator uninitialized."                                            *)
InvalidIsReported == status # "crashed"

(* The value in force is that of the last line that gives it, in either    *)
(* spelling of the delay's key; a failed initialize leaves nothing behind. *)
Spellings(k) == {k} \cup IF k = "delay-per-exec" THEN {"delays-per-exec"} ELSE {}

LastLineCounts ==
  status = "initialized" =>
    \A k \in NumericKeys :
      LET last == SelectLastInSeq(configFile, LAMBDA l : l.key \in Spellings(k))
      IN  config[k] = IF last = 0 THEN 0 ELSE Stoul(configFile[last].value)

(* Whichever way a process is made its space is a power of two that is     *)
(* allowed; a rolled one keeps to the bounds; and one made without a size  *)
(* is one the scheduler will dispatch, the largest such.  This is what     *)
(* handleScreen() does and says (ConsoleManager.cpp:259-267).  The         *)
(* documents differ: README.md:145-146 gives the space without a size as   *)
(* 65536 bytes whatever max-overall-mem is, and README.txt:70 gives 64 as  *)
(* the least of the four memory values where the code takes 8, as          *)
(* README.md:54-55 says.                                                   *)
SizesLegal ==
  Made =>
    /\ made.memorySize \in PowersOfTwo
    /\ made.how = "batch" =>
         made.memorySize \in config["min-mem-per-proc"] .. config["max-mem-per-proc"]
    /\ made.how = "-c default" =>
         /\ made.memorySize <= config["max-overall-mem"]
         /\ \A n \in PowersOfTwo : n <= config["max-overall-mem"] => n <= made.memorySize

(* A generated process is never killed: its words are in its space, above  *)
(* the symbol table, and none straddles two pages.                         *)
GeneratedStayInside ==
  Made /\ made.how \in {"batch", "-s"} =>
    \A i \in DOMAIN made.program :
      LET a == made.program[i].addr
      IN  made.program[i].opcode \in {"READ", "WRITE"} =>
            /\ a >= SymbolTableBytes /\ a + 2 <= made.memorySize
            /\ a \div config["mem-per-frame"] = (a + 1) \div config["mem-per-frame"]

(* A list that is written as the notation has it, its quotes escaped or    *)
(* not, becomes the program it means; one that is too long, none: no       *)
(* separator in a literal or in a block splits it, and no value wraps.     *)
UnderstoodAsMeant ==
  made # NoProcess /\ made.typed # Unmeant /\ made.typed.meant # Unmeant =>
    made.program = made.typed.meant

(* What Process takes for granted of a program, whoever typed it: there is *)
(* an instruction, a FOR block has one as well and is run at least once,   *)
(* every literal is a word, and no operand is there without a use.         *)
RECURSIVE Legal(_)
Legal(list) ==
  /\ list # <<>>
  /\ \A k \in DOMAIN list :
       LET i == list[k]
       IN  /\ {i.val1, i.val2, i.val3} \subseteq 0 .. MaxWord
           /\ i.opcode # "PRINT" => i.arg1 # <<>> \/ i.opcode \in {"SLEEP", "FOR", "WRITE"}
           /\ i.opcode \notin {"PRINT", "ADD", "SUBTRACT"} => i.arg2 = <<>>
           /\ i.opcode \notin {"ADD", "SUBTRACT"} => i.arg3 = <<>>
           /\ i.opcode \in {"SLEEP", "FOR"} => i.arg1 = <<>>
           /\ i.opcode = "FOR" => i.val1 > 0 /\ Legal(i.body)

ProgramsLegal ==
  Made => /\ Legal(made.program)
          /\ made.typed # Unmeant => Len(made.program) <= MaxInstructions
==============================================================================

----------------------------- MODULE Configuration -----------------------------
(***************************************************************************)
(* config.txt, as initialize reads it: line by line, the last line of a    *)
(* key counts, a missing key leaves 0; then the whole is validated.  And   *)
(* the sizes that go by it: a batch process's roll, and the default of     *)
(* screen -c.                                                              *)
(*                                                                         *)
(* A value is what std::stoul makes of it: the number it begins with, if   *)
(* it does, and its sign; or the word it is.  The case and the quotes of   *)
(* keys and words are left out.  UlongMax stands for ULONG_MAX, 2^32 - 1   *)
(* on the program's platform: all the code needs is that every memory size *)
(* is far below it.                                                        *)
(***************************************************************************)
EXTENDS Integers, Sequences, Bitwise, SequencesExt

CONSTANTS
  MinMemSize, MaxMemSize,  \* MIN_MEM_SIZE and MAX_MEM_SIZE
  MaxCpu,                  \* 128 in the program
  UlongMax,                \* ULONG_MAX, and UINT32_MAX
  NoNumber,                \* what a word begins with
  Crash                    \* an exception nobody catches

ASSUME ConfigurationConstants ==
  /\ MinMemSize \in Nat \ {0} /\ MaxMemSize \in Nat
  /\ MaxCpu \in Nat \ {0} /\ UlongMax \in Nat \ 0 .. 2 * MaxMemSize

NumericKeys == {"num-cpu", "quantum-cycles", "batch-process-freq", "min-ins", "max-ins",
                "delay-per-exec", "max-overall-mem", "mem-per-frame",
                "min-mem-per-proc", "max-mem-per-proc"}

Value(n, negative, word) == [number |-> n, negative |-> negative, word |-> word]

------------------------------------------------------------------------------
(***************************************************************************)
(* Faulty forms of the definitions that follow, one plausible slip each;   *)
(* no specification uses them, the properties are tested against them.     *)
(***************************************************************************)
MultipleOfMin(n) == n \in MinMemSize .. MaxMemSize /\ n % MinMemSize = 0
StrictlyAbove(n) == CHOOSE k \in 0 .. n : 2 ^ k > n /\ (k = 0 \/ 2 ^ (k - 1) <= n)
Uncapped(config) == MaxMemSize
OneSpelling(key) == key
------------------------------------------------------------------------------

DefaultConfig == [k \in NumericKeys \cup {"scheduler"} |-> IF k = "scheduler" THEN "" ELSE 0]

(* A minus sign counts down from 2^32; what comes after the digits does    *)
(* not count; nothing to count, and too much, throw.                       *)
Throws(v) == v.number = NoNumber \/ v.number > UlongMax
Stoul(v)  == IF v.negative THEN (UlongMax + 1 - v.number) % (UlongMax + 1) ELSE v.number

KeyOf(key) == IF key = "delays-per-exec" THEN "delay-per-exec" ELSE key

(* A key nobody knows is ignored.                                          *)
TakeLine(config, line) ==
  IF config = Crash THEN Crash
  ELSE IF KeyOf(line.key) \in NumericKeys
  THEN IF Throws(line.value) THEN Crash
       ELSE [config EXCEPT ![KeyOf(line.key)] = Stoul(line.value)]
  ELSE IF line.key = "scheduler" THEN [config EXCEPT !["scheduler"] = line.value.word]
  ELSE config

Parse(file) == FoldLeft(TakeLine, DefaultConfig, file)

IsValidMemSize(n) == n \in MinMemSize .. MaxMemSize /\ n & (n - 1) = 0

Validate(config) ==
  /\ config["num-cpu"] \in 1 .. MaxCpu
  /\ config["scheduler"] \in {"fcfs", "rr"}
  /\ config["scheduler"] = "rr" => config["quantum-cycles"] >= 1
  /\ config["batch-process-freq"] >= 1
  /\ config["min-ins"] >= 1 /\ config["max-ins"] >= config["min-ins"]
  /\ \A k \in {"max-overall-mem", "mem-per-frame", "min-mem-per-proc", "max-mem-per-proc"} :
       IsValidMemSize(config[k])
  /\ config["max-overall-mem"] % config["mem-per-frame"] = 0
  /\ config["min-mem-per-proc"] <= config["max-mem-per-proc"]

------------------------------------------------------------------------------
(* The least exponent whose power of two is not below n.                   *)
Exponent(n) == CHOOSE k \in 0 .. n : 2 ^ k >= n /\ (k = 0 \/ 2 ^ (k - 1) < n)

(* rollMemorySize(): any of the powers of two from one bound to the other. *)
RolledSizes(config) ==
  {2 ^ k : k \in Exponent(config["min-mem-per-proc"]) .. Exponent(config["max-mem-per-proc"])}

(* screen -c without a size: the largest there is, capped at what the      *)
(* scheduler admits.                                                       *)
DefaultSize(config) ==
  LET physical == config["max-overall-mem"]
  IN  IF physical > 0 /\ physical < MaxMemSize THEN physical ELSE MaxMemSize

(* A size as typed at the prompt: digits and nothing else.                 *)
SizeAccepted(v) == v.number # NoNumber /\ ~ v.negative /\ v.word = "" /\ IsValidMemSize(v.number)
==============================================================================

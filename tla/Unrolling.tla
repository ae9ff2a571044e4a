------------------------------- MODULE Unrolling -------------------------------
(***************************************************************************)
(* What a process executes, against AtomicProcess: its program with the    *)
(* FOR blocks unrolled, one instruction after the other.                   *)
(*                                                                         *)
(* Unroll is the recursion over blocks in blocks.  It is a constant, told  *)
(* by its recursion equations, for the proofs; MCProcess gives it its      *)
(* value, and TLC checks the equations of that.                            *)
(***************************************************************************)
EXTENDS Process, SequencesExt

CONSTANT Unroll(_)   \* of a list of instructions: those it executes, in order

(* The lists to unroll: programs and bodies of blocks, from any place on.  *)
Rest(list, k) == SubSeq(list, k + 1, Len(list))
Lists ==
  UNION {{Rest(list, k) : k \in 0 .. Len(list)} :
           list \in Programs \cup {i.body : i \in Instructions}}

(* s, n times over.                                                        *)
Repeated(s, n) == [k \in 1 .. n * Len(s) |-> s[((k - 1) % Len(s)) + 1]]

Rounds(i, n) == Repeated(Unroll(i.body), n)
Executed(i)  == IF i.opcode = "FOR" THEN Rounds(i, i.val1) ELSE <<i>>

ASSUME UnrollAssumption ==
  \A list \in Lists :
    /\ Unroll(list) \in Seq(Leaves)
    /\ Unroll(list) = <<>> <=> list = <<>>
    /\ list # <<>> => Unroll(list) = Executed(Head(list)) \o Unroll(Tail(list))

UnrolledPrograms == {Unroll(list) : list \in Programs}
Unrolled == Unroll(instructions)

(* What is left of the unrolled program; nothing sensible when something   *)
(* else was executed than its beginning.                                   *)
Todo == IF IsPrefix(done, Unrolled)
        THEN SubSeq(Unrolled, Len(done) + 1, Len(Unrolled))
        ELSE <<None>>

(* The names in use, the one with the lowest slot first.                   *)
NamesBySlot(table) ==
  [k \in 1 .. Cardinality(Defined(table)) |->
    CHOOSE n \in Names : table[n] = 2 * (k - 1)]

Atomic == INSTANCE AtomicProcess WITH
  Programs <- UnrolledPrograms,
  size     <- memorySize,
  todo     <- Todo,
  known    <- NamesBySlot(symbolTable),
  space    <- mem,
  status   <- state

(* Faults, retries and phases are invisible: whatever the memory answers,  *)
(* each instruction of the unrolled program takes effect exactly once and  *)
(* at once, in order, until the last one or the first violation.           *)
ExecutesAtomically == Atomic!Spec
==============================================================================

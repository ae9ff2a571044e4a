------------------------------ MODULE MCEmulator ------------------------------
(* Programs for Emulator, one per way to depend on the frames.             *)
EXTENDS Emulator

Instruction(asks) == [opcode |-> "OTHER", asks |-> asks, sleep |-> 0]
PrintText    == Instruction(<<>>)
Compute      == Instruction(<<Segment>>)
ReadAt(a)    == Instruction(<<a, Segment>>)
WriteVar(a)  == Instruction(<<Segment, a>>)
WriteLit(a)  == Instruction(<<a>>)
EnterFor     == [opcode |-> "FOR", asks |-> <<>>, sleep |-> 0]
SleepFor(k)  == [opcode |-> "SLEEP", asks |-> <<>>, sleep |-> k]

MCEndless  == {<<Compute>>}
MCPrograms ==
  {<<ReadAt(1)>>, <<WriteVar(2), SleepFor(1), Compute>>,
   <<EnterFor, PrintText, WriteLit(3)>>} \cup MCEndless
==============================================================================

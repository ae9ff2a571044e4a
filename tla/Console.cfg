SPECIFICATION FairSpec
CONSTANTS
  BatchProcessFreq = 1
  DelayPerExec = 2
  WordBits = 8
  UserNames = {"p02", "mine"}
  BatchNames <- TickNames
  MaxTicks = 5
  None = None
\* the program ends
CHECK_DEADLOCK FALSE
INVARIANTS
  TypeOK
  AtMostOneAfterStop
  ScreenKeepsItsProcess
PROPERTIES
  TicksInOrder
  BatchSpacing
  ExitEnds

SPECIFICATION Spec
CONSTANTS
  BatchProcessFreq = 1
  DelayPerExec = 0
  WordBits = 8
  UserNames = {"p02"}
  BatchNames <- TickNames
  MaxTicks = 4
  None = None
\* the program ends
CHECK_DEADLOCK FALSE
INVARIANTS
  EveryProcessReached

SPECIFICATION Spec
CONSTANTS
  BatchProcessFreq = 1
  DelayPerExec = 3
  WordBits = 8
  UserNames = {"mine"}
  BatchNames <- TickNames
  MaxTicks = 5
  None = None
\* the program ends
CHECK_DEADLOCK FALSE
PROPERTIES
  FreqIsInTicks

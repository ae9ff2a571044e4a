SPECIFICATION Spec
CONSTANTS
  Programs <- KilledPrograms
  Instructions <- KilledInstructions
  MemSizes = {8}
  Names = {"x", "y", "z"}
  SymbolTableBytes = 4
  MaxVariables = 2
  ByteBase = 2
  None = None
  Unroll <- UnrollListed
\* a process ends
CHECK_DEADLOCK FALSE
INVARIANTS
  KilledAtItsLine

SPECIFICATION FairSpec
CONSTANTS
  Programs <- PlainPrograms
  Instructions <- PlainInstructions
  MemSizes = {2, 4, 8}
  Names = {"x", "y", "z"}
  SymbolTableBytes = 4
  MaxVariables = 2
  ByteBase = 2
  None = None
  Unroll <- UnrollListed
\* a process ends
CHECK_DEADLOCK FALSE
INVARIANTS
  TypeOK
  AccessesGranted
  SlotsApart
PROPERTIES
  TakesEffectAtOnce
  ExecutesAtomically
  Ends

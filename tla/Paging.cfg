SPECIFICATION OrderedSpec
CONSTANTS
  Pids = {p1, p2, p3}
  Frames = {f1, f2}
  FrameSize = 2
  MaxMemSize = 3
  MemSizes = {2, 3}
  SymbolTableBytes = 2
  ByteBase = 2
  None = None
SYMMETRY Symmetry
INVARIANTS
  TypeOK
  OneAssignment
  PageInOnePlace
  PinsMatchPromises
PROPERTIES
  BlockedOnlyByOthers
  OldestGoesFirst
  ImplementsFlatMemory

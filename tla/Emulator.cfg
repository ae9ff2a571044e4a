SPECIFICATION SystemFairSpec
CONSTANTS
  Pids = {1, 2, 3}
  NumCpu = 2
  Policies = {"rr", "fcfs"}
  QuantumCycles = 1
  DelayPerExec = 1
  IntBits = 8
  TotalMemory = 4
  MemSizes = {4, 8}
  MaxSleep = 1
  Frames = {f1, f2}
  FrameSize = 2
  MaxMemSize = 8
  SymbolTableBytes = 2
  Programs <- MCPrograms
  Endless <- MCEndless
  None = None
INVARIANTS
  PinsAgree
  RowsSumToUsed
PROPERTIES
  BlockedByAnotherCore
  EveryAdmittedFinishes
  AdmittedGetsCore

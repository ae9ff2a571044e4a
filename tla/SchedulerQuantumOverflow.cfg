SPECIFICATION OrderedSpec
CONSTANTS
  Pids = {p1, p2}
  NumCpu = 1
  Policies = {"rr"}
  QuantumCycles = 4
  DelayPerExec = 2
  IntBits = 3
  TotalMemory = 1
  MemSizes = {1}
  MaxSleep = 2
  None = None
PROPERTIES
  PreemptedAfterQuantum

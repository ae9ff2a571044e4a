SPECIFICATION OrderedSpec
CONSTANTS
  Pids = {p1, p2, p3}
  NumCpu = 2
  Policies = {"rr", "fcfs"}
  QuantumCycles = 2
  DelayPerExec = 2
  IntBits = 8
  TotalMemory = 1
  MemSizes = {1, 2}
  MaxSleep = 2
  None = None
SYMMETRY Symmetry
INVARIANTS
  TypeOK
  Placement
  TablesOfTheLiving
  NoCoreIdleForNothing
PROPERTIES
  SleepsItsTicks
  PreemptedAfterQuantum
  FirstComeFirstServed

SPECIFICATION Spec
CONSTANTS
  Pids = {1, 2}
  VPNs = {0, 1}
  NumFrames = 1
  FlushTicks = 2
  MaxTicks = 3
  MaxEvents = 4
  MaxLines = 2
CHECK_DEADLOCK FALSE
INVARIANTS
  LogLacksOnlyFailedTicks
  LogTellsResidency
  TraceComplete
  LossIsBounded

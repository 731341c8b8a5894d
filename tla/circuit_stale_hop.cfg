SPECIFICATION Spec
CONSTANTS
  DelayPolicySet = TRUE
  HighWater = 2
  LowWater = 1
  MaxQueueSize = 2
  UsecPerTick = 1
  Streams = {}
  Delays = {0, 2}
  MaxTime = 3
  MaxHops = 1
  MaxJumps = 0
  Truncates = TRUE
  MaxCells <- TwoAndOne
INVARIANTS
  QueuedForCurrentHop
CHECK_DEADLOCK FALSE

SPECIFICATION Spec
CONSTANTS
  DelayPolicySet = TRUE
  HighWater = 2
  LowWater = 1
  MaxQueueSize = 2
  UsecPerTick = 1
  Streams = {}
  Delays = {0, 2}
  MaxTime = 2
  MaxHops = 1
  MaxJumps = 1
  Truncates = TRUE
  MaxCells <- ThreeAndOne
INVARIANTS
  TimerMatchesQueue
  NothingOutlivesCircuit
  MuxSeesReleasedCells
  ReadyInOrder
PROPERTIES
  OutIsAPipe
CHECK_DEADLOCK FALSE

SPECIFICATION FairSpec
CONSTANTS
  DelayPolicySet = TRUE
  HighWater = 2
  LowWater = 1
  MaxQueueSize = 3
  UsecPerTick = 3
  Streams = {s1, s2}
  Delays = {1, 4}
  MaxTime = 5
  MaxHops = 1
  MaxJumps = 0
  Truncates = TRUE
  MaxCells <- ThreeIn
INVARIANTS
  TypeOK
  StoppedStreamsHaveAWaker
PROPERTIES
  InIsAPipe
  ReleasedOnTime
  StreamsRestart
  CellsLeave
CHECK_DEADLOCK FALSE

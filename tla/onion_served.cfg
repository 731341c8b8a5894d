SPECIFICATION FairSpec
CONSTANTS
  Circuits = {c1, c2, c3}
  Threads = {t1}
  MaxPending = 1
  AlwaysRoom = 1
  NtorsPerTap = 1
PROPERTIES
  DeadAreFreed
  QueuedAreServed
CHECK_DEADLOCK FALSE

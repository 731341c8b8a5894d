SPECIFICATION FairSpec
CONSTANTS
  Channels = {c1, c2}
  None = None
  MaxCells <- TwoAndOne
  c1 = c1
  c2 = c2
  MaxDestroys = 1
  MaxOutbuf = 2
  KernelThreshold = 1
  LowWater = 1
INVARIANTS
  NoForgottenCells
  NoSchedBug
  FlushedIsWritten
PROPERTY
  RunEnds

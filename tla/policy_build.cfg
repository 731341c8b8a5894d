SPECIFICATION FairSpec
CONSTANTS
  Policies = {p1}
  PathLengths = {1, 3}
  N = 3
  Legacy = FALSE
  MaxChanges = 1
INVARIANTS
  TypeOK
  OnlySecondHopDelays
  AckIsTrue
  EnforcedPolicyIsMine
PROPERTIES
  EnforcedHopDelays
  BuildEnds
  NoOrphans
CHECK_DEADLOCK FALSE

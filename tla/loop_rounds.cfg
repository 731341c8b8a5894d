SPECIFICATION FairSpec
CONSTANTS
  Nodes = {n1, n2}
  Circuits = {1, 2}
  General = {1, 2}
  MaxCuts = 1
INVARIANTS
  QuietRoundIsRight
  OneRequestAfterStop

  
CHECK_DEADLOCK FALSE

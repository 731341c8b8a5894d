SPECIFICATION Spec
CONSTANTS
  Circuits = {c1, c2, c3, c4}
  Threads = {t1, t2}
  MaxPending = 2
  AlwaysRoom = 1
  NtorsPerTap = 1
SYMMETRY Symmetry
INVARIANTS
  JobsPointToMemory
  NoCircuitForgotten
  CountersAreTrue
  AnswersAreHeard
  WorkIsSeen
  TapNotStarved
CHECK_DEADLOCK FALSE

SPECIFICATION Spec
CONSTANTS
  Circuits = {c1, c2, c3}
  Ids = {i1, i2, i3}
  TickLen = 1
  MaxTime = 2
  MaxCells = 5
SYMMETRY Symmetry
INVARIANTS
  MuxIsConsistent
  IdsAreReserved
  DestroysAlternate
PROPERTIES
  QuietestIsPicked
CHECK_DEADLOCK FALSE

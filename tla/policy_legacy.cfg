SPECIFICATION Spec
CONSTANTS
  Policies = {p1}
  PathLengths = {3}
  N = 4
  Legacy = TRUE
  MaxChanges = 0
INVARIANTS
  RegularExtended
CHECK_DEADLOCK FALSE

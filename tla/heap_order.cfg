SPECIFICATION Spec
CONSTANTS
  Elements = {x1, x2, x3, x4, x5, x6}
  Keys = {1, 2}
SYMMETRY Symmetry
INVARIANTS
  HeapIsOk

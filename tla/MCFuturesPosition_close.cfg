CONSTANTS
  Calls = {c1, c2}
  MaxAmt = 2
SPECIFICATION Spec
SYMMETRY Symmetry
INVARIANTS
  TypeOK
  QuietCloseIsComplete
PROPERTIES
  OnlyReduces

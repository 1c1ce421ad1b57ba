CONSTANTS
  Calls = {c1, c2}
  MaxAmt = 1
SPECIFICATION Spec
INVARIANTS
  ClosesEntirePosition

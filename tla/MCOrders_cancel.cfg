CONSTANTS
  Calls = {c1, c2}
  Symbols = {s1}
  Tools <- Managers
  Contracts <- FewArgs
  Rates = {}
  FirstId = 1
  MaxOrders = 2
  Exact = 8
  Production = TRUE
SPECIFICATION Spec
SYMMETRY Symmetry
INVARIANTS
  TypeOK
  CanceledIsGone
  AsAsked
PROPERTIES
  CancelsOnlyMeant

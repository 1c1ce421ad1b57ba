CONSTANTS
  Calls = {c1}
  Symbols = {s1}
  Tools <- Managers
  Contracts <- FewArgs
  Rates = {}
  FirstId = 12
  MaxOrders = 2
  Exact = 8
  Production = TRUE
SPECIFICATION Spec
PROPERTIES
  CancelsOnlyMeant

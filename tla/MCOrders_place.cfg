CONSTANTS
  Calls = {c1}
  Symbols = {s1}
  Tools <- Creators
  Contracts <- AllArgs
  Rates <- Spread
  FirstId = 1
  MaxOrders = 1
  Exact = 8
  Production = TRUE
SPECIFICATION Spec
INVARIANTS
  WellFormed
  AsAsked

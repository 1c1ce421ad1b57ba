CONSTANTS
  Calls = {c1, c2, c3}
  Hosts = {spot}
  Threshold = 2
  BanLimit = 7
  Costs = {1}
  Lossy = TRUE
  LateCap = 6
SPECIFICATION FairSpec
INVARIANTS
  TypeOK
  OvershootBounded
PROPERTIES
  RefusedOnlyAfterLoss
  Unblocks

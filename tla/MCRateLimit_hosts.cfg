CONSTANTS
  Calls = {c1, c2}
  Hosts = {spot, futures}
  Threshold = 4
  BanLimit = 6
  Costs = {1}
  Lossy = FALSE
  LateCap = 4
SPECIFICATION Spec
INVARIANTS
  NeverLimited

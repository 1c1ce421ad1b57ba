CONSTANTS
  Calls = {c1, c2}
  MaxAttempts = 2
  Deadline = 1
  MinuteTicks = 1
  Threshold = 1
  Readings = {0, 1}
  Backoffs = {0}
  RetryAfters = {0, 1}
  TripAfter = 2
  Cooldown = 1
  Punctual = FALSE
SPECIFICATION FairSpec
PROPERTIES
  EveryCallReturns
  BreakerRecovers

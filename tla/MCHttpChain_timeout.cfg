CONSTANTS
  Calls = {c1, c2}
  MaxAttempts = 2
  Deadline = 1
  MinuteTicks = 2
  Threshold = 1
  Readings = {0, 1}
  Backoffs = {0}
  RetryAfters = {0, 1}
  TripAfter = 2
  Cooldown = 2
  Punctual = TRUE
SPECIFICATION Spec
PROPERTIES
  TimeoutBoundsWait

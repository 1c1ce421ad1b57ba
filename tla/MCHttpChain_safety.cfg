CONSTANTS
  Calls = {c1, c2}
  MaxAttempts = 3
  Deadline = 1
  MinuteTicks = 2
  Threshold = 1
  Readings = {0, 1}
  Backoffs = {0}
  RetryAfters = {0, 1}
  TripAfter = 2
  Cooldown = 2
  Punctual = FALSE
SPECIFICATION Spec
SYMMETRY Symmetry
INVARIANTS
  TypeOK
  AtMostOnce
  OutcomeHonest
  OneProbe
  RefusesForNow
PROPERTIES
  OnlyProbeDecides
  TripsOnlyWhenSpent
  AlwaysNearer
  Delivers

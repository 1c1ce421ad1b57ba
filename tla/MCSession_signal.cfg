CONSTANTS
  Calls = {c1}
  Pairs <- Round
  Amounts = {1}
  Funds = 1
  Leverages <- TwoWays
  Modes = {isolated}
  crossed = crossed
  FirstSetting <- Start
  Environs <- Given
  DefaultTimeout = 30
  MaxLives = 1
SPECIFICATION SessionSpec
CHECK_DEADLOCK FALSE
INVARIANTS
  ShutdownFlushes

CONSTANTS
  Calls = {c1, c2}
  Pairs <- Round
  Amounts = {1}
  Funds = 1
  Leverages <- TwoWays
  Modes = {isolated}
  crossed = crossed
  FirstSetting <- Start
  Environs <- Given
  DefaultTimeout = 30
  MaxLives = 2
SPECIFICATION SessionSpec
SYMMETRY Symmetry
CHECK_DEADLOCK FALSE
INVARIANTS
  SessionTypeOK
  Reconcilable
  SettingsExplained
  EnvironmentHonest
  LogComplete

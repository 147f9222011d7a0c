\* The clock ends.
SPECIFICATION AlertsSpec
CONSTANTS
  Tokens <- MCTokens
  AlertCap = 1
  AlertCooldown = 1
  AlertDay = 2
  MaxAlertTime = 9
  MaxAlertCrashes = 0
INVARIANT EveryMoveTold
CHECK_DEADLOCK FALSE

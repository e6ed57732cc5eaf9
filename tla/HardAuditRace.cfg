SPECIFICATION LiveSpec
CONSTANTS
  Keys = {k1}
  Workers = {w1, w2}
  MaxEpoch = 1
  Required = 1
  DbRequired = 1
  MaxGen = 0
  MaxCrashes = 0
  MaxLag = 1
  MaxEvents = 3
  Grace = {FALSE}
  ModelSwitches = FALSE
  IdentityClears = FALSE
  Gates = {FALSE}
  HardAuditor = TRUE
  LowerCase = TRUE
  FailThreshold = 2
  CleanThreshold = 2
PROPERTIES
  FailureIsImmediate
\* The bounds on epochs and events let the system stop.
CHECK_DEADLOCK FALSE

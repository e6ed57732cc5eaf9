SPECIFICATION LiveSpec
CONSTANTS
  Keys = {k1}
  Workers = {w1}
  MaxEpoch = 1
  Required = 2
  DbRequired = 2
  MaxGen = 1
  MaxCrashes = 2
  MaxLag = 1
  MaxEvents = 1
  Grace = {FALSE}
  ModelSwitches = FALSE
  IdentityClears = FALSE
  Gates = {FALSE}
  HardAuditor = TRUE
  LowerCase = TRUE
  FailThreshold = 2
  CleanThreshold = 1
PROPERTIES
  ResetApplied
\* The bounds on epochs and events let the system stop.
CHECK_DEADLOCK FALSE

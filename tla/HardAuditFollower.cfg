SPECIFICATION Spec
CONSTANTS
  Keys = {k1, k2}
  Workers = {w1}
  MaxEpoch = 2
  Required = 2
  DbRequired = 2
  MaxGen = 0
  MaxCrashes = 0
  MaxLag = 1
  MaxEvents = 1
  Grace = {TRUE, FALSE}
  ModelSwitches = FALSE
  IdentityClears = FALSE
  Gates = {TRUE, FALSE}
  HardAuditor = FALSE
  LowerCase = TRUE
  FailThreshold = 2
  CleanThreshold = 2
INVARIANTS
  DbTracksTracker
\* The bounds on epochs and events let the system stop.
CHECK_DEADLOCK FALSE

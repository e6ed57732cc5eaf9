SPECIFICATION Spec
CONSTANTS
  Keys = {k1}
  Workers = {w1}
  MaxEpoch = 2
  Required = 2
  DbRequired = 2
  MaxGen = 0
  MaxCrashes = 0
  MaxLag = 1
  MaxEvents = 3
  Grace = {FALSE}
  ModelSwitches = TRUE
  IdentityClears = TRUE
  Gates = {FALSE}
  HardAuditor = TRUE
  LowerCase = TRUE
  FailThreshold = 2
  CleanThreshold = 2
INVARIANTS
  TypeOK
  LedgerReloads
  DbTracksTracker
  CountsOnce
PROPERTIES
  FailureLeavesProbation
\* The bounds on epochs and events let the system stop.
CHECK_DEADLOCK FALSE

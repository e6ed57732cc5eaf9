SPECIFICATION LiveSpec
CONSTANTS
  Obls = {o1}
  Full = {o1}
  Hard = {o1}
  Workers = {w1, w2}
  MaxEpoch = 2
  FullAttempts = 2
  MaxTries = 2
  Faults = FALSE
  SetupFails = FALSE
  SlowSetup = FALSE
  Drains = FALSE
INVARIANTS
  TypeOK
  MissIsMinersFault
PROPERTIES
  StartedTerminates
\* The last epoch explored ends with nothing left to do.
CHECK_DEADLOCK FALSE

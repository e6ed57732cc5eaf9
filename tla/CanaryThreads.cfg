SPECIFICATION Spec
CONSTANTS
  Obls = {o1}
  Full = {}
  Hard = {}
  Workers = {w1, w2}
  MaxEpoch = 1
  FullAttempts = 2
  MaxTries = 2
  Faults = TRUE
  SetupFails = TRUE
  SlowSetup = TRUE
  Drains = TRUE
SYMMETRY WorkerSymmetry
INVARIANTS
  MissIsExplained
  OneExecution
  EpochWorkIsBusy
\* The last epoch explored ends with nothing left to do.
CHECK_DEADLOCK FALSE

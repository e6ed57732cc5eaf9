SPECIFICATION LiveSpec
CONSTANTS
  None = None
  m1 = m1
  v1 = v1
  Addrs = {m1, v1}
  Uids = {0, 1}
  Validators = {1}
  Lookup <- ValidatorLookup
  Models = {"q4", "r4"}
  Endpoints = {"e1"}
  Contexts = {"c1", "c2"}
  Lease = 2
  Grace = 0
  OfflineThreshold = 1
  MaxModels = 2
  MaxTime = 3
  MaxCalls = 1
  Miner = m1
  Uid = 0
  Interval = 1
  Margin = 0
  MaxRetries = 2
  ModelId <- ModelIds
  Unseen = FALSE
  MoveFlags = {FALSE}
  MaxCrashes = 1
INVARIANTS
  LeaseTypeOK
  HasIndex
  UniqueEntry
  OneModelServed
  SleepsWithinLease
PROPERTIES
  Relisted
\* The bounds on time and kills let the system come to rest.
CHECK_DEADLOCK FALSE

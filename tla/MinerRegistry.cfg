SPECIFICATION Spec
CONSTANTS
  None = None
  m1 = m1
  m2 = m2
  e1 = e1
  e2 = e2
  Addrs = {m1, m2}
  Uids = {0, 1}
  Validators = {0, 1}
  Lookup <- NoLookup
  Models = {"q1"}
  Endpoints = {e1, e2}
  Contexts = {"c1"}
  Lease = 1
  Grace = 1
  OfflineThreshold = 2
  MaxModels = 2
  MaxTime = 3
  MaxCalls = 9
SYMMETRY Symmetry
INVARIANTS
  TypeOK
  BindingIsInverse
  OwnerHasEntry
  ReportsCounted
PROPERTIES
  LeaseKept
\* The bound on time lets the contract come to rest.
CHECK_DEADLOCK FALSE

SPECIFICATION Spec
CONSTANTS
  None = None
  Lead = 1
  ProofDelay = 2
  Deadline = 1
  PayloadDeadline = 0
  Receipts = {"r1"}
  Payloads = {"p1"}
  FinalityLag = 1
  MaxBlock = 5
  MaxLag = 2
  MaxRestarts = 1
INVARIANTS
  TypeOK
  PenaltyOnce
  PenaltyStarted
  GateStands
  MissIsLate
  CommitBeforeChallenge
PROPERTIES
  AckedIsNotMissing
\* The chain stops growing at MaxBlock.
CHECK_DEADLOCK FALSE

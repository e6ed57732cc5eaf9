SPECIFICATION LiveSpec
CONSTANTS
  None = None
  PrecommitBudget = 1
  RevealWindow = 1
  HardBudget = 2
  HoldBudgets = {None, 2}
  TimeLimit = 8
  MaxTime = 7
  MaxTokens = 2
  Others = {"expire", "abort", "fail_closed"}
INVARIANTS
  TypeOK
  DisclosedIsSettled
  SessionClosed
  VerifiedIsTimely
  BlameIsExplained
PROPERTIES
  OneShot
  ExchangeEnds
\* An exchange that ended does nothing more.
CHECK_DEADLOCK FALSE

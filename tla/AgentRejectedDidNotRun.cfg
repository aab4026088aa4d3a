SPECIFICATION Spec
CONSTANTS
  Requests = {r1, r2, r3, r4}
  Operations = {"approve", "reject"}
  MaxTurns = 3
  MaxInFlight = 2
  RestartBudget = 0
  ForeignKeys = TRUE
INVARIANT RejectedDidNotRun
CHECK_DEADLOCK FALSE

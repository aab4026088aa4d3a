SPECIFICATION Spec
CONSTANTS
  Requests = {r1, r2, r3, r4, r5, r6}
  Operations = {"approve", "reject", "cancel", "delete"}
  MaxTurns = 4
  MaxInFlight = 1
  RestartBudget = 0
  ForeignKeys = FALSE
SYMMETRY RequestSymmetry
PROPERTIES ImplementsApproval
CHECK_DEADLOCK FALSE

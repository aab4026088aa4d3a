SPECIFICATION FairSpec
CONSTANTS
  Requests = {r1, r2, r3, r4}
  Operations = {"approve", "reject", "cancel", "delete"}
  MaxTurns = 2
  MaxInFlight = 2
  RestartBudget = 1
  ForeignKeys = FALSE
INVARIANTS ExecutedDidRun NoStrandedRun RanIsDecided
PROPERTIES DecisionsAreFinal RunSettles
CHECK_DEADLOCK FALSE

SPECIFICATION FairSpec
CONSTANTS
  Servers = {s1}
  Goroutines = {g1, g2}
  Callers = {t1, t2}
  Operations = {"test", "disconnect", "delete"}
  None = none
INVARIANTS MapHoldsTheRunning OnlyOwedSamples
PROPERTIES CancelledEnds
CHECK_DEADLOCK FALSE

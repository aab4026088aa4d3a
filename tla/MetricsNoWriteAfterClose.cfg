SPECIFICATION Spec
CONSTANTS
  Servers = {s1}
  Goroutines = {g1, g2}
  Callers = {t1}
  Operations = {"test"}
  None = none
INVARIANT NoWriteAfterClose
CHECK_DEADLOCK FALSE

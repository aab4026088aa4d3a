SPECIFICATION Spec
CONSTANTS
  Callers = {t1, t2}
  Conns = {k1, k2}
  Probes = {p1}
  Hosts = {h1, h2}
  Operations = {"run", "update"}
  Servers = {s1}
  Temp = temp
  None = none
SYMMETRY PoolSymmetry
INVARIANT UpdateLeavesNoStale
CHECK_DEADLOCK FALSE

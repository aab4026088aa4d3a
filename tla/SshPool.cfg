SPECIFICATION FairSpec
CONSTANTS
  Callers = {t1, t2}
  Conns = {k1, k2}
  Probes = {p1}
  Hosts = {h1}
  Operations = {"timed", "collect", "terminal", "reboot", "test", "update", "disconnect", "delete"}
  Servers = {s1}
  Temp = temp
  None = none
INVARIANTS PoolIsNotClosed LostOnlyByDisplacement
PROPERTIES DeadIsRemoved GoneFreesCallers
CHECK_DEADLOCK FALSE

SPECIFICATION Spec
CONSTANTS
  Clients = {c1, c2}
  Rooms = {p1}
  Broadcasts = {b1}
  QueueSize <- Capacities
SYMMETRY HubSymmetry
INVARIANT BroadcastReachesRoom
CHECK_DEADLOCK FALSE

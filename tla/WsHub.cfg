SPECIFICATION Spec
CONSTANTS
  Clients = {c1, c2}
  Rooms = {p1, p2}
  Broadcasts = {b1, b2}
  QueueSize <- Capacities
SYMMETRY HubSymmetry
INVARIANTS IndexesAgree OnlyMembersReceive RangeIsComplete InOrder
CHECK_DEADLOCK FALSE

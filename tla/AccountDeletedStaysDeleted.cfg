SPECIFICATION Spec
CONSTANTS
  u1 = u1
  u2 = u2
  s1 = s1
  s2 = s2
  Users = {u1}
  Sockets = {s1}
  Owner <- OneOwner
  Requests = {r1, r2}
  Operations = {"delete", "profile"}
PROPERTY DeletedStaysDeleted
CHECK_DEADLOCK FALSE

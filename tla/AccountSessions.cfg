SPECIFICATION FairSpec
CONSTANTS
  u1 = u1
  u2 = u2
  s1 = s1
  s2 = s2
  Users = {u1, u2}
  Sockets = {s1, s2}
  Owner <- TwoOwners
  Requests = {r1, r2}
  Operations = {"deactivate", "reactivate", "edit", "delete", "profile", "sso"}
INVARIANTS NoSocketEscapes CutBeforeResponse SweepIsJustified
PROPERTY OutcastsAreCutOff
CHECK_DEADLOCK FALSE

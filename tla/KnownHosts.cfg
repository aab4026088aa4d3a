SPECIFICATION HostsSpec
CONSTANTS
  Dialers = {d1, d2, d3}
  name = name
  ip = ip
  Addresses <- MCAddresses
  Remote <- MCRemote
  Keys = {k1, k2}
INVARIANTS AcceptedIsRecorded LaterIsChecked
CHECK_DEADLOCK FALSE

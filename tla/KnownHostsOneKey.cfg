SPECIFICATION HostsSpec
CONSTANTS
  Dialers = {d1, d2}
  name = name
  ip = ip
  Addresses <- MCAddresses
  Remote <- MCRemote
  Keys = {k1, k2}
PROPERTY OneKeyPerAddress
CHECK_DEADLOCK FALSE

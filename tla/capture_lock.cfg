SPECIFICATION Spec
CONSTANTS
  d1 = d1
  d2 = d2
  AllDevices = AllDevices
  Device = {d1, d2}
  Addressed = {d1, d2}
  Packet <- FewPackets
  ChanSize = 2
  MaxPackets = 2
  Watched = {}
INVARIANT LocksOn
CHECK_DEADLOCK FALSE

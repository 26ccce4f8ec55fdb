SPECIFICATION FairSpec
CONSTANTS
  d1 = d1
  d2 = d2
  AllDevices = AllDevices
  Device = {d1, d2}
  Addressed = {d1, d2}
  Packet <- Packets
  ChanSize = 2
  MaxPackets = 2
  Watched = {d1}
INVARIANTS InOrderAndComplete NotOverlooked
PROPERTIES RunReturns DevicesEnd WaitAnswers
CHECK_DEADLOCK FALSE

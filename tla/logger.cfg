SPECIFICATION FairSpec
CONSTANTS
  d1 = d1
  d2 = d2
  NoOne = NoOne
  AllDevices = AllDevices
  Device = {d1, d2}
  Flags <- SomeFlags
  Packet <- Packets
  MaxPackets = 2
  DiskMayFail = TRUE
INVARIANTS CountMatchesLog ReportIsExact
PROPERTIES LootIsLogged WarnsWithoutLoot InterruptEnds
CHECK_DEADLOCK FALSE

SPECIFICATION SFairSpec
CONSTANTS
  d1 = d1
  d2 = d2
  Sig = Sig
  Data = Data
  Zero = Zero
  NoOne = NoOne
  Device = {d1, d2}
  Packet <- AllPackets
  Byte <- AllBytes
  MaxPackets = 3
INVARIANTS
  TypeOK
  Exclusive
  CountsMatchCalls
  DecodedWithinMessages
PROPERTIES
  ParseIsAtomic
  ParseReturns
CHECK_DEADLOCK FALSE

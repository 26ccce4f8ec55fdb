SPECIFICATION Spec
CONSTANTS
  m1 = m1
  m2 = m2
  m3 = m3
  Junk = Junk
  Zero = Zero
  Msg <- TwoMsg
  StartSeqOf <- DistinctSeq
  Count <- MCCount
  Cut <- MCCut
  Noise <- WildNoise
  MaxCaptures = 2
  MaxNoise = 1
INVARIANTS
  CleanWhole
  CleanHandedOver
  CleanOnce
  CleanBuffered
  HolesOnly
  IInv
PROPERTY WholeMessagesSpec
CHECK_DEADLOCK FALSE

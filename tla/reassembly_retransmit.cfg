SPECIFICATION Spec
CONSTANTS
  m1 = m1
  m2 = m2
  m3 = m3
  Junk = Junk
  Zero = Zero
  Msg <- TwoMsg
  StartSeqOf <- DistinctSeq
  Count <- MCCount
  Cut <- MCCut
  Noise <- NoNoise
  MaxCaptures = 2
  MaxNoise = 1
INVARIANT BodiesReassembled
CHECK_DEADLOCK FALSE

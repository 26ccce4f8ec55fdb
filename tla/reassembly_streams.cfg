SPECIFICATION Spec
CONSTANTS
  m1 = m1
  m2 = m2
  m3 = m3
  Junk = Junk
  Zero = Zero
  Msg <- ThreeMsg
  StartSeqOf <- SharedSeq
  Count <- MCCount
  Cut <- MCCut
  Noise <- NoNoise
  MaxCaptures = 1
  MaxNoise = 1
INVARIANT BodiesUnmixed
CHECK_DEADLOCK FALSE

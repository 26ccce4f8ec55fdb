SPECIFICATION WSpec
CONSTANTS
  IntBits = 20
  LongBits = 27
  MaxCollectionElements = 4
  Truncated <- Zero
  Printed <- ZeroOrOther
  Keys = {1, 5, 252, 253}
  Values <- AllValues
  Followers <- FewValues
  Tails <- SomeTails
  MaxCut = 12
  MaxNesting = 4
  MaxParameters = 2
  Sending <- AllWays
  Another <- MobEvent
  Begun <- MobBegun
INVARIANTS
  TypeOK
  NumbersAsSent
  
  DispatchedAsSent
CHECK_DEADLOCK FALSE

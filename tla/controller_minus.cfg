SPECIFICATION Spec
CONSTANTS
  Width = 8
  NamesRead <- FewNames
  Caller = {1}
  Event <- MinusEvents
  MaxEvents = 2
INVARIANT NonNumericArePlayers
CHECK_DEADLOCK FALSE

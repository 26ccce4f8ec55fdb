SPECIFICATION Spec
CONSTANTS
  Width = 8
  NamesRead <- ShortNames
  Caller = {1, 2}
  Event <- Events
  MaxEvents = 3
INVARIANTS
  CountedOnce
  KnownMobs
  OnlyMobs
  DecimalsNameMobs
CHECK_DEADLOCK FALSE

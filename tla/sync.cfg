SPECIFICATION FairSpec
CONSTANTS
  Unset = Unset
  None = None
  Upstream <- Versions
  Uses <- SomeUses
  MaxFailures = 1
  MaxCommits = 1
INVARIANTS
  MainBuilds
  NumberedAsUpstream
PROPERTIES
  TablesFollow
  ChangesSeen
CHECK_DEADLOCK FALSE

SPECIFICATION FairSpec
CONSTANTS
  None = None
  MaxBuilds = 2
  NameRank <- Descending
  Foreign = TRUE
  MaxFaults = 1
INVARIANTS TypeOK ReadyImageDeployed
PROPERTIES   DeletedAppLeavesNothing
CHECK_DEADLOCK FALSE

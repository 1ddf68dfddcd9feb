SPECIFICATION FairSpec
CONSTANTS
  None = None
  MaxBuilds = 2
  Worlds <- TwoWorlds
INVARIANTS StartedOnce GateSparesStarted VerdictIsTheJobs NoOrphanJob
PROPERTIES RefinesBuildRecord BuildSettles DeletionCompletes
CHECK_DEADLOCK FALSE

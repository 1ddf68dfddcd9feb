SPECIFICATION FairSpec
CONSTANTS
  d1 = d1  d2 = d2
  None = None
  Domains = {d1, d2}
  NameRank <- ByName
  Hosts = {"h1"}
  Apps = {"x1"}
  MaxBorn = 2
  MaxDeletes = 1
  MaxFaults = 1
INVARIANT TypeOK
PROPERTIES HostGoesToOldest 
CHECK_DEADLOCK FALSE

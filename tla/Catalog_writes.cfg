SPECIFICATION Spec
CONSTANTS
  None = None
  Requests = {"r1", "r2"}
  DatabaseNames = {"x", "x-credentials"}
  EnvSets = {{"A"}, {"B"}}
  Sizes = {1, 2}
  MaxUid = 7
  MaxRequests = 5
  MaxFaults = 1
INVARIANTS NamesSound SourceQueued
PROPERTIES ConnectsWhole EditsKept
CHECK_DEADLOCK FALSE

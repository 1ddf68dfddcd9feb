SPECIFICATION Spec
CONSTANTS
    N = 3
    Seeds = {"none", "seed"}
    MaxFaults = 2
    MaxMisreads = 0
    MaxMints = 1
    MaxValues = 10
INVARIANT ClusterSound
  
CHECK_DEADLOCK FALSE

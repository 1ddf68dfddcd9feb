SPECIFICATION Spec
CONSTANTS
    N = 1
    Seeds = {"none", "seed"}
    MaxFaults = 1
    MaxMisreads = 0
    MaxMints = 0
    MaxValues = 10
INVARIANT Converged
CHECK_DEADLOCK FALSE

SPECIFICATION DoctorSpec
CONSTANTS
    MaxChecks = 3
    Walks = {"a", "b"}
    Fixable = {1, 2}
    MaxBatches = 2
    MinLeakBatches = 2
    MaxOutages = 1
INVARIANT VerdictsEarned
PROPERTIES EngineIsHonest DoctorsTidy
CHECK_DEADLOCK FALSE

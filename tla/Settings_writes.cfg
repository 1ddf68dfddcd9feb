SPECIFICATION Spec
CONSTANTS
    Edits = {e1, e2}
    Lists = {{"r1"}, {"R1"}, {"r2"}, {"?"}}
    MaxMishaps = 2
    Flows = {"a", "b"}
    First = "a"
    Callers = {"c1", "c2"}
    ExpiryGuard = 2
    Lifetime = 4
    MaxClock = 4
    MaxTroubles = 1
INVARIANTS ConnectSound AuditIsTrue
PROPERTY TokensServe
CHECK_DEADLOCK FALSE

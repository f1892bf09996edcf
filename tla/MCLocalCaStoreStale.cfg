CONSTANTS
    p1 = p1  p2 = p2  p3 = p3
    Process = {p1, p2}
    NoOne = NoOne
    LOCAL_CA_LOCK_ATTEMPTS = 2
    Aging = "abandoned"
    MaxMade = 3
    MaxFaults = 1
SPECIFICATION Spec
INVARIANTS OneAuthority

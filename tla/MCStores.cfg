SPECIFICATION StoresSpec
CONSTANTS
    p1 = p1  p2 = p2  p3 = p3
    Process = {p1, p2, p3}
    NoOne = NoOne
    LOCAL_CA_LOCK_ATTEMPTS = 2
    Aging = "none"
    MaxMade = 3
    MaxFaults = 2
    canonical = canonical  other = other
    b1 = b1  b2 = b2  s1 = s1  h1 = h1
    NONE = NONE
    FOREIGN = FOREIGN
    Manifests = {canonical, other}
    CANONICAL = {canonical}
    Browsers = {b1, b2}
    Stores = {s1}
    Payloads = {h1}
    MaxCa = 2
SYMMETRY Renaming
INVARIANTS TypesOK OneAuthority AnchorsAreRecorded
PROPERTIES OutcomesAreExact
CHECK_DEADLOCK FALSE

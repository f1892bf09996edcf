SPECIFICATION FairSpec
CONSTANTS
    r1 = r1
    r2 = r2
    rootA = rootA
    rootB = rootB
    Request = {r1, r2}
    Root = {rootA, rootB}
    NoRoot = NoRoot
    MaxGeneration = 2
    MaxRevision = 1
    Crowd = {r2}
    CrowdRoot = {rootA}
    MAX_PENDING_CANONICAL_STATUSES = 1
CHECK_DEADLOCK FALSE
INVARIANTS TypeOK StatusNamesItsPolicy
PROPERTIES PublishedUnderItsStamp StaleStampsStayStale RequestEnds

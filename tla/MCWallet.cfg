SPECIFICATION WalletSpec
CONSTANTS
    h1 = h1  h2 = h2
    Hosts = {h1, h2}
    Configuration <- MCConfiguration
    Documents <- MCDocuments
    ManifestFiles <- MCManifestFiles
    ArtifactFiles <- MCArtifactFiles
    Contents = {"x", "y"}
    Absent = Absent
    Nobody = Nobody
    NATIVE = {"x", "y"}
    MAX_ANTI_ROLLBACK_RELEASE_LINES = 2
    MaxInstalls = 4
    MaxFaults = 1
    w1 = w1  w2 = w2
    Wallets = {w1, w2}
    NONE = NONE
    ADMITTED = {"reads", "authority", "value"}
    MaxGeneration = 3
    MaxSequence = 7
    MaxChanges = 2
    x1 = x1  y1 = y1  o1 = o1  d1 = d1
    Names = {n1}
    Envelopes = {x1, x2}
    Delegations = {y1, y2}
    Endpoints = {e1}
    Operators = {o1, o2}
    Digests = {d1, d2}
    EndpointLimit = 1
    OperatorLimit = 1
    MaxNumber = 2
    MaxTime = 1
    MaxCommits = 4
INVARIANTS TypesOK AdmittedIsDurable
PROPERTIES NoRollback OnlyTheCurrentReleaseStarts ServicesAreSeparate AuthorityHeldInUse PoolStatsNeverGoBack
CHECK_DEADLOCK FALSE

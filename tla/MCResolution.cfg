SPECIFICATION ResolutionSpec
CONSTANTS
    NONE = NONE
    Exists <- MCExists
    Zones <- MCZones
    MaxAliases = 2
    Requests = {"c1", "c2"}
    Settings <- MCSettings
    Roots = {r1, r2}
    Queries = {q1}
    Peers = {p1, p2}
    Seeds = {p1}
    Height <- MCHeight
    MaxLookups <- MCLookups
    MaxExchanges = 1
    MaxWrites = 1
    t1 = t1
    Trees = {t1, t2}
    MaxEpoch = 2
SYMMETRY Renaming
INVARIANTS TypesOK DohIsTheLastResort RelayStateIsSound OneNamespacePerOrigin PlansAreCoherent
 
PROPERTIES PenaltiesAreSound DeliveredIsCurrent

SPECIFICATION Spec
CONSTANTS
    canonical = canonical
    other = other
    b1 = b1
    b2 = b2
    s1 = s1
    p1 = p1
    NONE = NONE
    FOREIGN = FOREIGN
    Manifests <- MCManifests
    CANONICAL <- MCNone
    Browsers <- MCBrowsers
    Stores <- MCStores
    Payloads <- MCPayloads
    MaxCa = 2
SYMMETRY Renaming
INVARIANTS RepairRecovers

SPECIFICATION Spec
CONSTANTS
    Exists <- MCExists
    Zones <- MCZones
    MaxAliases = 2
    NONE = NONE
PROPERTIES HnsPresenceIsNotAbsence

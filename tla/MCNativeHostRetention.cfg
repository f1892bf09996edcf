CONSTANTS
    MAX_EPOCH = 3
    MAX_RECENT_SECURITY_RESULTS = 2
    MaxGeneration = 1
    MaxPolicy = 1
    MaxEvents = 1
    MaxFlight = 1
SPECIFICATION Spec
PROPERTIES SyncDiscardsOnlyStaleResults
CHECK_DEADLOCK FALSE

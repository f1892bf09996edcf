SPECIFICATION HostSpec
CONSTANTS
    MAX_EPOCH = 2
    MAX_RECENT_SECURITY_RESULTS = 2
    MaxGeneration = 2
    MaxPolicy = 1
    MaxEvents = 3
    MaxFlight = 2
    a = a  b = b
    Client = {a, b}
    Live = {1, 2}
    MaxControl = 3
    MaxHung = 2
    MaxRevision = 5
INVARIANTS TypesOK ObservationsAreOrdered ShownIsOfOneTuple GivenUpIsRepaired
PROPERTIES MainFrameNeverRegresses OkMeansSelected
CHECK_DEADLOCK FALSE

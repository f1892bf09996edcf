SPECIFICATION RecoverySpec
CONSTANTS
    a = a  b = b  syncer = syncer  other = other
    genesis = genesis  chainX = chainX  rootX = rootX
    NoRoot = NoRoot  NoChain = NoChain  Pending = Pending
    Process = {a, b}
    Thread = {syncer, other}
    Home <- TwoProcesses
    Duties <- CrashDuties
    Chain = {genesis, chainX}
    Genesis = genesis
    RootOf <- OneRoot
    Endpoint = {}
    MAX_GENERATION = 2
    MAX_EPOCH = 3
    MaxFaults = 1
    OneByOne = FALSE
    NoOne = NoOne
    LOCAL_CA_LOCK_ATTEMPTS = 2
    Aging = "abandoned"
    MaxMade = 4
    MaxDeaths = 2
 
PROPERTIES GenerationsAreNotReused HeadersRecover AuthorityIsCreated

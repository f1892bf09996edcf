CONSTANTS
    a = a  b = b  syncer = syncer  other = other  browser = browser
    genesis = genesis  chainX = chainX  chainY = chainY
    rootX = rootX  rootY = rootY  e1 = e1
    NoRoot = NoRoot  NoChain = NoChain  Pending = Pending
    Process = {a, b}
    Thread = {syncer, other, browser}
    Home <- TwoProcesses
    Duties <- LockDuties
    Chain = {genesis, chainX}
    Genesis = genesis
    RootOf <- OneRoot
    Endpoint = {e1}
    MAX_GENERATION = 1
    MAX_EPOCH = 2
    MaxFaults = 0
    OneByOne = TRUE
SPECIFICATION UndisturbedSpec
INVARIANTS NoCircularWait

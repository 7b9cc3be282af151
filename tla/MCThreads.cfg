SPECIFICATION Spec
CONSTANTS
    j1 = j1
    j2 = j2
    j3 = j3
    j4 = j4
    w1 = w1
    w2 = w2
    w3 = w3
    data = data
    local = local
    r1 = r1
    r2 = r2
    p1 = p1
    p2 = p2
    p3 = p3
    None = None
    Jobs = {j1, j2, j3, j4}
    Types = {data, local}
    TypeOf <- MCTypeOf
    Limit <- MCLimit
    Priority <- MCPriority
    Threads = {w1, w2, w3}
    NoJob = None
    Sites = {0, 1}
    refreshInterval = 2
    error_retry_interval = 1
    requestTimeout_ = 1
    max_redirects = 1
    MaxOverdue = 1
    MayStop = TRUE
    StateNodes = {"root", "leaf"}
    TxNodes = {"tx"}
    StateRoot = "root"
    TxRoot = "tx"
    Header = "header"
    Runners = {w1, w2}
    Reasons = {"generic"}
    ledgerTimeoutRetriesMax = 1
    ledgerBecomeAggressiveThreshold = 0
    MaxPackets = 2
    MaxStale = 1
    MaxNewPeers = 2
SYMMETRY Symmetry
INVARIANTS
    TaskHasJob
    StoppedIsIdle
    OneCallPerTask
    
    OneChain
    CompleteIsWhole
    DataHasTaker

SPECIFICATION Spec
CONSTANTS
    peer1 = peer1
    peer2 = peer2
    acct1 = acct1
    acct2 = acct2
    x = x
    y = y
    z = z
    Callers = {c1, c2}
    MaxSeq = 3
    Malformed = {3}
    FailHard = {2}
    LowFee = {TRUE, FALSE}
    Job = Job
    None = None
    MaxSubmits = 3
    MaxCloses = 1
    Keys = {k}
    Others = {o}
    Peers = {peer1, peer2}
    Flags = {flagBad}
    holdTime_ = 2
    tx_interval = 2
    recoverLimit = 1
    Never = None
    MaxTime = 3
SYMMETRY Symmetry
INVARIANTS
    ApplyingAccounted
    
    
PROPERTIES
    RelayedOncePerHold
    NonePassedOver
    

SPECIFICATION ServerSpec
CONSTANTS
    p1 = p1
    p2 = p2
    p3 = p3
    t1 = t1
    t2 = t2
    L1 = L1
    L2 = L2
    Servers = {TRUE, FALSE}
    Peers = {p1}
    Txs = {t1}
    TxSets <- TwoSets
    Ledgers = {L1, L2}
    LedgerInfo <- MCLedgerInfo
    CloseTimes = {36}
    ProposeSeqs = {0}
    seqLeave = 99
    NoProposal = NoProposal
    MaxRecent = 2
    useRoundedCloseTime = TRUE
    standalone = FALSE
    StartTime = 34
    MaxClock = 35
    LastReceipt = 35
    MaxProposals = 2
    MaxRounds = 2
    MaxDepth = 2
    ledgerIDLE_INTERVAL = 2
    ledgerMIN_CONSENSUS = 0
    ledgerMAX_CONSENSUS = 0
    ledgerMIN_CLOSE = 1
    avMIN_CONSENSUS_TIME = 2
    proposeFRESHNESS = 1
    proposeINTERVAL = 1
    TenMinutes = 600
SYMMETRY Symmetry
CHECK_DEADLOCK FALSE
INVARIANTS
    PositionsAreCurrent
    WrongLedgerIsKnown
    ProposalsIncrease
PROPERTIES
    AcceptedIsFrozen

SPECIFICATION ServerSpec
CONSTANTS
    p1 = p1
    p2 = p2
    p3 = p3
    t1 = t1
    t2 = t2
    L1 = L1
    L2 = L2
    Servers = {FALSE}
    Peers = {p1, p2}
    Txs = {t1}
    TxSets <- TwoSets
    Ledgers = {L1}
    LedgerInfo <- MCLedgerInfo
    CloseTimes = {33, 36}
    ProposeSeqs = {0}
    seqLeave = 99
    NoProposal = NoProposal
    MaxRecent = 1
    useRoundedCloseTime = TRUE
    standalone = FALSE
    StartTime = 33
    MaxClock = 36
    LastReceipt = 35
    MaxProposals = 2
    MaxRounds = 1
    MaxDepth = 1
    ledgerIDLE_INTERVAL = 2
    ledgerMIN_CONSENSUS = 0
    ledgerMAX_CONSENSUS = 1
    ledgerMIN_CLOSE = 1
    avMIN_CONSENSUS_TIME = 3
    proposeFRESHNESS = 2
    proposeINTERVAL = 1
    TenMinutes = 600
SYMMETRY Symmetry
INVARIANTS
    TypeOK
    VotesFollowPositions
    DisputesCoverDifferences
    AcceptedIsAgreed
    AcceptedCloseTimeIsAgreed
CHECK_DEADLOCK FALSE

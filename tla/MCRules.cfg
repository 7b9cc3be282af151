SPECIFICATION RulesSpec
CONSTANTS
    CloseTimes <- MCCloseTimes
    MaxSeq = 17
    Times <- MCTimes
    MaxVotes = 4
    Peers = {p1, p2, p3, p4, p5}
    Percents = {0, 49, 50, 84, 85, 199, 200}
    ledgerIDLE_INTERVAL = 15
    ledgerMIN_CONSENSUS = 2
    ledgerMAX_CONSENSUS = 10
    ledgerMIN_CLOSE = 2
    avMIN_CONSENSUS_TIME = 5
    proposeFRESHNESS = 20
    proposeINTERVAL = 12
    TenMinutes = 600
    NoMaximum = NoMaximum
SYMMETRY PeerSymmetry
CHECK_DEADLOCK FALSE
INVARIANTS
    LoopFindsWinner
    TallyIsRight
    FeesExact
    CloseTimeAdvances
    SettledStaysNo

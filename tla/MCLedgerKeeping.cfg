SPECIFICATION Spec
CONSTANTS
    p1 = p1
    p2 = p2
    l1 = l1
    l2 = l2
    v1 = v1
    v2 = v2
    v3 = v3
    n1 = n1
    n2 = n2
    Callers = {p1, p2}
    Workers = {w1}
    Ledgers = {l1, l2}
    SeqOf <- MCSeqOf
    NoLedger = NoLedger
    MaxJobs = 1
    Keys = {p1, p2}
    MaxSeq = 3
    MaxDirs = 4
    deleteInterval = 1
    deleteBatch = 2
    advisoryDelete = TRUE
    Grants = {0, 1}
    EntriesAge = TRUE
SYMMETRY Symmetry
INVARIANTS
    SavesOwned
    
    
PROPERTIES
    HistoryMovesOn

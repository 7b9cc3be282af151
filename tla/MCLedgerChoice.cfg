SPECIFICATION Spec
CONSTANTS
    Ledgers <- MCLedgers
    v1 = v1
    v2 = v2
    v3 = v3
    v4 = v4
    n1 = n1
    n2 = n2
    valA = valA
    valB = valB
    valC = valC
    pub1 = pub1
    pub2 = pub2
    None = None
SYMMETRY Symmetry
CHECK_DEADLOCK FALSE
INVARIANTS
    PreferredIsRight
    NeverSidesteps
    
    ListingsExact
PROPERTIES
    ImplementsSupport

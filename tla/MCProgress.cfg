SPECIFICATION Spec
CONSTANTS
    p1 = p1
    p2 = p2
    w1 = w1
    w2 = w2
    one = one
    v1 = v1
    n1 = n1
    n2 = n2
    j1 = j1
    j2 = j2
    j3 = j3
    data = data
    local = local
    r1 = r1
    r2 = r2
    c1 = c1
    c2 = c2
    Job = Job
    None = None
    Jobs = {j1, j2, j3}
    Types = {data, local}
    TypeOf <- MCTypeOf
    Limit <- MCLimit
    Priority <- MCPriority
    Threads = {w1, w2}
    NoJob = None
    MayAsk = FALSE
PROPERTIES
    ImplementsPool
    
    
CHECK_DEADLOCK FALSE

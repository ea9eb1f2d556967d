SPECIFICATION MCSpec
CONSTANTS
    None = None
    k1 = k1
    k2 = k2
    k3 = k3
    k4 = k4
    h1 = h1
    h2 = h2
    h3 = h3
    h4 = h4
    h5 = h5
    t1 = t1
    t2 = t2
    t3 = t3
    i1 = i1
    i2 = i2
    n1 = n1
    n2 = n2
    n3 = n3
    n4 = n4
    w1 = w1
    l1 = l1
    e1 = e1
    r1 = r1
    r2 = r2
CHECK_DEADLOCK FALSE
SYMMETRY Symmetry
INVARIANTS
    SettingsReachCache
    
    SizesExact
    NodesMatchEntries
    OperationSent
PROPERTIES
    NothingStaleReplaced

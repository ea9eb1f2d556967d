SPECIFICATION MCSpec
CONSTANTS
    None = None
    t1 = t1
    t2 = t2
    t3 = t3
    u1 = u1
    u2 = u2
    k1 = k1
    k2 = k2
    v1 = v1
    v2 = v2
    h1 = h1
    h2 = h2
    h3 = h3
    a1 = a1
    a2 = a2
    b1 = b1
    e1 = e1
    d1 = d1
    Nodes = {n1, n2, n3, n4}
    Null = Null
    Done = Done
SYMMETRY Symmetry
INVARIANTS
    ListValid
    BucketsFreedOnce
    KeysComplete
    LocksCounted
    CountersAgree
    RunsHappen
    ScanSound
PROPERTIES
    ImplementsList
    ImplementsMap

SPECIFICATION LiveSpec
CONSTANTS
    None = None
    Done = Done
    Sentinel = Sentinel
    t1 = t1
    t2 = t2
    t3 = t3
    k1 = k1
    k2 = k2
    e1 = e1
    e2 = e2
    v1 = v1
    v2 = v2
CHECK_DEADLOCK FALSE
PROPERTIES
    EveryCallReturns
    Settles

SPECIFICATION MCSpec
CONSTANTS
    None = None
    k1 = k1
    t1 = t1
    t2 = t2
    s1 = s1
    s2 = s2
    r1 = r1
    e1 = e1
    e2 = e2
    Sentinel = Sentinel
CHECK_DEADLOCK FALSE
SYMMETRY Symmetry
INVARIANTS
    
    TimersMatch
    WheelSound
    GenerationsKept

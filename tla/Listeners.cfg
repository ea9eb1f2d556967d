SPECIFICATION MCSpec
CONSTANTS
    None = None
    t1 = t1
    t2 = t2
    maint = maint
    k1 = k1
    k2 = k2
    Threads = {a1, a2, a3, a4}
    MAX_REFCOUNT = 7
    Wrap = 16
    MaxHandles = 17
CHECK_DEADLOCK FALSE
SYMMETRY Symmetry
INVARIANTS
    Counted
    ToldOnce
    OrderAndCause
    ChangesAreTracked

SPECIFICATION MCSpec
CONSTANTS
    None = None
    h1 = h1
    h2 = h2
    h3 = h3
    k1 = k1
    k2 = k2
    t1 = t1
    t2 = t2
    Hashes = {h1, h2, h3}
    Start <- Start3
    Raw <- Raw3
    Caps = {0, 2}
    MaxTable = 4
    MaxSample = 35
    SizeMod = 1024
    Powers = {1, 2, 4}
    Stream <- NoStream
SYMMETRY Symmetry
INVARIANTS
    Estimates
    PoliciesSafe

    

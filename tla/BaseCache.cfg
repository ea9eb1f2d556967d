SPECIFICATION Spec
CONSTANTS
    Keys = {k1, k2}
    Threads = {t1, t2}
    None = None
    Weights = {1, 2}
    Freqs = {0, 1}
    MaxCapacity = 1
    Policy = "TinyLfu"
    KeyLocks = TRUE
    WriteChSize = 1
    ReadChSize = 1
    FlushPoint = 1
    MaxLogSyncRepeats = 0
    BatchSize = 1
    MaxConsecutiveRetries = 0
    GenMod = 16
    Calls = {"insert", "invalidate", "get"}
    MaxAllocs = 3
    MaxOps = 3
    MaxRetries = 1
    MaxTime = 1
SYMMETRY Symmetry
INVARIANTS
    NoOrphan
    RetireOnce
    DequeMirrorsAdmitted
    LinkedIsTracked
    QuietEvictable
PROPERTIES
    ImplementsLifecycle

SPECIFICATION MCSpec
CONSTANTS
    t1 = t1
    t2 = t2
    None = None
    Threads = {t1, t2}
    Keys = {"k"}
    Apis <- TypedApis
    MaxCalls = 2
    MAX_RETRIES = 2
    MayPanic = TRUE
    MaxOutside = 0
    is_map_disabled = FALSE
SYMMETRY Symmetry
INVARIANTS
    OneEvaluation
    WaitersAreOwned
    NoInternalPanic
    ReadsAreCurrent
    FutureInitSafe

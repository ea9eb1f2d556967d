CONSTANTS
    None = None
    Threads = {t1, t2}
    Tasks = {t2}
    Keys = {"k"}
    MaxCalls = 2
SPECIFICATION Spec
INVARIANT KeyLockExclusive

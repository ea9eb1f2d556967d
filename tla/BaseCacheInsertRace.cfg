\* Two insertions and a removal of one key without key locks.
SPECIFICATION Spec
CONSTANTS
  Keys = {k1}
  Threads = {t1, t2}
  None = None
  Weights = {1}
  Freqs = {0, 1}
  MaxCapacity = 1
  Policy = "Lru"
  KeyLocks = FALSE
  WriteChSize = 2
  ReadChSize = 1
  FlushPoint = 2
  MaxLogSyncRepeats = 1
  BatchSize = 1
  MaxConsecutiveRetries = 0
  GenMod = 16
  Calls = {"insert", "invalidate", "get"}
  MaxAllocs = 4
  MaxOps = 4
  MaxRetries = 0
  MaxTime = 0
SYMMETRY Symmetry
PROPERTIES InsertReportsLinked

------------------------------ MODULE MCLive --------------------------------
(***************************************************************************)
(* What must eventually happen, under the fairness that the scheduling of  *)
(* the code justifies: calls return, what is over capacity, expired or     *)
(* invalidated goes away, and a scan ends. A behaviour is of one part;     *)
(* LiveSpec has the parts whose steps are weakly fair, LockSpec those      *)
(* where calls queue for locks.                                            *)
(***************************************************************************)
EXTENDS Integers, Sequences, TLC

CONSTANTS None, Done, Sentinel, t1, t2, t3, k1, k2, e1, e2, v1, v2

VARIABLES
    part,      \* the part this behaviour is of
    bucket, lock, entry_gen, policy_gen, policy_weight, last_accessed,
    admitted, retired, allocs, read_op_ch, write_op_ch, probation, counters,
    published, thr, ops, now, mpc, m, cache, waiters, wval, wlock, call,
    outside, seen, arrays, current, len, mem, valid_after, info, deq, wheel,
    removed, invalidated, pc, elapsed, writes, rch, wch, size, run_lock,
    run_after, more_entries_to_evict, run, last, skipped, owed, write_order,
    cursor, predicates, is_empty, scan_context, left, returned, gone, exp,
    wheels, node, timer_node, iter, work, changes, locks, owner, count,
    pinned, limbo, th, retrying, spins, calls, interrupted, hk, maint,
    key_lock, listeners, telling, interrupted_op_ch, drops, is_enabled,
    made, told, late, panics

LockParts == {"locks", "ticker", "future_scan", "notify"}

HashOf == [k \in {k1, k2} |-> IF k = k1 THEN 1 ELSE 5]
Empty == <<>>
OneTwo == t1 :> 1 @@ t2 :> 2

SmallCounts == (0 :> 2) @@ (1 :> 2) @@ (2 :> 1)
SmallDurations == (0 :> 2) @@ (1 :> 3)

Methods == INSTANCE FutureEntryApi
FutureGetApis ==
    {Methods!try_get_with("E1"), Methods!and_upsert_with,
     Methods!and_try_compute_if_nobody_else}

SyncMethods == INSTANCE ValueInitializer WITH
    Threads <- {}, Keys <- {}, Apis <- {}, MaxCalls <- 0, MAX_RETRIES <- 0,
    MayPanic <- FALSE, MaxOutside <- 0, is_map_disabled <- TRUE
GetApis ==
    {SyncMethods!try_get_with("E1"), SyncMethods!and_upsert_with, SyncMethods!or_insert}

-----------------------------------------------------------------------------
(* Two threads that insert and invalidate one key.                         *)
OneKey == INSTANCE BaseCache WITH
    Keys <- {k1}, Threads <- {t1, t2}, Weights <- {1}, Freqs <- {0, 1},
    MaxCapacity <- 1, Policy <- "Lru", KeyLocks <- TRUE, WriteChSize <- 1,
    ReadChSize <- 1, FlushPoint <- 1, MaxLogSyncRepeats <- 0,
    BatchSize <- 1, MaxConsecutiveRetries <- 0, GenMod <- 16,
    Calls <- {"insert", "invalidate"}, MaxAllocs <- 3, MaxOps <- 3,
    MaxRetries <- 0, MaxTime <- 0

(* Two keys, one of which has to go.                                       *)
Evict == INSTANCE BaseCache WITH
    Keys <- {k1, k2}, Threads <- {t1, t2}, Weights <- {1}, Freqs <- {0, 1},
    MaxCapacity <- 1, Policy <- "Lru", KeyLocks <- TRUE, WriteChSize <- 1,
    ReadChSize <- 1, FlushPoint <- 1, MaxLogSyncRepeats <- 0,
    BatchSize <- 1, MaxConsecutiveRetries <- 0, GenMod <- 16,
    Calls <- {"insert"}, MaxAllocs <- 3, MaxOps <- 2, MaxRetries <- 0,
    MaxTime <- 0

(* Calls that wait for each other in the value initializer.                *)
Waiting == INSTANCE ValueInitializer WITH
    Threads <- {t1, t2}, Keys <- {"k"}, Apis <- GetApis, MaxCalls <- 1,
    MAX_RETRIES <- 2, MayPanic <- TRUE, MaxOutside <- 0,
    is_map_disabled <- TRUE

(* The same of the future cache, with calls that are dropped.              *)
FutureWaiting == INSTANCE FutureValueInitializer WITH
    Tasks <- {t1, t2}, Keys <- {"k"}, Apis <- FutureGetApis, MaxCalls <- 1,
    MAX_RETRIES <- 2, MayPanic <- TRUE, MayCancel <- TRUE, MaxOutside <- 0,
    is_map_disabled <- TRUE

(* Insertions and removals while the table is rehashed.                    *)
Cht == INSTANCE Cht WITH
    Threads <- {t1, t2}, Keys <- {k1, k2}, Hash <- HashOf, InitLen <- 4,
    Filled <- Empty, DefaultLength <- 1, LenMod <- 16, MaxLength <- 8,
    MaxOps <- OneTwo, Ops <- {"insert", "remove_if"}

(* Values with a time to live.                                             *)
Ttl == INSTANCE Expiration WITH
    Keys <- {k1}, Threads <- {t1, t2}, time_to_live <- 1,
    time_to_idle <- None, Expiry <- FALSE, Durations <- {},
    KeyLocks <- FALSE, Calls <- {"insert"}, ReadChSize <- 2, BatchSize <- 2,
    MaxInfos <- 2, MaxOps <- 1, LastCall <- 2, MaxTime <- 3

(* Values with a time to idle.                                             *)
Idle == INSTANCE Expiration WITH
    Keys <- {k1}, Threads <- {t1, t2}, time_to_live <- None,
    time_to_idle <- 1, Expiry <- FALSE, Durations <- {}, KeyLocks <- FALSE,
    Calls <- {"insert", "get"}, ReadChSize <- 2, BatchSize <- 2,
    MaxInfos <- 2, MaxOps <- 1, LastCall <- 1, MaxTime <- 2

(* Values with expiration times of their own.                              *)
Timers == INSTANCE Expiration WITH
    Keys <- {k1}, Threads <- {t1, t2}, time_to_live <- None,
    time_to_idle <- None, Expiry <- TRUE, Durations <- {0, 1},
    KeyLocks <- FALSE, Calls <- {"insert", "get"}, ReadChSize <- 4,
    BatchSize <- 2, MaxInfos <- 2, MaxOps <- 1, LastCall <- 1, MaxTime <- 2

(* Runs that are stopped by the timeout, and reads after them.             *)
Reads == INSTANCE Housekeeper WITH
    MAX_NANOS <- 2, Threads <- {t1, t2}, Listener <- TRUE,
    LOG_SYNC_INTERVAL <- 1, maintenance_task_timeout <- 1,
    max_log_sync_repeats <- 1, max_capacity <- 1, eviction_batch_size <- 1,
    READ_LOG_FLUSH_POINT <- 1, WRITE_LOG_FLUSH_POINT <- 1,
    READ_LOG_CH_SIZE <- 1, WRITE_LOG_CH_SIZE <- 1, Drifts <- {0},
    MaxElapsed <- 1, MaxWrites <- 2

(* Scans for the entries that predicates match.                            *)
Scan == INSTANCE Invalidator WITH
    Keys <- {k1, k2}, Values <- {v1, v2}, Threads <- {t1}, BatchSize <- 4,
    Serial <- TRUE, MaxInserts <- 2, MaxPredicates <- 1, MaxGets <- 0

(* The timer wheel advances.                                               *)
Wheel == INSTANCE TimerWheel WITH
    Entries <- {e1, e2}, BUCKET_COUNTS <- SmallCounts,
    DURATIONS <- SmallDurations, origin <- 1, MaxTime <- 4, MaxExpiry <- 5,
    MaxChanges <- 1, MayPanic <- FALSE

(* Requests for the lock of a key.                                         *)
Locks == INSTANCE KeyLockMap WITH
    Threads <- {t1, t2}, Tasks <- {t2}, Keys <- {k1}, MaxCalls <- 2

(* Tasks that wait for room in the write channel.                          *)
Ticking == INSTANCE FutureHousekeeper WITH
    Tasks <- {t1, t2, t3}, WRITE_LOG_CH_SIZE <- 1,
    WRITE_LOG_FLUSH_POINT <- 1, MaxSpins <- 1, Notifier <- TRUE,
    MayDrop <- TRUE, Ticker <- t3, MaxCalls <- 1

(* A scan that waits for key locks and may be dropped.                     *)
FutureScan == INSTANCE FutureInvalidator WITH
    Keys <- {k1}, Values <- {v1}, Threads <- {t1, t2}, BatchSize <- 4,
    Serial <- FALSE, MaxInserts <- 2, MaxPredicates <- 1, MaxGets <- 0,
    MaxDrops <- 1

(* Listeners that are called under the lock of a key and may panic.        *)
Notify == INSTANCE Notifier WITH
    Threads <- {t1, t2}, Maint <- t3, Keys <- {k1}, time_to_live <- None,
    time_to_idle <- None, MaxOps <- 1, MaxRuns <- 1, MaxPanics <- 1,
    MaxTime <- 0

-----------------------------------------------------------------------------
MCInit ==
    \/ /\ \/ part = "calls" /\ OneKey!Init
          \/ part = "evict" /\ Evict!Init
       /\ cache = None /\ waiters = None /\ wval = None /\ wlock = None
       /\ call = None /\ outside = None /\ seen = None /\ arrays = None
       /\ current = None /\ len = None /\ mem = None /\ valid_after = None
       /\ info = None /\ deq = None /\ wheel = None /\ removed = None
       /\ invalidated = None /\ pc = None /\ elapsed = None
       /\ writes = None /\ rch = None /\ wch = None /\ size = None
       /\ run_lock = None /\ run_after = None
       /\ more_entries_to_evict = None /\ run = None /\ last = None
       /\ skipped = None /\ owed = None /\ write_order = None
       /\ cursor = None /\ predicates = None /\ is_empty = None
       /\ scan_context = None /\ left = None /\ returned = None
       /\ gone = None /\ exp = None /\ wheels = None /\ node = None
       /\ timer_node = None /\ iter = None /\ work = None /\ changes = None
       /\ locks = None /\ owner = None /\ count = None /\ pinned = None
       /\ limbo = None /\ th = None /\ retrying = None /\ spins = None
       /\ calls = None /\ interrupted = None /\ hk = None /\ maint = None
       /\ key_lock = None /\ listeners = None /\ telling = None
       /\ interrupted_op_ch = None /\ drops = None /\ is_enabled = None
       /\ made = None /\ told = None /\ late = None /\ panics = None
    \/ /\ part = "init" /\ Waiting!Init
       /\ bucket = None /\ lock = None /\ entry_gen = None
       /\ policy_gen = None /\ policy_weight = None /\ last_accessed = None
       /\ admitted = None /\ retired = None /\ allocs = None
       /\ read_op_ch = None /\ write_op_ch = None /\ probation = None
       /\ counters = None /\ published = None /\ thr = None /\ ops = None
       /\ now = None /\ mpc = None /\ m = None /\ arrays = None
       /\ current = None /\ len = None /\ mem = None /\ valid_after = None
       /\ info = None /\ deq = None /\ wheel = None /\ removed = None
       /\ invalidated = None /\ pc = None /\ elapsed = None
       /\ writes = None /\ rch = None /\ wch = None /\ size = None
       /\ run_lock = None /\ run_after = None
       /\ more_entries_to_evict = None /\ run = None /\ last = None
       /\ skipped = None /\ owed = None /\ write_order = None
       /\ cursor = None /\ predicates = None /\ is_empty = None
       /\ scan_context = None /\ left = None /\ returned = None
       /\ gone = None /\ exp = None /\ wheels = None /\ node = None
       /\ timer_node = None /\ iter = None /\ work = None /\ changes = None
       /\ locks = None /\ owner = None /\ count = None /\ pinned = None
       /\ limbo = None /\ th = None /\ retrying = None /\ spins = None
       /\ calls = None /\ interrupted = None /\ hk = None /\ maint = None
       /\ key_lock = None /\ listeners = None /\ telling = None
       /\ interrupted_op_ch = None /\ drops = None /\ is_enabled = None
       /\ made = None /\ told = None /\ late = None /\ panics = None
    \/ /\ part = "future_init" /\ FutureWaiting!Init
       /\ bucket = None /\ lock = None /\ entry_gen = None
       /\ policy_gen = None /\ policy_weight = None /\ last_accessed = None
       /\ admitted = None /\ retired = None /\ allocs = None
       /\ read_op_ch = None /\ write_op_ch = None /\ probation = None
       /\ counters = None /\ published = None /\ thr = None /\ ops = None
       /\ now = None /\ mpc = None /\ m = None /\ arrays = None
       /\ current = None /\ len = None /\ mem = None /\ valid_after = None
       /\ info = None /\ deq = None /\ wheel = None /\ removed = None
       /\ invalidated = None /\ pc = None /\ elapsed = None
       /\ writes = None /\ rch = None /\ wch = None /\ size = None
       /\ run_lock = None /\ run_after = None
       /\ more_entries_to_evict = None /\ run = None /\ last = None
       /\ skipped = None /\ owed = None /\ write_order = None
       /\ cursor = None /\ predicates = None /\ is_empty = None
       /\ scan_context = None /\ left = None /\ returned = None
       /\ gone = None /\ exp = None /\ wheels = None /\ node = None
       /\ timer_node = None /\ iter = None /\ work = None /\ changes = None
       /\ locks = None /\ owner = None /\ count = None /\ pinned = None
       /\ limbo = None /\ th = None /\ retrying = None /\ spins = None
       /\ calls = None /\ interrupted = None /\ hk = None /\ maint = None
       /\ key_lock = None /\ listeners = None /\ telling = None
       /\ interrupted_op_ch = None /\ drops = None /\ is_enabled = None
       /\ made = None /\ told = None /\ late = None /\ panics = None
    \/ /\ part = "map" /\ Cht!Init
       /\ bucket = None /\ lock = None /\ entry_gen = None
       /\ policy_gen = None /\ policy_weight = None /\ last_accessed = None
       /\ admitted = None /\ retired = None /\ allocs = None
       /\ read_op_ch = None /\ write_op_ch = None /\ probation = None
       /\ counters = None /\ published = None /\ ops = None /\ now = None
       /\ mpc = None /\ m = None /\ cache = None /\ waiters = None
       /\ wval = None /\ wlock = None /\ call = None /\ outside = None
       /\ seen = None /\ valid_after = None /\ info = None /\ deq = None
       /\ wheel = None /\ removed = None /\ invalidated = None /\ pc = None
       /\ elapsed = None /\ writes = None /\ rch = None /\ wch = None
       /\ size = None /\ run_lock = None /\ run_after = None
       /\ more_entries_to_evict = None /\ run = None /\ last = None
       /\ skipped = None /\ owed = None /\ write_order = None
       /\ cursor = None /\ predicates = None /\ is_empty = None
       /\ scan_context = None /\ left = None /\ returned = None
       /\ gone = None /\ exp = None /\ wheels = None /\ node = None
       /\ timer_node = None /\ iter = None /\ work = None /\ changes = None
       /\ locks = None /\ owner = None /\ count = None /\ pinned = None
       /\ limbo = None /\ th = None /\ retrying = None /\ spins = None
       /\ calls = None /\ interrupted = None /\ hk = None /\ maint = None
       /\ key_lock = None /\ listeners = None /\ telling = None
       /\ interrupted_op_ch = None /\ drops = None /\ is_enabled = None
       /\ made = None /\ told = None /\ late = None /\ panics = None
    \/ /\ \/ part = "ttl" /\ Ttl!Init
          \/ part = "idle" /\ Idle!Init
          \/ part = "timers" /\ Timers!Init
       /\ entry_gen = None /\ policy_gen = None /\ policy_weight = None
       /\ last_accessed = None /\ admitted = None /\ retired = None
       /\ allocs = None /\ probation = None /\ counters = None
       /\ published = None /\ cache = None /\ waiters = None /\ wval = None
       /\ wlock = None /\ call = None /\ outside = None /\ seen = None
       /\ arrays = None /\ current = None /\ len = None /\ mem = None
       /\ pc = None /\ elapsed = None /\ writes = None /\ rch = None
       /\ wch = None /\ size = None /\ run_lock = None /\ run_after = None
       /\ more_entries_to_evict = None /\ run = None /\ last = None
       /\ skipped = None /\ owed = None /\ write_order = None
       /\ cursor = None /\ predicates = None /\ is_empty = None
       /\ scan_context = None /\ left = None /\ returned = None
       /\ gone = None /\ exp = None /\ wheels = None /\ node = None
       /\ timer_node = None /\ iter = None /\ work = None /\ changes = None
       /\ locks = None /\ owner = None /\ count = None /\ pinned = None
       /\ limbo = None /\ th = None /\ retrying = None /\ spins = None
       /\ calls = None /\ interrupted = None /\ hk = None /\ maint = None
       /\ key_lock = None /\ listeners = None /\ telling = None
       /\ interrupted_op_ch = None /\ drops = None /\ is_enabled = None
       /\ made = None /\ told = None /\ late = None /\ panics = None
    \/ /\ part = "housekeeper" /\ Reads!Init
       /\ bucket = None /\ lock = None /\ entry_gen = None
       /\ policy_gen = None /\ policy_weight = None /\ last_accessed = None
       /\ admitted = None /\ retired = None /\ allocs = None
       /\ read_op_ch = None /\ write_op_ch = None /\ probation = None
       /\ counters = None /\ published = None /\ thr = None /\ ops = None
       /\ mpc = None /\ m = None /\ cache = None /\ waiters = None
       /\ wval = None /\ wlock = None /\ outside = None /\ seen = None
       /\ arrays = None /\ current = None /\ len = None /\ mem = None
       /\ valid_after = None /\ info = None /\ deq = None /\ wheel = None
       /\ removed = None /\ invalidated = None /\ write_order = None
       /\ cursor = None /\ predicates = None /\ is_empty = None
       /\ scan_context = None /\ left = None /\ returned = None
       /\ gone = None /\ exp = None /\ wheels = None /\ node = None
       /\ timer_node = None /\ iter = None /\ work = None /\ changes = None
       /\ locks = None /\ owner = None /\ count = None /\ pinned = None
       /\ limbo = None /\ th = None /\ retrying = None /\ spins = None
       /\ calls = None /\ interrupted = None /\ hk = None /\ maint = None
       /\ key_lock = None /\ listeners = None /\ telling = None
       /\ interrupted_op_ch = None /\ drops = None /\ is_enabled = None
       /\ made = None /\ told = None /\ late = None /\ panics = None
    \/ /\ part = "scan" /\ Scan!Init
       /\ lock = None /\ entry_gen = None /\ policy_gen = None
       /\ policy_weight = None /\ last_accessed = None /\ admitted = None
       /\ retired = None /\ allocs = None /\ read_op_ch = None
       /\ probation = None /\ counters = None /\ published = None
       /\ ops = None /\ cache = None /\ waiters = None /\ wval = None
       /\ wlock = None /\ call = None /\ outside = None /\ seen = None
       /\ arrays = None /\ current = None /\ len = None /\ mem = None
       /\ valid_after = None /\ deq = None /\ wheel = None
       /\ removed = None /\ invalidated = None /\ pc = None
       /\ elapsed = None /\ writes = None /\ rch = None /\ wch = None
       /\ size = None /\ run_lock = None /\ run_after = None
       /\ more_entries_to_evict = None /\ run = None /\ last = None
       /\ skipped = None /\ owed = None /\ exp = None /\ wheels = None
       /\ node = None /\ timer_node = None /\ iter = None /\ work = None
       /\ changes = None /\ locks = None /\ owner = None /\ count = None
       /\ pinned = None /\ limbo = None /\ th = None /\ retrying = None
       /\ spins = None /\ calls = None /\ interrupted = None /\ hk = None
       /\ maint = None /\ key_lock = None /\ listeners = None
       /\ telling = None /\ interrupted_op_ch = None /\ drops = None
       /\ is_enabled = None /\ made = None /\ told = None /\ late = None
       /\ panics = None
    \/ /\ part = "wheel" /\ Wheel!Init
       /\ bucket = None /\ lock = None /\ entry_gen = None
       /\ policy_gen = None /\ policy_weight = None /\ last_accessed = None
       /\ admitted = None /\ retired = None /\ allocs = None
       /\ read_op_ch = None /\ write_op_ch = None /\ probation = None
       /\ counters = None /\ published = None /\ thr = None /\ ops = None
       /\ now = None /\ mpc = None /\ m = None /\ cache = None
       /\ waiters = None /\ wval = None /\ wlock = None /\ call = None
       /\ outside = None /\ seen = None /\ arrays = None /\ len = None
       /\ mem = None /\ valid_after = None /\ info = None /\ deq = None
       /\ wheel = None /\ removed = None /\ invalidated = None /\ pc = None
       /\ elapsed = None /\ writes = None /\ rch = None /\ wch = None
       /\ size = None /\ run_lock = None /\ run_after = None
       /\ more_entries_to_evict = None /\ run = None /\ last = None
       /\ skipped = None /\ owed = None /\ write_order = None
       /\ cursor = None /\ predicates = None /\ is_empty = None
       /\ scan_context = None /\ left = None /\ returned = None
       /\ gone = None /\ locks = None /\ owner = None /\ count = None
       /\ pinned = None /\ limbo = None /\ th = None /\ retrying = None
       /\ spins = None /\ calls = None /\ interrupted = None /\ hk = None
       /\ maint = None /\ key_lock = None /\ listeners = None
       /\ telling = None /\ interrupted_op_ch = None /\ drops = None
       /\ is_enabled = None /\ made = None /\ told = None /\ late = None
       /\ panics = None
    \/ /\ part = "locks" /\ Locks!Init
       /\ bucket = None /\ lock = None /\ entry_gen = None
       /\ policy_gen = None /\ policy_weight = None /\ last_accessed = None
       /\ admitted = None /\ retired = None /\ allocs = None
       /\ read_op_ch = None /\ write_op_ch = None /\ probation = None
       /\ counters = None /\ published = None /\ thr = None /\ ops = None
       /\ now = None /\ mpc = None /\ m = None /\ cache = None
       /\ waiters = None /\ wval = None /\ wlock = None /\ call = None
       /\ outside = None /\ seen = None /\ arrays = None /\ current = None
       /\ len = None /\ mem = None /\ valid_after = None /\ info = None
       /\ deq = None /\ wheel = None /\ removed = None
       /\ invalidated = None /\ pc = None /\ elapsed = None
       /\ writes = None /\ rch = None /\ wch = None /\ size = None
       /\ run_lock = None /\ run_after = None
       /\ more_entries_to_evict = None /\ run = None /\ last = None
       /\ skipped = None /\ owed = None /\ write_order = None
       /\ cursor = None /\ predicates = None /\ is_empty = None
       /\ scan_context = None /\ left = None /\ returned = None
       /\ gone = None /\ exp = None /\ wheels = None /\ node = None
       /\ timer_node = None /\ iter = None /\ work = None /\ changes = None
       /\ retrying = None /\ spins = None /\ calls = None
       /\ interrupted = None /\ hk = None /\ maint = None
       /\ key_lock = None /\ listeners = None /\ telling = None
       /\ interrupted_op_ch = None /\ drops = None /\ is_enabled = None
       /\ made = None /\ told = None /\ late = None /\ panics = None
    \/ /\ part = "ticker" /\ Ticking!Init
       /\ bucket = None /\ lock = None /\ entry_gen = None
       /\ policy_gen = None /\ policy_weight = None /\ last_accessed = None
       /\ admitted = None /\ retired = None /\ allocs = None
       /\ read_op_ch = None /\ write_op_ch = None /\ probation = None
       /\ counters = None /\ published = None /\ thr = None /\ ops = None
       /\ now = None /\ mpc = None /\ m = None /\ cache = None
       /\ waiters = None /\ wval = None /\ wlock = None /\ call = None
       /\ outside = None /\ seen = None /\ arrays = None /\ current = None
       /\ mem = None /\ valid_after = None /\ info = None /\ deq = None
       /\ wheel = None /\ removed = None /\ invalidated = None
       /\ elapsed = None /\ writes = None /\ rch = None /\ wch = None
       /\ size = None /\ run_lock = None /\ run_after = None
       /\ more_entries_to_evict = None /\ run = None /\ last = None
       /\ skipped = None /\ owed = None /\ write_order = None
       /\ cursor = None /\ predicates = None /\ is_empty = None
       /\ scan_context = None /\ left = None /\ returned = None
       /\ gone = None /\ exp = None /\ wheels = None /\ node = None
       /\ timer_node = None /\ iter = None /\ work = None /\ changes = None
       /\ locks = None /\ owner = None /\ count = None /\ pinned = None
       /\ limbo = None /\ th = None /\ telling = None
       /\ interrupted_op_ch = None /\ drops = None /\ is_enabled = None
       /\ made = None /\ told = None /\ late = None /\ panics = None
    \/ /\ part = "future_scan" /\ FutureScan!Init
       /\ entry_gen = None /\ policy_gen = None /\ policy_weight = None
       /\ last_accessed = None /\ admitted = None /\ retired = None
       /\ allocs = None /\ read_op_ch = None /\ probation = None
       /\ counters = None /\ published = None /\ ops = None /\ cache = None
       /\ waiters = None /\ wval = None /\ wlock = None /\ call = None
       /\ outside = None /\ seen = None /\ arrays = None /\ current = None
       /\ len = None /\ mem = None /\ valid_after = None /\ deq = None
       /\ wheel = None /\ removed = None /\ invalidated = None /\ pc = None
       /\ elapsed = None /\ writes = None /\ rch = None /\ wch = None
       /\ size = None /\ run_lock = None /\ run_after = None
       /\ more_entries_to_evict = None /\ run = None /\ last = None
       /\ skipped = None /\ owed = None /\ exp = None /\ wheels = None
       /\ node = None /\ timer_node = None /\ iter = None /\ work = None
       /\ changes = None /\ locks = None /\ owner = None /\ count = None
       /\ pinned = None /\ limbo = None /\ th = None /\ retrying = None
       /\ spins = None /\ calls = None /\ interrupted = None
       /\ maint = None /\ key_lock = None /\ listeners = None
       /\ is_enabled = None /\ made = None /\ told = None /\ late = None
       /\ panics = None
    \/ /\ part = "notify" /\ Notify!Init
       /\ entry_gen = None /\ policy_gen = None /\ policy_weight = None
       /\ last_accessed = None /\ admitted = None /\ retired = None
       /\ allocs = None /\ read_op_ch = None /\ write_op_ch = None
       /\ probation = None /\ counters = None /\ published = None
       /\ mpc = None /\ m = None /\ cache = None /\ waiters = None
       /\ wval = None /\ wlock = None /\ call = None /\ outside = None
       /\ seen = None /\ arrays = None /\ current = None /\ len = None
       /\ mem = None /\ deq = None /\ wheel = None /\ removed = None
       /\ invalidated = None /\ pc = None /\ elapsed = None
       /\ writes = None /\ rch = None /\ wch = None /\ size = None
       /\ run_lock = None /\ run_after = None
       /\ more_entries_to_evict = None /\ run = None /\ last = None
       /\ skipped = None /\ owed = None /\ write_order = None
       /\ cursor = None /\ predicates = None /\ is_empty = None
       /\ scan_context = None /\ left = None /\ returned = None
       /\ gone = None /\ exp = None /\ wheels = None /\ node = None
       /\ timer_node = None /\ iter = None /\ work = None /\ changes = None
       /\ locks = None /\ owner = None /\ count = None /\ pinned = None
       /\ limbo = None /\ th = None /\ retrying = None /\ spins = None
       /\ calls = None /\ interrupted = None /\ hk = None /\ maint = None
       /\ key_lock = None /\ listeners = None /\ telling = None
       /\ interrupted_op_ch = None /\ drops = None

mcvars == <<part, bucket, lock, entry_gen, policy_gen, policy_weight,
            last_accessed, admitted, retired, allocs, read_op_ch,
            write_op_ch, probation, counters, published, thr, ops, now,
            mpc, m, cache, waiters, wval, wlock, call, outside, seen,
            arrays, current, len, mem, valid_after, info, deq, wheel,
            removed, invalidated, pc, elapsed, writes, rch, wch, size,
            run_lock, run_after, more_entries_to_evict, run, last,
            skipped, owed, write_order, cursor, predicates, is_empty,
            scan_context, left, returned, gone, exp, wheels, node,
            timer_node, iter, work, changes, locks, owner, count, pinned,
            limbo, th, retrying, spins, calls, interrupted, hk, maint,
            key_lock, listeners, telling, interrupted_op_ch, drops,
            is_enabled, made, told, late, panics>>

(* The variables of the part.                                              *)
partvars ==
    CASE part = "calls" -> OneKey!vars
      [] part = "evict" -> Evict!vars
      [] part = "init" -> Waiting!vars
      [] part = "future_init" -> FutureWaiting!vars
      [] part = "map" -> Cht!vars
      [] part = "ttl" -> Ttl!vars
      [] part = "idle" -> Idle!vars
      [] part = "timers" -> Timers!vars
      [] part = "housekeeper" -> Reads!vars
      [] part = "scan" -> Scan!vars
      [] part = "wheel" -> Wheel!vars
      [] part = "locks" -> Locks!vars
      [] part = "ticker" -> Ticking!vars
      [] part = "future_scan" -> FutureScan!vars
      [] part = "notify" -> Notify!vars

(* The fair steps. A thread or a task goes on with its call; in the part   *)
(* of the housekeeper the threads go on reading.                           *)
Step(t) ==
    /\ UNCHANGED part
    /\ \/ part = "calls" /\ OneKey!InCall(t)
       \/ part = "evict" /\ Evict!InCall(t)
       \/ part = "init" /\ Waiting!Work(t)
       \/ part = "future_init" /\ FutureWaiting!Work(t)
       \/ part = "map" /\ Cht!Step(t)
       \/ part = "ttl" /\ Ttl!Step(t)
       \/ part = "idle" /\ Idle!Step(t)
       \/ part = "timers" /\ Timers!Step(t)
       \/ part = "housekeeper" /\ Reads!Step(t)
       \/ part = "housekeeper" /\ Reads!Begin(t, "read")
       \/ part = "scan" /\ t = t1 /\ Scan!Step(t)

(* Maintenance goes on, and is run now and then.                           *)
Maintain ==
    /\ UNCHANGED part
    /\ \/ part = "calls" /\ OneKey!Maintenance
       \/ part = "evict" /\ Evict!Maintenance
       \/ part = "ttl" /\ Ttl!do_run_pending_tasks
       \/ part = "idle" /\ Idle!do_run_pending_tasks
       \/ part = "timers" /\ Timers!do_run_pending_tasks
       \/ part = "scan" /\ Scan!Maintenance
       \/ part = "wheel" /\ Wheel!Maintenance

(* Time passes.                                                            *)
Pass ==
    /\ UNCHANGED part
    /\ \/ part = "ttl" /\ Ttl!Tick
       \/ part = "idle" /\ Idle!Tick
       \/ part = "timers" /\ Timers!Tick
       \/ part = "housekeeper" /\ Reads!Tick

LiveNext ==
    \/ /\ \/ part = "calls" /\ OneKey!Next
          \/ part = "evict" /\ Evict!Next
       /\ UNCHANGED <<part, cache, waiters, wval, wlock, call, outside,
                   seen, arrays, current, len, mem, valid_after, info,
                   deq, wheel, removed, invalidated, pc, elapsed, writes,
                   rch, wch, size, run_lock, run_after,
                   more_entries_to_evict, run, last, skipped, owed,
                   write_order, cursor, predicates, is_empty,
                   scan_context, left, returned, gone, exp, wheels, node,
                   timer_node, iter, work, changes, locks, owner, count,
                   pinned, limbo, th, retrying, spins, calls,
                   interrupted, hk, maint, key_lock, listeners, telling,
                   interrupted_op_ch, drops, is_enabled, made, told,
                   late, panics>>
    \/ /\ part = "init" /\ Waiting!Next
       /\ UNCHANGED <<part, bucket, lock, entry_gen, policy_gen,
                   policy_weight, last_accessed, admitted, retired,
                   allocs, read_op_ch, write_op_ch, probation, counters,
                   published, thr, ops, now, mpc, m, arrays, current,
                   len, mem, valid_after, info, deq, wheel, removed,
                   invalidated, pc, elapsed, writes, rch, wch, size,
                   run_lock, run_after, more_entries_to_evict, run, last,
                   skipped, owed, write_order, cursor, predicates,
                   is_empty, scan_context, left, returned, gone, exp,
                   wheels, node, timer_node, iter, work, changes, locks,
                   owner, count, pinned, limbo, th, retrying, spins,
                   calls, interrupted, hk, maint, key_lock, listeners,
                   telling, interrupted_op_ch, drops, is_enabled, made,
                   told, late, panics>>
    \/ /\ part = "future_init" /\ FutureWaiting!Next
       /\ UNCHANGED <<part, bucket, lock, entry_gen, policy_gen,
                   policy_weight, last_accessed, admitted, retired,
                   allocs, read_op_ch, write_op_ch, probation, counters,
                   published, thr, ops, now, mpc, m, arrays, current,
                   len, mem, valid_after, info, deq, wheel, removed,
                   invalidated, pc, elapsed, writes, rch, wch, size,
                   run_lock, run_after, more_entries_to_evict, run, last,
                   skipped, owed, write_order, cursor, predicates,
                   is_empty, scan_context, left, returned, gone, exp,
                   wheels, node, timer_node, iter, work, changes, locks,
                   owner, count, pinned, limbo, th, retrying, spins,
                   calls, interrupted, hk, maint, key_lock, listeners,
                   telling, interrupted_op_ch, drops, is_enabled, made,
                   told, late, panics>>
    \/ /\ part = "map" /\ Cht!Next
       /\ UNCHANGED <<part, bucket, lock, entry_gen, policy_gen,
                   policy_weight, last_accessed, admitted, retired,
                   allocs, read_op_ch, write_op_ch, probation, counters,
                   published, ops, now, mpc, m, cache, waiters, wval,
                   wlock, call, outside, seen, valid_after, info, deq,
                   wheel, removed, invalidated, pc, elapsed, writes, rch,
                   wch, size, run_lock, run_after, more_entries_to_evict,
                   run, last, skipped, owed, write_order, cursor,
                   predicates, is_empty, scan_context, left, returned,
                   gone, exp, wheels, node, timer_node, iter, work,
                   changes, locks, owner, count, pinned, limbo, th,
                   retrying, spins, calls, interrupted, hk, maint,
                   key_lock, listeners, telling, interrupted_op_ch,
                   drops, is_enabled, made, told, late, panics>>
    \/ /\ \/ part = "ttl" /\ Ttl!Next
          \/ part = "idle" /\ Idle!Next
          \/ part = "timers" /\ Timers!Next
       /\ UNCHANGED <<part, entry_gen, policy_gen, policy_weight,
                   last_accessed, admitted, retired, allocs, probation,
                   counters, published, cache, waiters, wval, wlock,
                   call, outside, seen, arrays, current, len, mem, pc,
                   elapsed, writes, rch, wch, size, run_lock, run_after,
                   more_entries_to_evict, run, last, skipped, owed,
                   write_order, cursor, predicates, is_empty,
                   scan_context, left, returned, gone, exp, wheels, node,
                   timer_node, iter, work, changes, locks, owner, count,
                   pinned, limbo, th, retrying, spins, calls,
                   interrupted, hk, maint, key_lock, listeners, telling,
                   interrupted_op_ch, drops, is_enabled, made, told,
                   late, panics>>
    \/ /\ part = "housekeeper" /\ Reads!Next
       /\ UNCHANGED <<part, bucket, lock, entry_gen, policy_gen,
                   policy_weight, last_accessed, admitted, retired,
                   allocs, read_op_ch, write_op_ch, probation, counters,
                   published, thr, ops, mpc, m, cache, waiters, wval,
                   wlock, outside, seen, arrays, current, len, mem,
                   valid_after, info, deq, wheel, removed, invalidated,
                   write_order, cursor, predicates, is_empty,
                   scan_context, left, returned, gone, exp, wheels, node,
                   timer_node, iter, work, changes, locks, owner, count,
                   pinned, limbo, th, retrying, spins, calls,
                   interrupted, hk, maint, key_lock, listeners, telling,
                   interrupted_op_ch, drops, is_enabled, made, told,
                   late, panics>>
    \/ /\ part = "scan" /\ Scan!Next
       /\ UNCHANGED <<part, lock, entry_gen, policy_gen, policy_weight,
                   last_accessed, admitted, retired, allocs, read_op_ch,
                   probation, counters, published, ops, cache, waiters,
                   wval, wlock, call, outside, seen, arrays, current,
                   len, mem, valid_after, deq, wheel, removed,
                   invalidated, pc, elapsed, writes, rch, wch, size,
                   run_lock, run_after, more_entries_to_evict, run, last,
                   skipped, owed, exp, wheels, node, timer_node, iter,
                   work, changes, locks, owner, count, pinned, limbo, th,
                   retrying, spins, calls, interrupted, hk, maint,
                   key_lock, listeners, telling, interrupted_op_ch,
                   drops, is_enabled, made, told, late, panics>>
    \/ /\ part = "wheel" /\ Wheel!Next
       /\ UNCHANGED <<part, bucket, lock, entry_gen, policy_gen,
                   policy_weight, last_accessed, admitted, retired,
                   allocs, read_op_ch, write_op_ch, probation, counters,
                   published, thr, ops, now, mpc, m, cache, waiters,
                   wval, wlock, call, outside, seen, arrays, len, mem,
                   valid_after, info, deq, wheel, removed, invalidated,
                   pc, elapsed, writes, rch, wch, size, run_lock,
                   run_after, more_entries_to_evict, run, last, skipped,
                   owed, write_order, cursor, predicates, is_empty,
                   scan_context, left, returned, gone, locks, owner,
                   count, pinned, limbo, th, retrying, spins, calls,
                   interrupted, hk, maint, key_lock, listeners, telling,
                   interrupted_op_ch, drops, is_enabled, made, told,
                   late, panics>>

LiveInit == MCInit /\ part \notin LockParts

LiveSpec ==
    /\ LiveInit
    /\ [][LiveNext]_mcvars
    /\ \A t \in {t1, t2} : WF_partvars(Step(t))
    /\ WF_partvars(Maintain)
    /\ WF_partvars(Pass)
-----------------------------------------------------------------------------
(* Where calls queue for locks: the fair steps other than the request of a *)
(* lock. In the part of the listener t3 is maintenance, in that of the     *)
(* housekeeper it is the ticker.                                           *)
Poll(t) ==
    /\ UNCHANGED part
    /\ \/ part = "locks" /\ t \in {t1, t2} /\ Locks!Work(t)
       \/ part = "ticker" /\ Ticking!Step(t)
       \/ part = "future_scan" /\ t \in {t1, t2} /\ FutureScan!Step(t)
       \/ part = "future_scan" /\ t = t3 /\ FutureScan!Poll
       \/ part = "notify" /\ t \in {t1, t2} /\ Notify!CallStep(t)
       \/ part = "notify" /\ t = t3 /\ Notify!RunStep
       \/ part = "notify" /\ Notify!NotifyStep(t)

(* A waiter is given the lock: parking_lot and async_lock are fair in the  *)
(* long run.                                                               *)
Acquire(t) ==
    /\ UNCHANGED part
    /\ \/ part = "locks" /\ t \in {t1, t2} /\ Locks!Lock(t)
       \/ part = "ticker" /\ Ticking!LockKey(t)
       \/ part = "future_scan" /\ t = t3 /\ FutureScan!LockCandidate
       \/ part = "notify" /\ Notify!maybe_key_lock(t)

(* Somebody keeps calling run_pending_tasks.                               *)
Call ==
    /\ UNCHANGED part
    /\ \/ part = "ticker" /\ Ticking!Begin(t3)
       \/ part = "future_scan" /\ \E t \in {t1, t2} : FutureScan!run_pending_tasks(t)

Run ==
    /\ UNCHANGED part
    /\ part = "ticker" /\ Ticking!run_pending_tasks(t3)

LockNext ==
    \/ /\ part = "locks" /\ Locks!Next
       /\ UNCHANGED <<part, bucket, lock, entry_gen, policy_gen,
                   policy_weight, last_accessed, admitted, retired,
                   allocs, read_op_ch, write_op_ch, probation, counters,
                   published, thr, ops, now, mpc, m, cache, waiters,
                   wval, wlock, call, outside, seen, arrays, current,
                   len, mem, valid_after, info, deq, wheel, removed,
                   invalidated, pc, elapsed, writes, rch, wch, size,
                   run_lock, run_after, more_entries_to_evict, run, last,
                   skipped, owed, write_order, cursor, predicates,
                   is_empty, scan_context, left, returned, gone, exp,
                   wheels, node, timer_node, iter, work, changes,
                   retrying, spins, calls, interrupted, hk, maint,
                   key_lock, listeners, telling, interrupted_op_ch,
                   drops, is_enabled, made, told, late, panics>>
    \/ /\ part = "ticker" /\ Ticking!Next
       /\ UNCHANGED <<part, bucket, lock, entry_gen, policy_gen,
                   policy_weight, last_accessed, admitted, retired,
                   allocs, read_op_ch, write_op_ch, probation, counters,
                   published, thr, ops, now, mpc, m, cache, waiters,
                   wval, wlock, call, outside, seen, arrays, current,
                   mem, valid_after, info, deq, wheel, removed,
                   invalidated, elapsed, writes, rch, wch, size,
                   run_lock, run_after, more_entries_to_evict, run, last,
                   skipped, owed, write_order, cursor, predicates,
                   is_empty, scan_context, left, returned, gone, exp,
                   wheels, node, timer_node, iter, work, changes, locks,
                   owner, count, pinned, limbo, th, telling,
                   interrupted_op_ch, drops, is_enabled, made, told,
                   late, panics>>
    \/ /\ part = "future_scan" /\ FutureScan!Next
       /\ UNCHANGED <<part, entry_gen, policy_gen, policy_weight,
                   last_accessed, admitted, retired, allocs, read_op_ch,
                   probation, counters, published, ops, cache, waiters,
                   wval, wlock, call, outside, seen, arrays, current,
                   len, mem, valid_after, deq, wheel, removed,
                   invalidated, pc, elapsed, writes, rch, wch, size,
                   run_lock, run_after, more_entries_to_evict, run, last,
                   skipped, owed, exp, wheels, node, timer_node, iter,
                   work, changes, locks, owner, count, pinned, limbo, th,
                   retrying, spins, calls, interrupted, maint, key_lock,
                   listeners, is_enabled, made, told, late, panics>>
    \/ /\ part = "notify" /\ Notify!Next
       /\ UNCHANGED <<part, entry_gen, policy_gen, policy_weight,
                   last_accessed, admitted, retired, allocs, read_op_ch,
                   write_op_ch, probation, counters, published, mpc, m,
                   cache, waiters, wval, wlock, call, outside, seen,
                   arrays, current, len, mem, deq, wheel, removed,
                   invalidated, pc, elapsed, writes, rch, wch, size,
                   run_lock, run_after, more_entries_to_evict, run, last,
                   skipped, owed, write_order, cursor, predicates,
                   is_empty, scan_context, left, returned, gone, exp,
                   wheels, node, timer_node, iter, work, changes, locks,
                   owner, count, pinned, limbo, th, retrying, spins,
                   calls, interrupted, hk, maint, key_lock, listeners,
                   telling, interrupted_op_ch, drops>>

LockInit == MCInit /\ part \in LockParts

LockSpec ==
    /\ LockInit
    /\ [][LockNext]_mcvars
    /\ \A t \in {t1, t2, t3} : WF_partvars(Poll(t)) /\ SF_partvars(Acquire(t))
    /\ WF_partvars(Call)
    /\ SF_partvars(Run)
-----------------------------------------------------------------------------
(* The thread or task is in a call, or maintenance, for which t2 stands in *)
(* the last two parts, has taken up a predicate or an advance.             *)
Busy(t) ==
    CASE part = "calls" -> OneKey!Busy(t)
      [] part = "evict" -> Evict!Busy(t)
      [] part = "init" -> Waiting!Active(t)
      [] part = "future_init" -> FutureWaiting!Active(t)
      [] part = "map" -> Cht!Busy(t)
      [] part = "scan" -> t = t2 /\ predicates # {}
      [] part = "wheel" -> t = t2 /\ iter # None
      [] OTHER -> FALSE

Settled ==
    CASE part = "evict" -> Evict!CaughtUp
      [] part = "ttl" -> Ttl!NoneExpired
      [] part = "idle" -> Idle!NoneExpired
      [] part = "timers" -> Timers!NoneExpired
      [] part = "housekeeper" -> Reads!WithinCapacity
      [] OTHER -> TRUE

(* The same where calls queue for locks.  A call of the ticker may go on   *)
(* for ever.                                                               *)
LockBusy(t) ==
    CASE part = "locks" -> t # t3 /\ Locks!Busy(t)
      [] part = "ticker" -> t # t3 /\ Ticking!Busy(t)
      [] part = "future_scan" -> t = t3 /\ mpc # "idle"
      [] part = "notify" -> Notify!Busy(t)
-----------------------------------------------------------------------------
(* Every call returns: of BaseCache, though the write channel may be full  *)
(* and the lock of the key held (maintenance never waits for a thread that *)
(* waits for maintenance); of the value initializers, though the calls     *)
(* they wait for panic or are dropped; of the hash table, though it is     *)
(* rehashed meanwhile. And what maintenance takes up ends: predicates do   *)
(* not stay in the registry for ever, nor does an advance of the timer     *)
(* wheel go on, though timers that are not due are put back into the       *)
(* buckets it visits.                                                      *)
EveryCallReturns == \A t \in {t1, t2} : Busy(t) ~> ~Busy(t)

(* What should not be there goes away for good. Eviction does not stall    *)
(* (issue 590): once the callers stop, maintenance brings weighted_size    *)
(* down to max_capacity or runs out of entries. What has expired is        *)
(* removed. Once the writers have stopped, reads alone bring the cache     *)
(* back to its capacity. An entry that a registered predicate matches is   *)
(* evicted, or replaced: "If the closure returns true that entry will be   *)
(* evicted from the cache". The keys are alike: k1 stands for both.        *)
Settles ==
    /\ <>[]Settled
    /\ \A ver \in 1..2 :
         (part = "scan" /\ Scan!Matched(k1, ver)) ~> (part = "scan" /\ bucket[k1].ver # ver)

(* Every call that queues for a lock returns: a request for a key lock,    *)
(* however removals of the mutex from the table race with it; a write of   *)
(* the future cache, which also waits for the lock of current_task and for *)
(* the event of schedule_write_op; an operation whose listener panics      *)
(* under the lock of the key; and a scan, although the tasks that poll it, *)
(* and those that wait for the same keys, are dropped.                     *)
LockedCallsReturn == \A t \in {t1, t2, t3} : LockBusy(t) ~> ~LockBusy(t)
=============================================================================

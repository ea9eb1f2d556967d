--------------------------- MODULE MCStructures -----------------------------
(***************************************************************************)
(* The structures a cache is built on, and what keeps them up to date: the *)
(* deque, the concurrent hash table, the key locks, the counters of the    *)
(* debug build, the housekeeper and the invalidation scan. A behaviour is  *)
(* of one part.                                                            *)
(***************************************************************************)
EXTENDS Deque, Sequences, TLC

CONSTANTS None, t1, t2, t3, u1, u2, k1, k2, v1, v2, h1, h2, h3, a1, a2, b1,
          e1, d1

VARIABLES
    part,      \* the part this behaviour is of
    arrays, current, map_len, thr, mem, locks, owner, count, pinned, limbo,
    th, COUNTERS, made, gone, owes, pos, snap, seen, pc, call, now, elapsed,
    writes, rch, wch, size, run_lock, run_after, more_entries_to_evict, run,
    last, skipped, owed, bucket, info, write_op_ch, write_order,
    scan_cursor, predicates, is_empty, scan_context, left, mpc, m, returned,
    hk, lock, telling, interrupted_op_ch, drops

(* The nodes from the head on, as far as there are nodes.                  *)
Chain ==
    LET RECURSIVE from(_, _)
        from(n, k) == IF n = Null \/ k = 0 THEN <<>> ELSE <<n>> \o from(next[n], k - 1)
    IN from(head, Cardinality(Nodes) + 1)

(* h1 and h2 collide, in an array of 8 no longer; h3 is the last bucket.   *)
HashOf == (h1 :> 1) @@ (h2 :> 5) @@ (h3 :> 3)
Two == (1 :> h1) @@ (2 :> h2)
OneTwo == (u1 :> 1) @@ (u2 :> 2)

(* Two bucket arrays of different sizes and an object of each other class. *)
ClassOf == (a1 :> "bucket_array") @@ (a2 :> "bucket_array") @@ (b1 :> "bucket")
           @@ (v1 :> "value_entry") @@ (e1 :> "entry_info") @@ (d1 :> "deq_node")
SizeOf == [o \in DOMAIN ClassOf |-> CASE o = a1 -> 1 [] o = a2 -> 2 [] OTHER -> 0]

Symmetry == Permutations({t1, t2, t3}) \cup Permutations({k1, k2})

-----------------------------------------------------------------------------
(* Two threads on two keys of one bucket, until the table has been         *)
(* rehashed.                                                               *)
Cht == INSTANCE Cht WITH
    Threads <- {u1, u2}, Keys <- {h1, h2}, Hash <- HashOf, InitLen <- 4,
    Filled <- Two, DefaultLength <- 1, LenMod <- 16, MaxLength <- 8,
    MaxOps <- OneTwo,
    Ops <- {"get", "insert", "insert_if_not_present", "remove_if"},
    len <- map_len

(* Three keys, for the memory of buckets and arrays.                       *)
ChtMem == INSTANCE Cht WITH
    Threads <- {u1, u2}, Keys <- {h1, h2, h3}, Hash <- HashOf, InitLen <- 4,
    Filled <- Two, DefaultLength <- 1, LenMod <- 16, MaxLength <- 8,
    MaxOps <- OneTwo, Ops <- {"insert", "remove_if"}, len <- map_len

(* A thread collects the keys while the other changes them.                *)
ChtKeys == INSTANCE Cht WITH
    Threads <- {u1, u2}, Keys <- {h1, h2}, Hash <- HashOf, InitLen <- 4,
    Filled <- Two, DefaultLength <- 1, LenMod <- 16, MaxLength <- 8,
    MaxOps <- OneTwo, Ops <- {"insert", "remove_if", "keys"}, len <- map_len

(* Two threads that lock one key three times each; a task may be dropped   *)
(* while it waits.                                                         *)
Locks == INSTANCE KeyLockMap WITH
    Threads <- {t1, t2}, Tasks <- {t1, t2}, Keys <- {"k"}, MaxCalls <- 3
ASSUME Locks!KeyLockAssumption

(* Three threads.                                                          *)
LockQueue == INSTANCE KeyLockMap WITH
    Threads <- {t1, t2, t3}, Tasks <- {t1, t2, t3}, Keys <- {"k"},
    MaxCalls <- 1

(* The counters of the debug build, for bucket arrays of two sizes.        *)
Arrays == INSTANCE DebugCounters WITH
    Threads <- {t1, t2}, Objects <- {a1, a2, b1}, ClassOf <- ClassOf,
    SizeOf <- SizeOf

(* The same, with an object of each other class.                           *)
Snapshot == INSTANCE DebugCounters WITH
    Threads <- {t1, t2}, Objects <- {v1, e1, d1}, ClassOf <- ClassOf,
    SizeOf <- SizeOf

(* When maintenance runs: flush points of half the channels and instants   *)
(* past MAX_NANOS.                                                         *)
Hk == INSTANCE Housekeeper WITH
    MAX_NANOS <- 2, Threads <- {t1, t2}, Listener <- TRUE,
    LOG_SYNC_INTERVAL <- 2, maintenance_task_timeout <- 1,
    max_log_sync_repeats <- 1, max_capacity <- 1, eviction_batch_size <- 1,
    READ_LOG_FLUSH_POINT <- 1, WRITE_LOG_FLUSH_POINT <- 1,
    READ_LOG_CH_SIZE <- 1, WRITE_LOG_CH_SIZE <- 2, Drifts <- {0, 1},
    MaxElapsed <- 2, MaxWrites <- 3
ASSUME Hk!HousekeeperAssumption

(* Concurrent insertions while the invalidator scans in batches of one.    *)
Scan == INSTANCE Invalidator WITH
    Keys <- {k1, k2}, Values <- {v1, v2}, Threads <- {t1, t2},
    BatchSize <- 1, Serial <- FALSE, MaxInserts <- 2, MaxPredicates <- 1,
    MaxGets <- 0, cursor <- scan_cursor

(* One thread that registers two predicates and gets.                      *)
OneThread == INSTANCE Invalidator WITH
    Keys <- {k1, k2}, Values <- {v1, v2}, Threads <- {t1}, BatchSize <- 4,
    Serial <- TRUE, MaxInserts <- 2, MaxPredicates <- 2, MaxGets <- 1,
    cursor <- scan_cursor

(* A scan of the future cache that is dropped and resumed.                 *)
FutureScan == INSTANCE FutureInvalidator WITH
    Keys <- {k1, k2}, Values <- {v1, v2}, Threads <- {t1, t2},
    BatchSize <- 4, Serial <- FALSE, MaxInserts <- 2, MaxPredicates <- 1,
    MaxGets <- 0, MaxDrops <- 1, cursor <- scan_cursor

(* Gets of the future cache after invalidate_entries_if.                   *)
FutureGet == INSTANCE FutureInvalidator WITH
    Keys <- {k1}, Values <- {v1, v2}, Threads <- {t1, t2}, BatchSize <- 4,
    Serial <- TRUE, MaxInserts <- 2, MaxPredicates <- 1, MaxGets <- 1,
    MaxDrops <- 1, cursor <- scan_cursor

List == INSTANCE DequeList WITH seq <- Chain, at <- cursor

Map == INSTANCE ChtMap WITH
    Threads <- {u1, u2}, Keys <- {h1, h2},
    map <- [k \in {h1, h2} |-> Cht!Value(k)],
    call <- [t \in {u1, u2} |-> IF thr[t].pc = "idle" THEN None ELSE [op |-> thr[t].op, key |-> thr[t].key]],
    done <- [t \in {u1, u2} |-> IF thr[t].pc \in {"count", "swing"} THEN [res |-> thr[t].res] ELSE None]

-----------------------------------------------------------------------------
MCInit ==
    \/ /\ part = "deque" /\ Init
       /\ arrays = None /\ current = None /\ map_len = None /\ thr = None
       /\ mem = None /\ locks = None /\ owner = None /\ count = None
       /\ pinned = None /\ limbo = None /\ th = None /\ COUNTERS = None
       /\ made = None /\ gone = None /\ owes = None /\ pos = None
       /\ snap = None /\ seen = None /\ pc = None /\ call = None
       /\ now = None /\ elapsed = None /\ writes = None /\ rch = None
       /\ wch = None /\ size = None /\ run_lock = None /\ run_after = None
       /\ more_entries_to_evict = None /\ run = None /\ last = None
       /\ skipped = None /\ owed = None /\ bucket = None /\ info = None
       /\ write_op_ch = None /\ write_order = None /\ scan_cursor = None
       /\ predicates = None /\ is_empty = None /\ scan_context = None
       /\ left = None /\ mpc = None /\ m = None /\ returned = None
       /\ hk = None /\ lock = None /\ telling = None
       /\ interrupted_op_ch = None /\ drops = None
    \/ /\ \/ part = "map" /\ Cht!Init
          \/ part = "memory" /\ ChtMem!Init
          \/ part = "keys" /\ ChtKeys!Init
       /\ Init
       /\ locks = None /\ owner = None /\ count = None /\ pinned = None
       /\ limbo = None /\ th = None /\ COUNTERS = None /\ made = None
       /\ gone = None /\ owes = None /\ pos = None /\ snap = None
       /\ seen = None /\ pc = None /\ call = None /\ now = None
       /\ elapsed = None /\ writes = None /\ rch = None /\ wch = None
       /\ size = None /\ run_lock = None /\ run_after = None
       /\ more_entries_to_evict = None /\ run = None /\ last = None
       /\ skipped = None /\ owed = None /\ bucket = None /\ info = None
       /\ write_op_ch = None /\ write_order = None /\ scan_cursor = None
       /\ predicates = None /\ is_empty = None /\ scan_context = None
       /\ left = None /\ mpc = None /\ m = None /\ returned = None
       /\ hk = None /\ lock = None /\ telling = None
       /\ interrupted_op_ch = None /\ drops = None
    \/ /\ \/ part = "locks" /\ Locks!Init
          \/ part = "lock_queue" /\ LockQueue!Init
       /\ Init
       /\ arrays = None /\ current = None /\ map_len = None /\ thr = None
       /\ mem = None /\ COUNTERS = None /\ made = None /\ gone = None
       /\ owes = None /\ pos = None /\ snap = None /\ seen = None
       /\ pc = None /\ call = None /\ now = None /\ elapsed = None
       /\ writes = None /\ rch = None /\ wch = None /\ size = None
       /\ run_lock = None /\ run_after = None
       /\ more_entries_to_evict = None /\ run = None /\ last = None
       /\ skipped = None /\ owed = None /\ bucket = None /\ info = None
       /\ write_op_ch = None /\ write_order = None /\ scan_cursor = None
       /\ predicates = None /\ is_empty = None /\ scan_context = None
       /\ left = None /\ mpc = None /\ m = None /\ returned = None
       /\ hk = None /\ lock = None /\ telling = None
       /\ interrupted_op_ch = None /\ drops = None
    \/ /\ \/ part = "arrays" /\ Arrays!Init
          \/ part = "snapshot" /\ Snapshot!Init
       /\ Init
       /\ arrays = None /\ current = None /\ map_len = None /\ thr = None
       /\ mem = None /\ locks = None /\ owner = None /\ count = None
       /\ pinned = None /\ limbo = None /\ th = None /\ pc = None
       /\ call = None /\ now = None /\ elapsed = None /\ writes = None
       /\ rch = None /\ wch = None /\ size = None /\ run_lock = None
       /\ run_after = None /\ more_entries_to_evict = None /\ run = None
       /\ last = None /\ skipped = None /\ owed = None /\ bucket = None
       /\ info = None /\ write_op_ch = None /\ write_order = None
       /\ scan_cursor = None /\ predicates = None /\ is_empty = None
       /\ scan_context = None /\ left = None /\ mpc = None /\ m = None
       /\ returned = None /\ hk = None /\ lock = None /\ telling = None
       /\ interrupted_op_ch = None /\ drops = None
    \/ /\ part = "housekeeper" /\ Hk!Init
       /\ Init
       /\ arrays = None /\ current = None /\ map_len = None /\ thr = None
       /\ mem = None /\ locks = None /\ owner = None /\ count = None
       /\ pinned = None /\ limbo = None /\ th = None /\ COUNTERS = None
       /\ made = None /\ gone = None /\ owes = None /\ pos = None
       /\ snap = None /\ seen = None /\ bucket = None /\ info = None
       /\ write_op_ch = None /\ write_order = None /\ scan_cursor = None
       /\ predicates = None /\ is_empty = None /\ scan_context = None
       /\ left = None /\ mpc = None /\ m = None /\ returned = None
       /\ hk = None /\ lock = None /\ telling = None
       /\ interrupted_op_ch = None /\ drops = None
    \/ /\ \/ part = "scan" /\ Scan!Init
          \/ part = "serial" /\ OneThread!Init
       /\ Init
       /\ arrays = None /\ current = None /\ map_len = None /\ mem = None
       /\ locks = None /\ owner = None /\ count = None /\ pinned = None
       /\ limbo = None /\ th = None /\ COUNTERS = None /\ made = None
       /\ owes = None /\ pos = None /\ snap = None /\ seen = None
       /\ pc = None /\ call = None /\ elapsed = None /\ writes = None
       /\ rch = None /\ wch = None /\ size = None /\ run_lock = None
       /\ run_after = None /\ more_entries_to_evict = None /\ run = None
       /\ last = None /\ skipped = None /\ owed = None /\ hk = None
       /\ lock = None /\ telling = None /\ interrupted_op_ch = None
       /\ drops = None
    \/ /\ \/ part = "future_scan" /\ FutureScan!Init
          \/ part = "future_get" /\ FutureGet!Init
       /\ Init
       /\ arrays = None /\ current = None /\ map_len = None /\ mem = None
       /\ locks = None /\ owner = None /\ count = None /\ pinned = None
       /\ limbo = None /\ th = None /\ COUNTERS = None /\ made = None
       /\ owes = None /\ pos = None /\ snap = None /\ seen = None
       /\ pc = None /\ call = None /\ elapsed = None /\ writes = None
       /\ rch = None /\ wch = None /\ size = None /\ run_lock = None
       /\ run_after = None /\ more_entries_to_evict = None /\ run = None
       /\ last = None /\ skipped = None /\ owed = None

MCNext ==
    \/ /\ part = "deque" /\ Next
       /\ UNCHANGED <<part, arrays, current, map_len, thr, mem, locks,
                   owner, count, pinned, limbo, th, COUNTERS, made, gone,
                   owes, pos, snap, seen, pc, call, now, elapsed, writes,
                   rch, wch, size, run_lock, run_after,
                   more_entries_to_evict, run, last, skipped, owed,
                   bucket, info, write_op_ch, write_order, scan_cursor,
                   predicates, is_empty, scan_context, left, mpc, m,
                   returned, hk, lock, telling, interrupted_op_ch, drops>>
    \/ /\ \/ part = "map" /\ Cht!Next
          \/ part = "memory" /\ ChtMem!Next
          \/ part = "keys" /\ ChtKeys!Next
       /\ UNCHANGED <<part, locks, owner, count, pinned, limbo, th,
                   COUNTERS, made, gone, owes, pos, snap, seen, pc, call,
                   now, elapsed, writes, rch, wch, size, run_lock,
                   run_after, more_entries_to_evict, run, last, skipped,
                   owed, bucket, info, write_op_ch, write_order,
                   scan_cursor, predicates, is_empty, scan_context, left,
                   mpc, m, returned, hk, lock, telling,
                   interrupted_op_ch, drops, vars>>
    \/ /\ \/ part = "locks" /\ Locks!Next
          \/ part = "lock_queue" /\ LockQueue!Next
       /\ UNCHANGED <<part, arrays, current, map_len, thr, mem, COUNTERS,
                   made, gone, owes, pos, snap, seen, pc, call, now,
                   elapsed, writes, rch, wch, size, run_lock, run_after,
                   more_entries_to_evict, run, last, skipped, owed,
                   bucket, info, write_op_ch, write_order, scan_cursor,
                   predicates, is_empty, scan_context, left, mpc, m,
                   returned, hk, lock, telling, interrupted_op_ch, drops,
                   vars>>
    \/ /\ \/ part = "arrays" /\ Arrays!Next
          \/ part = "snapshot" /\ Snapshot!Next
       /\ UNCHANGED <<part, arrays, current, map_len, thr, mem, locks,
                   owner, count, pinned, limbo, th, pc, call, now,
                   elapsed, writes, rch, wch, size, run_lock, run_after,
                   more_entries_to_evict, run, last, skipped, owed,
                   bucket, info, write_op_ch, write_order, scan_cursor,
                   predicates, is_empty, scan_context, left, mpc, m,
                   returned, hk, lock, telling, interrupted_op_ch, drops,
                   vars>>
    \/ /\ part = "housekeeper" /\ Hk!Next
       /\ UNCHANGED <<part, arrays, current, map_len, thr, mem, locks,
                   owner, count, pinned, limbo, th, COUNTERS, made, gone,
                   owes, pos, snap, seen, bucket, info, write_op_ch,
                   write_order, scan_cursor, predicates, is_empty,
                   scan_context, left, mpc, m, returned, hk, lock,
                   telling, interrupted_op_ch, drops, vars>>
    \/ /\ \/ part = "scan" /\ Scan!Next
          \/ part = "serial" /\ OneThread!Next
       /\ UNCHANGED <<part, arrays, current, map_len, mem, locks, owner,
                   count, pinned, limbo, th, COUNTERS, made, owes, pos,
                   snap, seen, pc, call, elapsed, writes, rch, wch, size,
                   run_lock, run_after, more_entries_to_evict, run, last,
                   skipped, owed, hk, lock, telling, interrupted_op_ch,
                   drops, vars>>
    \/ /\ \/ part = "future_scan" /\ FutureScan!Next
          \/ part = "future_get" /\ FutureGet!Next
       /\ UNCHANGED <<part, arrays, current, map_len, mem, locks, owner,
                   count, pinned, limbo, th, COUNTERS, made, owes, pos,
                   snap, seen, pc, call, elapsed, writes, rch, wch, size,
                   run_lock, run_after, more_entries_to_evict, run, last,
                   skipped, owed, vars>>

mcvars == <<part, vars, arrays, current, map_len, thr, mem, locks, owner, count,
            pinned, limbo, th, COUNTERS, made, gone, owes, pos, snap,
            seen, pc, call, now, elapsed, writes, rch, wch, size,
            run_lock, run_after, more_entries_to_evict, run, last,
            skipped, owed, bucket, info, write_op_ch, write_order,
            scan_cursor, predicates, is_empty, scan_context, left, mpc, m,
            returned, hk, lock, telling, interrupted_op_ch, drops>>

MCSpec == MCInit /\ [][MCNext]_mcvars
-----------------------------------------------------------------------------
(* Deque behaves as a sequence: the chain of links reaches every linked    *)
(* node once, in the order of the pushes and moves, and the cursor of the  *)
(* iterator stands where the sequence has it.                              *)
ImplementsList == List!Spec

(* The hash table behaves as a map, rehashes or not: each call takes       *)
(* effect at one step between its begin and its return, with the result    *)
(* that the map gives at this step.                                        *)
ImplementsMap ==
    /\ part = "map" => Map!Init
    /\ [][part = "map" => Map!Next \/ UNCHANGED Map!mapvars]_mcvars

(* A bucket that a rehash has copied has pointers in two arrays: what a    *)
(* thread can reach has not been handed over to be freed, nothing is freed *)
(* twice, when the table is dropped all buckets and values have been       *)
(* freed, and no thread is in an array into which another one is still     *)
(* copying.                                                                *)
BucketsFreedOnce == part = "memory" => /\ ChtMem!NextIsPrivate
                          /\ ChtMem!NoFreedBucket
                          /\ ChtMem!NoDoubleFree
                          /\ ChtMem!AllFreed

(* keys gives every key that was there all the time, and none twice.       *)
KeysComplete == part = "keys" => ChtKeys!KeysComplete

(* The reference count by which the last user of a key lock removes it     *)
(* from the table is the number of references there are, and no thread can *)
(* reach a mutex that was freed.                                           *)
LocksCounted ==
    /\ part = "locks" => Locks!CountIsReferences /\ Locks!NoUseAfterFree
    /\ part = "lock_queue" => /\ LockQueue!CountIsReferences
                              /\ LockQueue!NoUseAfterFree

(* The counters of the debug build agree with the objects that are alive,  *)
(* and a snapshot, which reads them one at a time while threads go on,     *)
(* never shows more objects alive than there were.                         *)
CountersAgree ==
    /\ part = "arrays" => Arrays!LiveCounted
    /\ part = "snapshot" => Snapshot!NoFalseLeak

(* A call that begins when maintenance is due does not return before a run *)
(* has begun; a run that the timeout stops announces the entries it        *)
(* leaves; and run_after, which every get and insert unwraps, is set       *)
(* however far the clock has gone.                                         *)
RunsHappen == part = "housekeeper" => /\ Hk!DueRunHappens
                               /\ Hk!LeftoverAnnounced
                               /\ Hk!RunAfterSet

(* What the scan removes is a value that some predicate matches which was  *)
(* registered after the value was written, and not that of a later insert; *)
(* its cursor never points at a freed node; and a get after                *)
(* invalidate_entries_if does not return a value that the predicate        *)
(* matches.                                                                *)
ScanSound ==
    /\ part = "scan" => Scan!RemovedWasMatched
    /\ part = "serial" => /\ OneThread!CursorValid
                          /\ OneThread!NoInvalidatedHit
    /\ part = "future_scan" => /\ FutureScan!RemovedWasMatched
                               /\ FutureScan!CursorValid
    /\ part = "future_get" => FutureGet!NoInvalidatedHit
=============================================================================

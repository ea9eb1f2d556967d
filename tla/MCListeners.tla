---------------------------- MODULE MCListeners -----------------------------
(***************************************************************************)
(* How removed entries are told of and released: the reference counts of   *)
(* MiniArc, the eviction listeners of the sync and of the future cache,    *)
(* and the future cache whose calls may be dropped while a listener runs.  *)
(* A behaviour is of one part.                                             *)
(***************************************************************************)
EXTENDS MiniArc, Sequences, TLC

CONSTANTS None, t1, t2, maint, k1, k2

VARIABLES
    part,      \* the part this behaviour is of
    now, valid_after, bucket, info, is_enabled, lock, thr, ops, made, told,
    late, panics, interrupted_op_ch, done, cancels, entry_gen, policy_gen,
    policy_weight, last_accessed, admitted, retired, allocs, read_op_ch,
    write_op_ch, probation, counters, published, mpc, m, hk, fut, listeners,
    owed, gone

Symmetry == Permutations({t1, t2}) \cup Permutations({k1, k2})

-----------------------------------------------------------------------------
(* Two threads that replace and remove the value of one key.               *)
Order == INSTANCE Notifier WITH
    Threads <- {t1, t2}, Maint <- maint, Keys <- {k1}, time_to_live <- None,
    time_to_idle <- None, MaxOps <- 2, MaxRuns <- 1, MaxPanics <- 0,
    MaxTime <- 1

(* The same with values that expire.                                       *)
Cause == INSTANCE Notifier WITH
    Threads <- {t1, t2}, Maint <- maint, Keys <- {k1}, time_to_live <- 1,
    time_to_idle <- None, MaxOps <- 2, MaxRuns <- 1, MaxPanics <- 0,
    MaxTime <- 1

(* Listeners that panic.                                                   *)
Panic == INSTANCE Notifier WITH
    Threads <- {t1, t2}, Maint <- maint, Keys <- {k1}, time_to_live <- None,
    time_to_idle <- None, MaxOps <- 2, MaxRuns <- 1, MaxPanics <- 2,
    MaxTime <- 0

(* Calls of the future cache that are dropped while the listener runs.     *)
Dropped == INSTANCE FutureNotifier WITH
    Threads <- {t1, t2}, Maint <- maint, Keys <- {k1}, time_to_live <- None,
    time_to_idle <- None, MaxOps <- 2, MaxRuns <- 1, MaxPanics <- 0,
    MaxTime <- 0, MaxCancels <- 2

(* Listeners of the future cache that panic.                               *)
FuturePanic == INSTANCE FutureNotifier WITH
    Threads <- {t1, t2}, Maint <- maint, Keys <- {k1}, time_to_live <- None,
    time_to_idle <- None, MaxOps <- 2, MaxRuns <- 1, MaxPanics <- 1,
    MaxTime <- 0, MaxCancels <- 1

(* Insertions and invalidations of the future cache that are dropped.      *)
Cancel == INSTANCE FutureBaseCache WITH
    Keys <- {k1, k2}, Threads <- {t1, t2}, Weights <- {1}, Freqs <- {0, 1},
    MaxCapacity <- 1, Policy <- "Lru", KeyLocks <- TRUE, WriteChSize <- 1,
    ReadChSize <- 1, FlushPoint <- 1, MaxLogSyncRepeats <- 0,
    BatchSize <- 1, MaxConsecutiveRetries <- 0, GenMod <- 16,
    Calls <- {"insert", "invalidate"}, MaxAllocs <- 4, MaxOps <- 4,
    MaxRetries <- 0, MaxTime <- 0, MayDrop <- TRUE

(* Maintenance that is dropped with the call that runs it.                 *)
Run == INSTANCE FutureBaseCache WITH
    Keys <- {k1, k2}, Threads <- {t1, t2}, Weights <- {1}, Freqs <- {0, 1},
    MaxCapacity <- 1, Policy <- "Lru", KeyLocks <- TRUE, WriteChSize <- 1,
    ReadChSize <- 1, FlushPoint <- 1, MaxLogSyncRepeats <- 0,
    BatchSize <- 1, MaxConsecutiveRetries <- 0, GenMod <- 16,
    Calls <- {"insert", "get", "run_pending_tasks"}, MaxAllocs <- 3,
    MaxOps <- 3, MaxRetries <- 0, MaxTime <- 0, MayDrop <- TRUE

(* The same under TinyLFU, with weights that do and do not fit.            *)
Lfu == INSTANCE FutureBaseCache WITH
    Keys <- {k1}, Threads <- {t1, t2}, Weights <- {1, 2}, Freqs <- {0, 1},
    MaxCapacity <- 1, Policy <- "TinyLfu", KeyLocks <- TRUE,
    WriteChSize <- 1, ReadChSize <- 1, FlushPoint <- 1,
    MaxLogSyncRepeats <- 0, BatchSize <- 1, MaxConsecutiveRetries <- 0,
    GenMod <- 16, Calls <- {"insert"}, MaxAllocs <- 4, MaxOps <- 4,
    MaxRetries <- 0, MaxTime <- 0, MayDrop <- TRUE

(* No listener, hence no key locks.                                        *)
NoListener == INSTANCE FutureBaseCache WITH
    Keys <- {k1}, Threads <- {t1, t2}, Weights <- {1}, Freqs <- {0, 1},
    MaxCapacity <- 1, Policy <- "Lru", KeyLocks <- FALSE, WriteChSize <- 1,
    ReadChSize <- 1, FlushPoint <- 1, MaxLogSyncRepeats <- 0,
    BatchSize <- 1, MaxConsecutiveRetries <- 0, GenMod <- 16,
    Calls <- {"insert", "invalidate"}, MaxAllocs <- 4, MaxOps <- 4,
    MaxRetries <- 0, MaxTime <- 0, MayDrop <- TRUE

-----------------------------------------------------------------------------
MCInit ==
    \/ /\ part = "arc" /\ Init
       /\ now = None /\ valid_after = None /\ bucket = None /\ info = None
       /\ is_enabled = None /\ lock = None /\ thr = None /\ ops = None
       /\ made = None /\ told = None /\ late = None /\ panics = None
       /\ interrupted_op_ch = None /\ done = None /\ cancels = None
       /\ entry_gen = None /\ policy_gen = None /\ policy_weight = None
       /\ last_accessed = None /\ admitted = None /\ retired = None
       /\ allocs = None /\ read_op_ch = None /\ write_op_ch = None
       /\ probation = None /\ counters = None /\ published = None
       /\ mpc = None /\ m = None /\ hk = None /\ fut = None
       /\ listeners = None /\ owed = None /\ gone = None
    \/ /\ \/ part = "order" /\ Order!Init
          \/ part = "cause" /\ Cause!Init
          \/ part = "panic" /\ Panic!Init
       /\ Init
       /\ interrupted_op_ch = None /\ done = None /\ cancels = None
       /\ entry_gen = None /\ policy_gen = None /\ policy_weight = None
       /\ last_accessed = None /\ admitted = None /\ retired = None
       /\ allocs = None /\ read_op_ch = None /\ write_op_ch = None
       /\ probation = None /\ counters = None /\ published = None
       /\ mpc = None /\ m = None /\ hk = None /\ fut = None
       /\ listeners = None /\ owed = None /\ gone = None
    \/ /\ \/ part = "dropped" /\ Dropped!Init
          \/ part = "future_panic" /\ FuturePanic!Init
       /\ Init
       /\ entry_gen = None /\ policy_gen = None /\ policy_weight = None
       /\ last_accessed = None /\ admitted = None /\ retired = None
       /\ allocs = None /\ read_op_ch = None /\ write_op_ch = None
       /\ probation = None /\ counters = None /\ published = None
       /\ mpc = None /\ m = None /\ hk = None /\ fut = None
       /\ listeners = None /\ owed = None /\ gone = None
    \/ /\ \/ part = "cancel" /\ Cancel!FInit
          \/ part = "run" /\ Run!FInit
          \/ part = "tinylfu" /\ Lfu!FInit
          \/ part = "no_listener" /\ NoListener!FInit
       /\ Init
       /\ valid_after = None /\ info = None /\ is_enabled = None
       /\ made = None /\ late = None /\ panics = None /\ done = None
       /\ cancels = None

MCNext ==
    \/ /\ part = "arc" /\ Next
       /\ UNCHANGED <<part, now, valid_after, bucket, info, is_enabled,
                   lock, thr, ops, made, told, late, panics,
                   interrupted_op_ch, done, cancels, entry_gen,
                   policy_gen, policy_weight, last_accessed, admitted,
                   retired, allocs, read_op_ch, write_op_ch, probation,
                   counters, published, mpc, m, hk, fut, listeners, owed,
                   gone>>
    \/ /\ \/ part = "order" /\ Order!Next
          \/ part = "cause" /\ Cause!Next
          \/ part = "panic" /\ Panic!Next
       /\ UNCHANGED <<part, interrupted_op_ch, done, cancels, entry_gen,
                   policy_gen, policy_weight, last_accessed, admitted,
                   retired, allocs, read_op_ch, write_op_ch, probation,
                   counters, published, mpc, m, hk, fut, listeners, owed,
                   gone, vars>>
    \/ /\ \/ part = "dropped" /\ Dropped!Next
          \/ part = "future_panic" /\ FuturePanic!Next
       /\ UNCHANGED <<part, entry_gen, policy_gen, policy_weight,
                   last_accessed, admitted, retired, allocs, read_op_ch,
                   write_op_ch, probation, counters, published, mpc, m,
                   hk, fut, listeners, owed, gone, vars>>
    \/ /\ \/ part = "cancel" /\ Cancel!FNext
          \/ part = "run" /\ Run!FNext
          \/ part = "tinylfu" /\ Lfu!FNext
          \/ part = "no_listener" /\ NoListener!FNext
       /\ UNCHANGED <<part, valid_after, info, is_enabled, made, late,
                   panics, done, cancels, vars>>

mcvars == <<part, vars, now, valid_after, bucket, info, is_enabled, lock, thr, ops,
            made, told, late, panics, interrupted_op_ch, done, cancels,
            entry_gen, policy_gen, policy_weight, last_accessed, admitted,
            retired, allocs, read_op_ch, write_op_ch, probation, counters,
            published, mpc, m, hk, fut, listeners, owed, gone>>

MCSpec == MCInit /\ [][MCNext]_mcvars
-----------------------------------------------------------------------------
(* The listener is told of every value that leaves the table, and once;    *)
(* after it has panicked each thread calls it at most once more; and when  *)
(* a call is dropped while the listener runs, the future of the            *)
(* notification is kept to be resumed.                                     *)
ToldOnce ==
    /\ part = "order" => Order!ToldOnce /\ Order!NoneMissed
    /\ part = "panic" => Panic!LateOnce
    /\ part = "dropped" => Dropped!NoneDropped
    /\ part = "future_panic" => FuturePanic!LateOnce
    /\ part = "cancel" => Cancel!ToldOnce
    /\ part = "tinylfu" => Lfu!ToldOnce

(* The notifications made under the lock of a key come in the order in     *)
(* which its values left the table; a value taken out after its time to    *)
(* live is reported as Expired, and one that invalidate_all had discarded  *)
(* is not reported as Replaced.                                            *)
OrderAndCause ==
    /\ part = "order" => Order!LockedInOrder
    /\ part = "dropped" => Dropped!LockedInOrder
    /\ part = "cause" => Cause!CauseHolds

(* No entry of the future cache escapes the policies because its writer    *)
(* was dropped, nor stays in the deque because the one who removed it was: *)
(* it is admitted or unlinked, or its WriteOp is on its way; and when      *)
(* every call is over each entry in the deque can be evicted.              *)
ChangesAreTracked ==
    /\ part = "cancel" => Cancel!WritesAreTracked
    /\ part = "run" => Run!QuietIsEvictable
    /\ part = "no_listener" => NoListener!RemovesAreTracked
=============================================================================

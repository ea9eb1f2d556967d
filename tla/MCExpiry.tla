----------------------------- MODULE MCExpiry -------------------------------
(***************************************************************************)
(* Expiration, in the sync and in the future cache, with the timer wheel   *)
(* and the expiration time and generation that an entry keeps in one word. *)
(* A behaviour is of one part.                                             *)
(***************************************************************************)
EXTENDS Integers, TLC

CONSTANTS None, k1, t1, t2, s1, s2, r1, e1, e2, Sentinel

VARIABLES
    part,      \* the part this behaviour is of
    now, valid_after, bucket, info, read_op_ch, write_op_ch, lock, deq,
    wheel, thr, ops, mpc, m, removed, invalidated, hk, guard,
    interrupted_op_ch, expired_keys, exp, wheels, node, timer_node, current,
    iter, work, changes, expiration_state, setter, reader, log, scheduled

(* Levels of two, two and one buckets, of 2, 4 (3, aligned) and 8 units.   *)
SmallCounts == (0 :> 2) @@ (1 :> 2) @@ (2 :> 1)
SmallDurations == (0 :> 2) @@ (1 :> 3)

Symmetry == Permutations({t1, t2})

-----------------------------------------------------------------------------
(* time_to_live and time_to_idle.                                          *)
Ttl == INSTANCE Expiration WITH
    Keys <- {k1}, Threads <- {t1, t2}, time_to_live <- 2, time_to_idle <- 1,
    Expiry <- FALSE, Durations <- {}, KeyLocks <- TRUE,
    Calls <- {"insert", "get", "invalidate_all"}, ReadChSize <- 2,
    BatchSize <- 2, MaxInfos <- 2, MaxOps <- 2, LastCall <- 2, MaxTime <- 2

(* contains_key and the iterator.                                          *)
Contains == INSTANCE Expiration WITH
    Keys <- {k1}, Threads <- {t1, t2}, time_to_live <- 2, time_to_idle <- 1,
    Expiry <- FALSE, Durations <- {}, KeyLocks <- TRUE,
    Calls <- {"insert", "contains_key", "iter"}, ReadChSize <- 2,
    BatchSize <- 2, MaxInfos <- 2, MaxOps <- 2, LastCall <- 2, MaxTime <- 2

(* Expiration times that an Expiry sets.                                   *)
Timers == INSTANCE Expiration WITH
    Keys <- {k1}, Threads <- {t1, t2}, time_to_live <- None,
    time_to_idle <- None, Expiry <- TRUE, Durations <- {None, 1},
    KeyLocks <- TRUE, Calls <- {"insert", "invalidate"}, ReadChSize <- 4,
    BatchSize <- 2, MaxInfos <- 2, MaxOps <- 2, LastCall <- 1, MaxTime <- 2

(* time_to_live and time_to_idle of the future cache, whose calls may be   *)
(* dropped.                                                                *)
FutureTtl == INSTANCE FutureExpiration WITH
    Keys <- {k1}, Threads <- {t1, t2}, time_to_live <- 2, time_to_idle <- 1,
    Expiry <- FALSE, Durations <- {}, KeyLocks <- TRUE,
    Calls <- {"insert", "get", "run"}, ReadChSize <- 2, BatchSize <- 2,
    MaxInfos <- 2, MaxOps <- 2, LastCall <- 1, MaxTime <- 2, MayDrop <- TRUE

(* contains_key and the iterator of the future cache.                      *)
FutureContains == INSTANCE FutureExpiration WITH
    Keys <- {k1}, Threads <- {t1, t2}, time_to_live <- 2, time_to_idle <- 1,
    Expiry <- FALSE, Durations <- {}, KeyLocks <- TRUE,
    Calls <- {"insert", "contains_key", "iter"}, ReadChSize <- 2,
    BatchSize <- 2, MaxInfos <- 2, MaxOps <- 2, LastCall <- 2, MaxTime <- 2,
    MayDrop <- FALSE

(* Expiration times that an Expiry sets, in the future cache.              *)
FutureTimers == INSTANCE FutureExpiration WITH
    Keys <- {k1}, Threads <- {t1, t2}, time_to_live <- None,
    time_to_idle <- None, Expiry <- TRUE, Durations <- {0},
    KeyLocks <- TRUE, Calls <- {"insert", "get", "run"}, ReadChSize <- 4,
    BatchSize <- 2, MaxInfos <- 2, MaxOps <- 2, LastCall <- 1, MaxTime <- 1,
    MayDrop <- TRUE

(* The same with no listener, hence no key locks.                          *)
NoListener == INSTANCE FutureExpiration WITH
    Keys <- {k1}, Threads <- {t1, t2}, time_to_live <- None,
    time_to_idle <- None, Expiry <- TRUE, Durations <- {0},
    KeyLocks <- FALSE, Calls <- {"insert", "invalidate", "run"},
    ReadChSize <- 4, BatchSize <- 2, MaxInfos <- 2, MaxOps <- 2,
    LastCall <- 1, MaxTime <- 1, MayDrop <- TRUE

(* One timer, through all the levels of the wheel.                         *)
Levels == INSTANCE TimerWheel WITH
    Entries <- {e1}, BUCKET_COUNTS <- SmallCounts,
    DURATIONS <- SmallDurations, origin <- 1, MaxTime <- 11,
    MaxExpiry <- 18, MaxChanges <- 1, MayPanic <- FALSE
ASSUME Levels!WheelAssumption

(* Two timers, which may share a bucket, and a callback that may panic.    *)
TwoTimers == INSTANCE TimerWheel WITH
    Entries <- {e1, e2}, BUCKET_COUNTS <- SmallCounts,
    DURATIONS <- SmallDurations, origin <- 1, MaxTime <- 4, MaxExpiry <- 5,
    MaxChanges <- 2, MayPanic <- TRUE

(* A word of four bits, two of them for the time, and every instant.       *)
Word == INSTANCE EntryInfo WITH
    Setters <- {s1, s2}, Readers <- {}, TimeBits <- 2, GenBits <- 2,
    Times <- 0..15, MaxSets <- 3
ASSUME Word!EntryInfoAssumption

(* A reader that compares the generation it scheduled.                     *)
Stale == INSTANCE EntryInfo WITH
    Setters <- {s1, s2}, Readers <- {r1}, TimeBits <- 2, GenBits <- 2,
    Times <- {5, 15}, MaxSets <- 4
ASSUME Stale!EntryInfoAssumption

-----------------------------------------------------------------------------
MCInit ==
    \/ /\ \/ part = "ttl" /\ Ttl!Init
          \/ part = "contains" /\ Contains!Init
          \/ part = "timers" /\ Timers!Init
       /\ hk = None /\ guard = None /\ interrupted_op_ch = None
       /\ expired_keys = None /\ exp = None /\ wheels = None /\ node = None
       /\ timer_node = None /\ current = None /\ iter = None /\ work = None
       /\ changes = None /\ expiration_state = None /\ setter = None
       /\ reader = None /\ log = None /\ scheduled = None
    \/ /\ \/ part = "future_ttl" /\ FutureTtl!Init
          \/ part = "future_contains" /\ FutureContains!Init
          \/ part = "future_timers" /\ FutureTimers!Init
          \/ part = "no_listener" /\ NoListener!Init
       /\ exp = None /\ wheels = None /\ node = None /\ timer_node = None
       /\ current = None /\ iter = None /\ work = None /\ changes = None
       /\ expiration_state = None /\ setter = None /\ reader = None
       /\ log = None /\ scheduled = None
    \/ /\ \/ part = "levels" /\ Levels!Init
          \/ part = "two" /\ TwoTimers!Init
       /\ now = None /\ valid_after = None /\ bucket = None /\ info = None
       /\ read_op_ch = None /\ write_op_ch = None /\ lock = None
       /\ deq = None /\ wheel = None /\ thr = None /\ ops = None
       /\ mpc = None /\ m = None /\ removed = None /\ invalidated = None
       /\ hk = None /\ guard = None /\ interrupted_op_ch = None
       /\ expired_keys = None /\ expiration_state = None /\ setter = None
       /\ reader = None /\ log = None /\ scheduled = None
    \/ /\ \/ part = "word" /\ Word!Init
          \/ part = "stale" /\ Stale!Init
       /\ now = None /\ valid_after = None /\ bucket = None /\ info = None
       /\ read_op_ch = None /\ write_op_ch = None /\ lock = None
       /\ deq = None /\ wheel = None /\ thr = None /\ ops = None
       /\ mpc = None /\ m = None /\ removed = None /\ invalidated = None
       /\ hk = None /\ guard = None /\ interrupted_op_ch = None
       /\ expired_keys = None /\ exp = None /\ wheels = None /\ node = None
       /\ timer_node = None /\ current = None /\ iter = None /\ work = None
       /\ changes = None

MCNext ==
    \/ /\ \/ part = "ttl" /\ Ttl!Next
          \/ part = "contains" /\ Contains!Next
          \/ part = "timers" /\ Timers!Next
       /\ UNCHANGED <<part, hk, guard, interrupted_op_ch, expired_keys, exp,
                   wheels, node, timer_node, current, iter, work,
                   changes, expiration_state, setter, reader, log,
                   scheduled>>
    \/ /\ \/ part = "future_ttl" /\ FutureTtl!Next
          \/ part = "future_contains" /\ FutureContains!Next
          \/ part = "future_timers" /\ FutureTimers!Next
          \/ part = "no_listener" /\ NoListener!Next
       /\ UNCHANGED <<part, exp, wheels, node, timer_node, current, iter,
                   work, changes, expiration_state, setter, reader, log,
                   scheduled>>
    \/ /\ \/ part = "levels" /\ Levels!Next
          \/ part = "two" /\ TwoTimers!Next
       /\ UNCHANGED <<part, now, valid_after, bucket, info, read_op_ch,
                   write_op_ch, lock, deq, wheel, thr, ops, mpc, m,
                   removed, invalidated, hk, guard, interrupted_op_ch,
                   expired_keys, expiration_state, setter, reader, log,
                   scheduled>>
    \/ /\ \/ part = "word" /\ Word!Next
          \/ part = "stale" /\ Stale!Next
       /\ UNCHANGED <<part, now, valid_after, bucket, info, read_op_ch,
                   write_op_ch, lock, deq, wheel, thr, ops, mpc, m,
                   removed, invalidated, hk, guard, interrupted_op_ch,
                   expired_keys, exp, wheels, node, timer_node, current,
                   iter, work, changes>>

mcvars == <<part, now, valid_after, bucket, info, read_op_ch, write_op_ch, lock,
            deq, wheel, thr, ops, mpc, m, removed, invalidated, hk, guard,
            interrupted_op_ch, expired_keys, exp, wheels, node,
            timer_node, current, iter, work, changes, expiration_state,
            setter, reader, log, scheduled>>

MCSpec == MCInit /\ [][MCNext]_mcvars
-----------------------------------------------------------------------------
(* No get, contains_key or iterator shows an entry that had expired when   *)
(* the call read the clock, and maintenance removes as expired only        *)
(* entries that are: an entry that is updated between the check and its    *)
(* removal stays.                                                          *)
ExpiredOnly ==
    /\ part = "ttl" => Ttl!NoExpiredHit /\ Ttl!RemovedWereExpired
    /\ part = "contains" => Contains!NoExpiredHit
    /\ part = "future_ttl" => /\ FutureTtl!NoExpiredHit
                              /\ FutureTtl!RemovedWereExpired
    /\ part = "future_contains" => FutureContains!NoExpiredHit
    /\ part = "timers" => Timers!RemovedWereExpired
    /\ part = "future_timers" => FutureTimers!RemovedWereExpired

(* An entry and its timer know each other, and when all operations have    *)
(* been applied each entry that has an expiration time has a timer, or     *)
(* nothing would ever remove it, whichever calls were dropped.             *)
TimersMatch ==
    /\ part = "timers" => Timers!TimerNodesMatch /\ Timers!QuietTimers
    /\ part = "future_timers" => /\ FutureTimers!TimerNodesMatch
                                 /\ FutureTimers!QuietTimers
    /\ part = "no_listener" => /\ NoListener!TimerNodesMatch
                               /\ NoListener!QuietTimers

(* Each timer is in the bucket that its node names, the pointer of an      *)
(* entry is to a node that is alive and of the generation it expects, and  *)
(* after an advance no timer that was set for a time to come is overdue by *)
(* a tick or more, through all the levels and when a callback panics.      *)
WheelSound ==
    /\ part = "levels" => /\ Levels!PositionsMatch
                          /\ Levels!PointersValid
                          /\ Levels!OnTime
    /\ part = "two" => /\ TwoTimers!PositionsMatch
                       /\ TwoTimers!PointersValid
                       /\ TwoTimers!OnTime

(* The generation counts the calls that set the expiration time it shares  *)
(* a word with, none is lost when two race; what is read is what the last  *)
(* call has set; and schedule makes a timer only if nobody has set another *)
(* time since update_timer_wheel looked.                                   *)
GenerationsKept ==
    /\ part = "word" => Word!GenCounts /\ Word!TimeKept
    /\ part = "stale" => Stale!StaleSeen
=============================================================================

---------------------------- MODULE Housekeeper ----------------------------
(***************************************************************************)
(* When maintenance of a sync cache runs (common/concurrent/housekeeper.rs *)
(* with apply_reads_if_needed and schedule_write_op of sync, and the loop  *)
(* of Inner::do_run_pending_tasks): a call runs it when a channel is at    *)
(* its flush point, when the interval since the last run is over or when   *)
(* the last run announced that it left entries to evict.                   *)
(*                                                                         *)
(* What a run does is abstracted to the lengths of the two channels and to *)
(* the number of entries in the deque, each of weight one.  An entry that  *)
(* was written and whose WriteOp has not been applied is dirty, and an     *)
(* eviction skips it.                                                      *)
(***************************************************************************)
EXTENDS Naturals, FiniteSetsExt

CONSTANTS
    MAX_NANOS,                      \* u64::MAX - 1, scaled down
    None,
    Threads,
    Listener,                       \* an eviction listener is set
    LOG_SYNC_INTERVAL,              \* of 300 ms
    maintenance_task_timeout,       \* of 100 ms
    max_log_sync_repeats,
    max_capacity,
    eviction_batch_size,
    READ_LOG_FLUSH_POINT,
    WRITE_LOG_FLUSH_POINT,
    READ_LOG_CH_SIZE,
    WRITE_LOG_CH_SIZE,
    Drifts,                         \* by how much fast_now may be ahead
    MaxElapsed,                     \* bound on the true elapsed time
    MaxWrites                       \* bound on the writes

HousekeeperAssumption ==
    /\ MAX_NANOS \in Nat \ {0}
    /\ Listener \in BOOLEAN
    /\ {LOG_SYNC_INTERVAL, maintenance_task_timeout, eviction_batch_size} \subseteq Nat \ {0}
    /\ READ_LOG_CH_SIZE >= READ_LOG_FLUSH_POINT
    /\ WRITE_LOG_CH_SIZE >= WRITE_LOG_FLUSH_POINT

-----------------------------------------------------------------------------
(***************************************************************************)
(* common/time: an Instant is a number of nanoseconds since the clock was  *)
(* made, from 0 to MAX_NANOS; one more, u64::MAX, is what an AtomicInstant *)
(* holds while it is unset.  All arithmetic saturates at MAX_NANOS, so     *)
(* that no computed instant reads as unset.                                *)
(***************************************************************************)
U64_MAX == MAX_NANOS + 1
Instants == 0..MAX_NANOS

LOCAL Least(a, b) == IF a <= b THEN a ELSE b

(* A Duration counts nanoseconds in a u128.                                *)
duration_to_saturating_nanoseconds(duration) == Least(duration, MAX_NANOS)

from_duration_since_clock_start(duration) ==
    duration_to_saturating_nanoseconds(duration)

saturating_add(i, duration) ==
    Least(Least(i + duration_to_saturating_nanoseconds(duration), U64_MAX), MAX_NANOS)

saturating_duration_since(i, earlier) == IF i <= earlier THEN 0 ELSE i - earlier
-----------------------------------------------------------------------------
(* AtomicInstant, as the u64 it holds.                                     *)
AtomicInstant_new(i) == i

is_set(a) == a # U64_MAX

instant(a) == IF is_set(a) THEN a ELSE None

set_instant(i) == i
-----------------------------------------------------------------------------
(* Clock, at a true elapsed time; quanta's clock may be off by drift.      *)
Clock_now(elapsed) == from_duration_since_clock_start(elapsed)

Clock_fast_now(elapsed, drift) == from_duration_since_clock_start(elapsed + drift)
-----------------------------------------------------------------------------
VARIABLES
    pc,                     \* thread -> where its call is
    call,                   \* thread -> the method called
    now,                    \* thread -> the instant the call read when it began
    elapsed,                \* true time since the clock was made
    writes,                 \* writes begun
    rch, wch,               \* lengths of the channels
    size,                   \* entries in the deque
    run_lock,               \* the thread that runs maintenance, or None
    run_after,              \* the AtomicInstant
    more_entries_to_evict,  \* the flag, None without a listener
    run,                    \* locals of do_run_pending_tasks
    last,                   \* true time at which the last run began
    skipped,                \* the last round of the last run skipped an entry
    owed                    \* thread -> its call began when a run was due

callVars == <<call, now, writes>>
hkVars == <<run_lock, run_after, more_entries_to_evict, last>>
vars == <<pc, callVars, elapsed, rch, wch, size, hkVars, run, skipped, owed>>

NoRun == [started |-> 0, calls |-> 0, logs |-> FALSE, more |-> FALSE]

Goto(t, p) == pc' = [pc EXCEPT ![t] = p]

Return(t) ==
    /\ Goto(t, "idle")
    /\ call' = [call EXCEPT ![t] = "read"]
    /\ now' = [now EXCEPT ![t] = 0]
-----------------------------------------------------------------------------
sync_after(i) == saturating_add(i, LOG_SYNC_INTERVAL)

flag == more_entries_to_evict = TRUE

should_apply(len, flush_point, i) == len >= flush_point \/ i >= instant(run_after)

should_apply_unflagged(len, i) == should_apply(len, READ_LOG_FLUSH_POINT, i)

should_apply_reads(len, i) == flag \/ should_apply(len, READ_LOG_FLUSH_POINT, i)

should_apply_writes(len, i) == flag \/ should_apply(len, WRITE_LOG_FLUSH_POINT, i)
-----------------------------------------------------------------------------
(* Housekeeper::new, with the instant BaseCache::new takes from fast_now.  *)
HousekeeperNew(drift) ==
    /\ run_lock = None
    /\ run_after = AtomicInstant_new(sync_after(Clock_fast_now(0, drift)))
    /\ more_entries_to_evict = IF Listener THEN FALSE ELSE None
    /\ last = drift

Init ==
    /\ \E drift \in Drifts : HousekeeperNew(drift)
    /\ pc = [t \in Threads |-> "idle"]
    /\ call = [t \in Threads |-> "read"]
    /\ now = [t \in Threads |-> 0]
    /\ elapsed = 0
    /\ writes = 0
    /\ rch = 0
    /\ wch = 0
    /\ size = 0
    /\ run = NoRun
    /\ skipped = FALSE
    /\ owed = [t \in Threads |-> FALSE]

Tick ==
    /\ elapsed < MaxElapsed
    /\ elapsed' = elapsed + 1
    /\ UNCHANGED <<pc, callVars, rch, wch, size, hkVars, run, skipped, owed>>

(* No run is in progress, and something calls for one: entries a run       *)
(* announced, a channel at its flush point, or the interval.               *)
RunDue(op) ==
    /\ run_lock = None
    /\ \/ more_entries_to_evict = TRUE
       \/ op = "read" /\ rch >= READ_LOG_FLUSH_POINT
       \/ op = "write" /\ wch >= WRITE_LOG_FLUSH_POINT
       \/ elapsed >= last + LOG_SYNC_INTERVAL

(* A get that hits, an insert (which has by now changed the table), or a   *)
(* call of run_pending_tasks.                                              *)
Begin(t, op) ==
    /\ pc[t] = "idle"
    /\ IF op = "write"
       THEN writes < MaxWrites /\ writes' = writes + 1
       ELSE UNCHANGED writes
    /\ call' = [call EXCEPT ![t] = op]
    /\ now' = [now EXCEPT ![t] = Clock_now(elapsed)]
    /\ owed' = [owed EXCEPT ![t] = RunDue(op)]
    /\ Goto(t, IF op = "run" THEN "lock" ELSE "check")
    /\ UNCHANGED <<elapsed, rch, wch, size, hkVars, run, skipped>>

ShouldRun(t, should) ==
    /\ Goto(t, IF should THEN "try_lock" ELSE "send")
    /\ UNCHANGED <<callVars, elapsed, rch, wch, size, hkVars, run, skipped, owed>>

apply_reads_if_needed(t) ==
    /\ pc[t] = "check"
    /\ call[t] = "read"
    /\ ShouldRun(t, should_apply_reads(rch, now[t]))

apply_reads_writes_if_needed(t) ==
    /\ pc[t] = "check"
    /\ call[t] = "write"
    /\ ShouldRun(t, should_apply_writes(wch, now[t]))

(* A full read channel drops the ReadOp.                                   *)
record_read_op(t) ==
    /\ pc[t] = "send"
    /\ call[t] = "read"
    /\ rch' = IF rch < READ_LOG_CH_SIZE THEN rch + 1 ELSE rch
    /\ Return(t)
    /\ UNCHANGED <<writes, elapsed, wch, size, hkVars, run, skipped, owed>>

(* A full write channel sends the writer round the loop again, with the    *)
(* instant it read before.                                                 *)
schedule_write_op(t) ==
    /\ pc[t] = "send"
    /\ call[t] = "write"
    /\ IF wch < WRITE_LOG_CH_SIZE
       THEN wch' = wch + 1 /\ Return(t)
       ELSE Goto(t, "check") /\ UNCHANGED <<wch, call, now>>
    /\ UNCHANGED <<writes, elapsed, rch, size, hkVars, run, skipped, owed>>
-----------------------------------------------------------------------------
(* The head of do_run_pending_tasks: of the housekeeper, which reads the   *)
(* clock again, and of Inner.                                              *)
StartRun(t) ==
    /\ run_lock' = t
    /\ run_after' = set_instant(sync_after(Clock_now(elapsed)))
    /\ last' = elapsed
    /\ run' = [NoRun EXCEPT !.started = Clock_now(elapsed), !.logs = TRUE]
    /\ owed' = [u \in Threads |-> FALSE]
    /\ Goto(t, "logs")

run_pending_tasks(t) ==
    /\ pc[t] = "lock"
    /\ run_lock = None
    /\ StartRun(t)
    /\ UNCHANGED <<callVars, elapsed, rch, wch, size, more_entries_to_evict, skipped>>

try_run_pending_tasks(t) ==
    /\ pc[t] = "try_lock"
    /\ IF run_lock = None
       THEN StartRun(t)
       ELSE /\ Goto(t, "send")
            /\ UNCHANGED <<run_lock, run_after, last, run, owed>>
    /\ UNCHANGED <<callVars, elapsed, rch, wch, size, more_entries_to_evict, skipped>>

(* The logs are applied; a WriteOp may be of an insert, of an update or of *)
(* a removal.                                                              *)
ProcessLogs(t) ==
    /\ pc[t] = "logs"
    /\ IF run.logs
       THEN /\ rch' = 0
            /\ wch' = 0
            /\ size' \in {n \in 0..(size + wch) : n + wch >= size}
            /\ run' = [run EXCEPT !.calls = @ + 1]
       ELSE UNCHANGED <<rch, wch, size, run>>
    /\ Goto(t, "evict")
    /\ UNCHANGED <<callVars, elapsed, hkVars, skipped, owed>>

(* A writer has changed the table before it sends its WriteOp.             *)
Dirty ==
    wch + Cardinality({t \in Threads : call[t] = "write" /\ pc[t] \in {"check", "try_lock", "send"}})

(* weights_to_evict.                                                       *)
excess == IF size > max_capacity THEN size - max_capacity ELSE 0

(* evict_lru_entries, when d of the entries in the deque are dirty: e are  *)
(* evicted in eviction_batch_size iterations.  A skipped entry uses up an  *)
(* iteration, goes to the back of the deque and clears more_to_evict, so   *)
(* that every clean entry is met before one is skipped twice.              *)
Evicts(e, d, skip) ==
    LET most == Min({excess, size - d, eviction_batch_size})
        iterations == IF d < eviction_batch_size THEN eviction_batch_size - d ELSE 0
    IN  IF skip
        THEN e \in Min({most, iterations})..most /\ e < eviction_batch_size /\ excess > 0
        ELSE e = Min({excess, eviction_batch_size})

(* One round of evictions, and the end of the loop: another round, or the  *)
(* way out by the timeout or because there is nothing to do.               *)
EvictRound(t) ==
    /\ pc[t] = "evict"
    /\ \E d \in 0..Min({Dirty, size}), e \in 0..excess, skip \in BOOLEAN :
        LET more == ~skip /\ excess >= eviction_batch_size
            logs == /\ run.calls <= max_log_sync_repeats
                    /\ rch >= READ_LOG_FLUSH_POINT \/ wch >= WRITE_LOG_FLUSH_POINT
            late == /\ Listener
                    /\ saturating_duration_since(Clock_now(elapsed), run.started)
                           >= maintenance_task_timeout
        IN  /\ skip => d > 0
            /\ Evicts(e, d, skip)
            /\ size' = size - e
            /\ skipped' = skip
            /\ run' = [run EXCEPT !.logs = logs, !.more = more]
            /\ Goto(t, IF (logs \/ (more /\ e > 0)) /\ ~late THEN "logs" ELSE "end")
    /\ UNCHANGED <<callVars, elapsed, rch, wch, hkVars, owed>>

set_more_entries_to_evict(v) ==
    more_entries_to_evict' = IF more_entries_to_evict = None THEN None ELSE v

EndRun(t) ==
    /\ pc[t] = "end"
    /\ set_more_entries_to_evict(run.more)
    /\ run_lock' = None
    /\ run' = NoRun
    /\ IF call[t] = "run"
       THEN Return(t)
       ELSE Goto(t, "send") /\ UNCHANGED <<call, now>>
    /\ UNCHANGED <<writes, elapsed, rch, wch, size, run_after, last, skipped, owed>>

Step(t) ==
    \/ apply_reads_if_needed(t)
    \/ apply_reads_writes_if_needed(t)
    \/ record_read_op(t)
    \/ schedule_write_op(t)
    \/ run_pending_tasks(t)
    \/ try_run_pending_tasks(t)
    \/ ProcessLogs(t)
    \/ EvictRound(t)
    \/ EndRun(t)

Next ==
    \/ Tick
    \/ \E t \in Threads :
        \/ \E op \in {"read", "write", "run"} : Begin(t, op)
        \/ Step(t)

Spec == Init /\ [][Next]_vars

(* Threads are scheduled, time passes and the cache goes on being read.    *)
Fairness ==
    /\ WF_vars(Tick)
    /\ \A t \in Threads : WF_vars(Step(t)) /\ WF_vars(Begin(t, "read"))

FairSpec == Spec /\ Fairness
-----------------------------------------------------------------------------
TypeOK ==
    /\ pc \in [Threads -> {"idle", "check", "try_lock", "send", "lock", "logs", "evict", "end"}]
    /\ now \in [Threads -> Instants]
    /\ rch \in 0..READ_LOG_CH_SIZE
    /\ wch \in 0..WRITE_LOG_CH_SIZE
    /\ size \in 0..MaxWrites
    /\ run_after \in 0..U64_MAX
    /\ more_entries_to_evict \in IF Listener THEN BOOLEAN ELSE {None}
    /\ \A t \in Threads : pc[t] \in {"logs", "evict", "end"} <=> run_lock = t

(* run_after is set however far the clock has gone: should_apply unwraps   *)
(* it on every get and insert.                                             *)
RunAfterSet == run_after # U64_MAX

(* A call that began when a run was due, with none in progress, does not   *)
(* return before one has begun, whatever other threads do meanwhile.       *)
DueRunHappens == \A t \in Threads : pc[t] = "idle" => ~owed[t]

(* With a listener, a run that is stopped by the timeout while entries are *)
(* left to evict leaves the flag set, unless it had skipped an entry.      *)
LeftoverAnnounced ==
    Listener /\ run_lock = None /\ excess > 0 => more_entries_to_evict = TRUE \/ skipped

(* The comment on more_entries_to_evict: without a listener a run never    *)
(* leaves entries to evict.                                                *)
NothingLeftWithoutListener == ~Listener /\ run_lock = None => excess = 0

WithinCapacity == excess = 0 /\ wch = 0

(* Once the writers have stopped, reads alone bring the cache back to its  *)
(* capacity for good.                                                      *)
ReadsEvictLeftovers == <>[]WithinCapacity
=============================================================================

------------------------- MODULE FutureHousekeeper -------------------------
(***************************************************************************)
(* Who waits for whom in future::Cache: the writers of one key, the lock   *)
(* of current_task, the shared future of maintenance, the write channel,   *)
(* write_op_ch_ready_event and the lock of the key (future/housekeeper.rs, *)
(* schedule_write_op of future/base_cache.rs).                             *)
(*                                                                         *)
(* Maintenance is abstracted to what others can wait for: it empties the   *)
(* channel, wakes listeners, and may evict the key, for which it locks the *)
(* key and awaits the eviction listener.  It advances only while it is     *)
(* polled.  What it does to the policies is in FutureBaseCache.            *)
(***************************************************************************)
EXTENDS Naturals, FiniteSets

CONSTANTS
    Tasks,
    None,
    WRITE_LOG_CH_SIZE,
    WRITE_LOG_FLUSH_POINT,
    MaxSpins,     \* attempts before a writer listens to the event
    Notifier,     \* an eviction listener is set
    MayDrop,      \* calls may be dropped
    Ticker,       \* a task that calls run_pending_tasks again and again, or None
    MaxCalls      \* bound: calls per writer

VARIABLES
    pc,           \* task -> where its call is
    retrying,     \* task -> it sends the WriteOp of a dropped call
    spins,        \* task -> spin_loop_attempts
    calls,        \* task -> calls begun
    len,          \* number of WriteOps in the channel
    interrupted,  \* number of WriteOps of dropped calls
    hk,           \* the task that holds the lock of current_task, or None
    maint,        \* current_task: "none", or where the future is
    key_lock,     \* the task that has the key locked, Maint or None
    listeners     \* tasks registered for the event and not notified yet

taskVars == <<retrying, spins, calls>>
vars == <<pc, taskVars, len, interrupted, hk, maint, key_lock, listeners>>

Maint == "maint"

Init ==
    /\ pc = [t \in Tasks |-> "idle"]
    /\ retrying = [t \in Tasks |-> FALSE]
    /\ spins = [t \in Tasks |-> 0]
    /\ calls = [t \in Tasks |-> 0]
    /\ len = 0
    /\ interrupted = 0
    /\ hk = None
    /\ maint = "none"
    /\ key_lock = None
    /\ listeners = {}

Goto(t, p) == pc' = [pc EXCEPT ![t] = p]

(* A writer begins; the ticker calls run_pending_tasks.                    *)
Begin(t) ==
    /\ pc[t] = "idle"
    /\ IF t = Ticker
       THEN Goto(t, "acquire") /\ UNCHANGED calls
       ELSE /\ calls[t] < MaxCalls
            /\ calls' = [calls EXCEPT ![t] = @ + 1]
            /\ Goto(t, "retry")
    /\ spins' = [spins EXCEPT ![t] = 0]
    /\ UNCHANGED <<retrying, len, interrupted, hk, maint, key_lock, listeners>>

(* The WriteOps of dropped calls are sent first.                           *)
retry_interrupted_ops(t) ==
    /\ pc[t] = "retry"
    /\ IF interrupted > 0
       THEN /\ interrupted' = interrupted - 1
            /\ retrying' = [retrying EXCEPT ![t] = TRUE]
            /\ Goto(t, "send")
       ELSE /\ retrying' = [retrying EXCEPT ![t] = FALSE]
            /\ Goto(t, IF Notifier THEN "lock" ELSE "send")
            /\ UNCHANGED interrupted
    /\ spins' = [spins EXCEPT ![t] = 0]
    /\ UNCHANGED <<calls, len, hk, maint, key_lock, listeners>>

(* The key is locked, and the listener told of the old value.              *)
LockKey(t) ==
    /\ pc[t] = "lock"
    /\ key_lock = None
    /\ key_lock' = t
    /\ Goto(t, "notify")
    /\ UNCHANGED <<taskVars, len, interrupted, hk, maint, listeners>>

NotifyDone_locked(t) ==
    /\ pc[t] = "notify"
    /\ Goto(t, "send")
    /\ UNCHANGED <<taskVars, len, interrupted, hk, maint, key_lock, listeners>>

(* "Drop the locks before scheduling write op to avoid a potential dead    *)
(* lock."                                                                  *)
NotifyDone(t) ==
    /\ pc[t] = "notify"
    /\ key_lock' = None
    /\ Goto(t, "send")
    /\ UNCHANGED <<taskVars, len, interrupted, hk, maint, listeners>>

(* At the flush point, or when the interval has elapsed, a writer tries    *)
(* the lock of current_task.                                               *)
apply_reads_writes_if_needed(t) ==
    /\ pc[t] = "send"
    /\ \/ hk = None /\ hk' = t /\ Goto(t, "maint")
       \/ /\ hk # None \/ len < WRITE_LOG_FLUSH_POINT
          /\ Goto(t, "try_send")
          /\ UNCHANGED hk
    /\ UNCHANGED <<taskVars, len, interrupted, maint, key_lock, listeners>>

run_pending_tasks(t) ==
    /\ pc[t] = "acquire"
    /\ hk = None
    /\ hk' = t
    /\ Goto(t, "maint")
    /\ UNCHANGED <<taskVars, len, interrupted, maint, key_lock, listeners>>

Sent(t) ==
    /\ pc[t] = "try_send"
    /\ len < WRITE_LOG_CH_SIZE
    /\ len' = len + 1
    /\ Goto(t, IF retrying[t] THEN "retry" ELSE "idle")
    /\ UNCHANGED <<taskVars, interrupted, hk, maint, key_lock, listeners>>

(* try_send fails: the writer spins, or goes on to listen.                 *)
ChannelFull(t) ==
    /\ pc[t] = "try_send"
    /\ len = WRITE_LOG_CH_SIZE
    /\ IF spins[t] < MaxSpins
       THEN Goto(t, "send") /\ spins' = [spins EXCEPT ![t] = @ + 1]
       ELSE Goto(t, "full") /\ spins' = [spins EXCEPT ![t] = 0]
    /\ UNCHANGED <<retrying, calls, len, interrupted, hk, maint, key_lock, listeners>>

(* It registers only now: an event sent since try_send failed is missed.   *)
Listen(t) ==
    /\ pc[t] = "full"
    /\ listeners' = listeners \cup {t}
    /\ Goto(t, "listen")
    /\ UNCHANGED <<taskVars, len, interrupted, hk, maint, key_lock>>

Woken(t) ==
    /\ pc[t] = "listen"
    /\ t \notin listeners
    /\ Goto(t, "send")
    /\ UNCHANGED <<taskVars, len, interrupted, hk, maint, key_lock, listeners>>
-----------------------------------------------------------------------------
(* The task of maintenance, polled by t: a new one or the one it finds in  *)
(* current_task.                                                           *)
Polls(t) == pc[t] = "maint" /\ hk = t

(* The ops that are in the channel are applied.                            *)
apply_writes(t) ==
    /\ Polls(t)
    /\ maint = "none"
    /\ len' = 0
    /\ maint' = "wake"
    /\ UNCHANGED <<pc, taskVars, interrupted, hk, key_lock, listeners>>

(* As many listeners are woken as there is room for.  The logs are applied *)
(* again if the channel has filled up, up to max_log_sync_repeats times.   *)
WakeListeners(t) ==
    LET room == WRITE_LOG_CH_SIZE - len
        n == Cardinality(listeners)
    IN
    /\ Polls(t)
    /\ maint = "wake"
    /\ \E woken \in SUBSET listeners :
         /\ Cardinality(woken) = IF n < room THEN n ELSE room
         /\ listeners' = listeners \ woken
    /\ \/ maint' = "done"
       \/ Notifier /\ maint' = "lock"
       \/ len >= WRITE_LOG_FLUSH_POINT /\ maint' = "none"
    /\ UNCHANGED <<pc, taskVars, len, interrupted, hk, key_lock>>

(* An entry is evicted: the key is locked until the listener was told.     *)
evict_lru_entries(t) ==
    /\ Polls(t)
    /\ \/ maint = "lock" /\ key_lock = None /\ key_lock' = Maint /\ maint' = "notify"
       \/ maint = "notify" /\ key_lock' = None /\ maint' = "done"
    /\ UNCHANGED <<pc, taskVars, len, interrupted, hk, listeners>>

(* current_task is emptied and unlocked.                                   *)
do_run_pending_tasks(t) ==
    /\ Polls(t)
    /\ maint = "done"
    /\ maint' = "none"
    /\ hk' = None
    /\ Goto(t, "event")
    /\ UNCHANGED <<taskVars, len, interrupted, key_lock, listeners>>

(* Then every listener is woken.                                           *)
try_run_pending_tasks(t) ==
    /\ pc[t] = "event"
    /\ listeners' = {}
    /\ Goto(t, IF t = Ticker THEN "idle" ELSE "try_send")
    /\ UNCHANGED <<taskVars, len, interrupted, hk, maint, key_lock>>

(* A call is dropped at an await; a CancelGuard saves its WriteOp.         *)
Suspended(t) ==
    \/ pc[t] = "listen" /\ t \in listeners
    \/ pc[t] = "lock" /\ key_lock # None
    \/ pc[t] = "notify"
    \/ Polls(t) /\ (maint = "notify" \/ (maint = "lock" /\ key_lock # None))

Drop(t) ==
    /\ MayDrop
    /\ t # Ticker
    /\ Suspended(t)
    /\ interrupted' = IF pc[t] = "lock" THEN interrupted ELSE interrupted + 1
    /\ hk' = IF hk = t THEN None ELSE hk
    /\ key_lock' = IF key_lock = t THEN None ELSE key_lock
    /\ listeners' = listeners \ {t}
    /\ Goto(t, "idle")
    /\ UNCHANGED <<taskVars, len, maint>>

Step(t) ==
    \/ retry_interrupted_ops(t) \/ LockKey(t) \/ NotifyDone(t)
    \/ apply_reads_writes_if_needed(t) \/ run_pending_tasks(t)
    \/ Sent(t) \/ ChannelFull(t) \/ Listen(t) \/ Woken(t)
    \/ apply_writes(t) \/ WakeListeners(t) \/ evict_lru_entries(t)
    \/ do_run_pending_tasks(t) \/ try_run_pending_tasks(t)

Next == \E t \in Tasks : Begin(t) \/ Step(t) \/ Drop(t)

(* The runtime polls a task that can go on, and the ticker keeps ticking.  *)
(* async_lock::Mutex is eventually fair to those that wait for it.         *)
Fairness ==
    /\ \A t \in Tasks : WF_vars(Step(t)) /\ SF_vars(LockKey(t))
    /\ \A t \in Tasks \cap {Ticker} : WF_vars(Begin(t)) /\ SF_vars(run_pending_tasks(t))

Spec == Init /\ [][Next]_vars /\ Fairness

Busy(t) == pc[t] # "idle"

(* Every call of a writer returns or is dropped: nobody waits for ever for *)
(* the lock of the key, for the lock of current_task or for the event of   *)
(* schedule_write_op.                                                      *)
EveryCallReturns == \A t \in Tasks \ {Ticker} : Busy(t) ~> ~Busy(t)
=============================================================================

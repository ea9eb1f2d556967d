-------------------------- MODULE FutureExpiration --------------------------
(***************************************************************************)
(* Time in future::Cache: Expiration with async tasks in the place of      *)
(* threads (future/base_cache.rs, future/cache.rs).                        *)
(*                                                                         *)
(* What is different: a call first retries the writes of calls that were   *)
(* dropped, awaits the lock of the key and the listener, and may be        *)
(* dropped while it awaits.  Maintenance advances only while a task polls  *)
(* it; it may stay suspended, at the lock of a key or in the listener,     *)
(* with the time and the timers it had collected by then.                  *)
(*                                                                         *)
(* The steps that await nothing are those of Expiration.                   *)
(***************************************************************************)
EXTENDS Naturals, Sequences, FiniteSets

CONSTANTS
    Keys, Threads, None, time_to_live, time_to_idle, Expiry, Durations, KeyLocks, Calls,
    ReadChSize, BatchSize, MaxInfos, MaxOps, LastCall, MaxTime,
    MayDrop            \* whether calls may be dropped

VARIABLES
    now, valid_after, bucket, info, read_op_ch, write_op_ch, lock, deq, wheel, thr, ops, mpc, m,
    removed, invalidated,
    hk,                \* the task that polls maintenance, or None
    guard,             \* task -> the WriteOp its CancelGuard saves, or None
    interrupted_op_ch, \* WriteOps of calls that were dropped
    expired_keys       \* what advance collected

S == INSTANCE Expiration

userVars == <<now, valid_after, invalidated, thr, ops>>
maintVars == <<deq, wheel, mpc, m, removed>>
asyncVars == <<hk, guard, interrupted_op_ch, expired_keys>>
vars == <<userVars, maintVars, asyncVars, bucket, info, read_op_ch, write_op_ch, lock>>

Init ==
    /\ S!Init
    /\ hk = None
    /\ guard = [t \in Threads |-> None]
    /\ interrupted_op_ch = <<>>
    /\ expired_keys = <<>>

NoMaint == UNCHANGED <<maintVars, hk, expired_keys>>
NoTask == UNCHANGED <<userVars, read_op_ch, write_op_ch, hk, guard, interrupted_op_ch>>
-----------------------------------------------------------------------------
(* Expiration *)

is_invalid_entry(va, ts) == S!is_invalid_entry(va, ts)
is_expired_by_tti(ts, at) == S!is_expired_by_tti(ts, at)
is_expired_by_ttl(ts, at) == S!is_expired_by_ttl(ts, at)
is_expired_by_per_entry_ttl(i, at) == S!is_expired_by_per_entry_ttl(i, at)

is_expired_entry_ao(va, i, at) ==
    is_invalid_entry(va, info[i].last_accessed) \/ is_expired_by_tti(info[i].last_accessed, at)

is_expired_entry_wo(va, i, at) ==
    is_invalid_entry(va, info[i].last_modified) \/ is_expired_by_ttl(info[i].last_modified, at)

is_expired(va, i, at) ==
    is_expired_by_per_entry_ttl(i, at) \/ is_expired_entry_wo(va, i, at) \/ is_expired_entry_ao(va, i, at)

(* Whether the entry of a deque node is expired, and whether it is         *)
(* invalidated.                                                            *)
is_entry_expired_ao_or_invalid(va, ts, at) ==
    [expired |-> is_expired_by_tti(ts, at), invalid |-> is_invalid_entry(va, ts)]

is_entry_expired_wo_or_invalid(va, ts, at) ==
    [expired |-> is_expired_by_ttl(ts, at), invalid |-> is_invalid_entry(va, ts)]

ExpiredAo(va, i, at) ==
    LET s == is_entry_expired_ao_or_invalid(va, info[i].last_accessed, at) IN s.expired \/ s.invalid

ExpiredWo(va, i, at) ==
    LET s == is_entry_expired_wo_or_invalid(va, info[i].last_modified, at) IN s.expired \/ s.invalid

expire_after_create(e, ts) == S!expire_after_create(e, ts)
expire_after_read_or_update(e, ts) == S!expire_after_read_or_update(e, ts)
-----------------------------------------------------------------------------
(* Calls *)

Begin(t, call, k, pc) == S!Begin(t, call, k, pc) /\ UNCHANGED <<lock, asyncVars>>

insert(t, k) == Begin(t, "insert", k, "retry")
get(t, k) == Begin(t, "get", k, "retry")
invalidate(t, k) == Begin(t, "invalidate", k, "retry")
contains_key(t, k) == Begin(t, "contains_key", k, "lookup")
iter(t, k) == Begin(t, "iter", k, "lookup")
BeginRun(t, k) == Begin(t, "run", k, "acquire")

invalidate_all(t) ==
    /\ S!BeginInvalidateAll(t) \/ S!set_valid_after(t)
    /\ UNCHANGED asyncVars

(* A call whose own write is still to come, while its guard has one to     *)
(* retry.                                                                  *)
Retrying(t) == thr[t].op = None

(* retry_interrupted_ops: the notification of a saved write is awaited     *)
(* again, then the write is sent.                                          *)
retry_interrupted_ops(t) ==
    /\ thr[t].pc = "retry"
    /\ interrupted_op_ch # <<>>
    /\ guard' = [guard EXCEPT ![t] = Head(interrupted_op_ch)]
    /\ interrupted_op_ch' = Tail(interrupted_op_ch)
    /\ S!Goto(t, IF KeyLocks THEN "notify" ELSE "send")
    /\ UNCHANGED <<now, valid_after, invalidated, bucket, info, read_op_ch, write_op_ch, lock, ops>>
    /\ NoMaint

Body(call) ==
    CASE call = "insert" -> "write"
      [] call = "get" -> "lookup"
      [] call = "invalidate" -> "remove"

(* Nothing to retry: the key is locked first, if there is a listener.  The *)
(* time is read when that is done.                                         *)
RetryDone(t) ==
    LET locks == \/ thr[t].call = "insert"
                 \/ thr[t].call = "invalidate" /\ bucket[thr[t].key].info # None
    IN
    /\ thr[t].pc = "retry"
    /\ interrupted_op_ch = <<>>
    /\ thr' = [thr EXCEPT ![t].now = now,
                          ![t].pc = IF KeyLocks /\ locks THEN "lock" ELSE Body(thr[t].call)]
    /\ UNCHANGED <<now, valid_after, invalidated, bucket, info, read_op_ch, write_op_ch, lock, ops,
                   guard, interrupted_op_ch>>
    /\ NoMaint

maybe_key_lock_none(t) ==
    /\ thr[t].pc = "lock"
    /\ thr' = [thr EXCEPT ![t].now = now, ![t].pc = Body(thr[t].call)]
    /\ UNCHANGED <<now, valid_after, invalidated, bucket, info, read_op_ch, write_op_ch, lock, ops,
                   guard, interrupted_op_ch>>
    /\ NoMaint

maybe_key_lock(t) ==
    /\ thr[t].pc = "lock"
    /\ lock[thr[t].key] = None
    /\ lock' = [lock EXCEPT ![thr[t].key] = t]
    /\ thr' = [thr EXCEPT ![t].now = now, ![t].pc = Body(thr[t].call)]
    /\ UNCHANGED <<now, valid_after, invalidated, bucket, info, read_op_ch, write_op_ch, ops,
                   guard, interrupted_op_ch>>
    /\ NoMaint

(* An insertion, when there is nothing to compute, is ready to be sent.    *)
Ready(t) == guard' = [guard EXCEPT ![t] = IF thr'[t].pc = "send" THEN thr'[t].op ELSE @]

new_value_entry(k, ts) == S!new_value_entry(k, ts)
new_value_entry_from(e, ts) == S!new_value_entry_from(e, ts)

on_insert(t) ==
    LET k == thr[t].key IN
    /\ thr[t].pc = "write"
    /\ bucket[k].info = None
    /\ Len(info) < MaxInfos
    /\ info' = Append(info, new_value_entry(k, thr[t].now))
    /\ bucket' = [bucket EXCEPT ![k] = [info |-> Len(info'), ver |-> @.ver + 1, ts |-> thr[t].now]]
    /\ thr' = [thr EXCEPT ![t].seen = bucket'[k], ![t].pc = S!AfterWrite(t, "create"),
                          ![t].op = [kind |-> "Upsert", info |-> Len(info'), gen |-> 1]]
    /\ S!UnlockUnlessExpiry(t)
    /\ UNCHANGED <<now, valid_after, invalidated, read_op_ch, write_op_ch, ops, maintVars>>
    /\ Ready(t)
    /\ UNCHANGED <<hk, interrupted_op_ch, expired_keys>>

do_post_insert_steps(t) ==
    /\ S!do_post_insert_steps(t)
    /\ Ready(t)
    /\ UNCHANGED <<hk, interrupted_op_ch, expired_keys>>

(* An update is guarded while the listener is told, and the key is locked  *)
(* until then.                                                             *)
Guarded(t, op) ==
    /\ thr' = [thr EXCEPT ![t].op = op, ![t].pc = IF KeyLocks THEN "notify" ELSE "send"]
    /\ guard' = [guard EXCEPT ![t] = op]

on_modify(t) ==
    LET i == bucket[thr[t].key].info IN
    /\ thr[t].pc = "write"
    /\ i # None
    /\ info' = [info EXCEPT ![i] = new_value_entry_from(@, thr[t].now)]
    /\ thr' = [thr EXCEPT ![t].seen = bucket[thr[t].key], ![t].pc = "swap",
                          ![t].op = [kind |-> "Upsert", info |-> i, gen |-> info'[i].entry_gen]]
    /\ UNCHANGED <<now, valid_after, invalidated, bucket, read_op_ch, write_op_ch, lock, ops,
                   maintVars, asyncVars>>

do_insert_with_hash(t) ==
    \/ on_modify(t)
    \/ S!SwapFails(t) /\ UNCHANGED asyncVars
    \/ LET k == thr[t].key IN
       /\ thr[t].pc = "swap"
       /\ bucket[k].ver = thr[t].seen.ver
       /\ bucket' = [bucket EXCEPT ![k].ver = @ + 1, ![k].ts = thr[t].now]
       /\ IF Expiry THEN S!Goto(t, "update") /\ UNCHANGED guard ELSE Guarded(t, thr[t].op)
       /\ UNCHANGED <<now, valid_after, invalidated, info, read_op_ch, write_op_ch, lock, ops,
                      interrupted_op_ch>>
       /\ NoMaint

do_post_update_steps(t) ==
    LET i == thr[t].op.info IN
    /\ thr[t].pc = "update"
    /\ \E e \in IF is_expired_by_per_entry_ttl(i, thr[t].now)
                  THEN expire_after_create(info[i], thr[t].now)
                  ELSE expire_after_read_or_update(info[i], thr[t].now) : S!Set(i, e)
    /\ Guarded(t, thr[t].op)
    /\ UNCHANGED <<now, valid_after, invalidated, bucket, read_op_ch, write_op_ch, lock, ops,
                   interrupted_op_ch>>
    /\ NoMaint

invalidate_with_hash(t) ==
    LET k == thr[t].key
        i == bucket[k].info
    IN
    /\ thr[t].pc = "remove"
    /\ IF i = None
       THEN S!Return(t) /\ lock' = S!Unlock(k, t) /\ UNCHANGED <<bucket, info, guard>>
       ELSE /\ bucket' = [bucket EXCEPT ![k] = [S!Absent EXCEPT !.ver = bucket[k].ver + 1]]
            /\ S!Set(i, [info[i] EXCEPT !.retired = TRUE, !.entry_gen = @ + 1])
            /\ Guarded(t, [kind |-> "Remove", info |-> i, gen |-> info[i].entry_gen + 1])
            /\ UNCHANGED lock
    /\ UNCHANGED <<now, valid_after, invalidated, read_op_ch, write_op_ch, ops, interrupted_op_ch>>
    /\ NoMaint

(* The listener was told.  The key is unlocked.                            *)
notify_upsert(t) ==
    /\ thr[t].pc = "notify"
    /\ S!Goto(t, "send")
    /\ lock' = S!Unlock(thr[t].key, t)
    /\ UNCHANGED <<now, valid_after, invalidated, bucket, info, read_op_ch, write_op_ch, ops, guard,
                   interrupted_op_ch>>
    /\ NoMaint

schedule_write_op(t) ==
    /\ thr[t].pc = "send"
    /\ write_op_ch' = Append(write_op_ch, guard[t])
    /\ guard' = [guard EXCEPT ![t] = None]
    /\ IF Retrying(t) THEN S!Goto(t, "retry") ELSE S!Return(t)
    /\ UNCHANGED <<now, valid_after, invalidated, bucket, info, read_op_ch, lock, ops,
                   interrupted_op_ch>>
    /\ NoMaint

get_with_hash(t) ==
    /\ S!Lookup(t, "get", thr[t].now, is_expired(valid_after, bucket[thr[t].key].info, thr[t].now),
                IF Expiry THEN "read" ELSE "touch")
    /\ UNCHANGED asyncVars

contains_key_with_hash(t) ==
    /\ S!Lookup(t, "contains_key", now, is_expired(valid_after, bucket[thr[t].key].info, now), "answer")
    /\ UNCHANGED asyncVars

scanning_get(t) ==
    /\ S!Lookup(t, "iter", now, is_expired(valid_after, bucket[thr[t].key].info, now), "answer")
    /\ UNCHANGED asyncVars

Answer(t) == S!Answer(t) /\ UNCHANGED asyncVars

(* The Expiry is asked, by the later of the times of the call and of the   *)
(* last write.                                                             *)
ReadExpiry(t) ==
    LET i == thr[t].seen.info
        ts == S!Larger(thr[t].now, info[i].last_modified)
    IN
    /\ thr[t].pc = "read"
    /\ \E e \in expire_after_read_or_update(info[i], ts) :
         /\ S!Set(i, e)
         /\ thr' = [thr EXCEPT ![t].now = ts, ![t].modified = (e # info[i]), ![t].pc = "touch"]
    /\ UNCHANGED <<now, valid_after, invalidated, bucket, read_op_ch, write_op_ch, lock, ops, guard,
                   interrupted_op_ch>>
    /\ NoMaint

set_last_accessed(t) ==
    /\ thr[t].pc = "touch"
    /\ S!Set(thr[t].seen.info, [info[thr[t].seen.info] EXCEPT !.last_accessed = thr[t].now])
    /\ S!Goto(t, "record")
    /\ UNCHANGED <<now, valid_after, invalidated, bucket, read_op_ch, write_op_ch, lock, ops, guard,
                   interrupted_op_ch>>
    /\ NoMaint

record_read_op(t) ==
    /\ thr[t].pc = "record"
    /\ read_op_ch' = IF Len(read_op_ch) < ReadChSize
                       THEN Append(read_op_ch, [info |-> thr[t].seen.info,
                                                modified |-> thr[t].modified])
                       ELSE read_op_ch
    /\ S!Return(t)
    /\ UNCHANGED <<now, valid_after, invalidated, bucket, info, write_op_ch, lock, ops, guard,
                   interrupted_op_ch>>
    /\ NoMaint
-----------------------------------------------------------------------------
(* Maintenance *)

(* A task that sends or records an operation, or called run_pending_tasks, *)
(* takes current_task if it is free, and polls it.                         *)
run_pending_tasks(t) ==
    /\ thr[t].pc \in {"send", "record", "acquire"}
    /\ hk = None
    /\ hk' = t
    /\ S!Goto(t, "maint")
    /\ UNCHANGED <<now, valid_after, invalidated, bucket, info, read_op_ch, write_op_ch, lock, ops,
                   guard, interrupted_op_ch, expired_keys, maintVars>>

Polls(t) == hk = t /\ thr[t].pc = "maint"
Poll(t, step) == Polls(t) /\ step /\ UNCHANGED asyncVars

do_run_pending_tasks(t) == Poll(t, S!MaintStart \/ S!ReadsDone \/ S!WritesDone)
apply_reads(t) == Poll(t, S!apply_reads)
handle_upsert(t) == Poll(t, S!handle_upsert)
handle_remove(t) == Poll(t, S!handle_remove)
update_timer_wheel(t) == Poll(t, S!schedule)

(* The wheel is advanced to the end before any entry is removed: each      *)
(* entry that is due is kept, with whether it was dirty then.              *)
advance(t) ==
    /\ Polls(t)
    /\ mpc = "timers"
    /\ \E n \in m.due : LET i == n.info IN
         /\ m' = [m EXCEPT !.due = @ \ {n}]
         /\ IF info[i].exp # None /\ info[i].exp > m.now
            THEN /\ wheel' = (wheel \ {n}) \cup {[n EXCEPT !.at = info[i].exp]}
                 /\ UNCHANGED <<info, expired_keys>>
            ELSE /\ wheel' = wheel \ {n}
                 /\ S!Set(i, [info[i] EXCEPT !.timer_node = None])
                 /\ expired_keys' = IF info[i].exp = None THEN expired_keys
                      ELSE Append(expired_keys, [info |-> i, dirty |-> S!is_dirty(i)])
    /\ UNCHANGED <<bucket, lock, deq, mpc, removed>>
    /\ NoTask

(* The next of them is skipped if it was dirty, or looked up.              *)
evict_expired_entries_using_timers(t) ==
    LET e == Head(expired_keys) IN
    /\ Polls(t)
    /\ mpc = "timers" /\ m.due = {}
    /\ expired_keys # <<>>
    /\ expired_keys' = Tail(expired_keys)
    /\ IF e.dirty
       THEN UNCHANGED <<mpc, m>>
       ELSE mpc' = "check" /\ m' = [m EXCEPT !.key = info[e.info].key, !.info = e.info, !.back = "timers"]
    /\ UNCHANGED <<bucket, info, lock, deq, wheel, removed>>
    /\ NoTask

evict_expired_entries_using_deqs(t) ==
    \/ expired_keys = <<>> /\ Poll(t, S!TimersDone)
    \/ Poll(t, S!WriteOrderDone)

skip_updated_entry_wo(k) == S!skip_updated_entry_wo(k)
skip_updated_entry_ao(k) == S!skip_updated_entry_ao(k)

remove_expired_wo(t) == Poll(t, S!PeekFront("wo", ExpiredWo, skip_updated_entry_wo))
remove_expired_ao(t) == Poll(t, S!PeekFront("ao", ExpiredAo, skip_updated_entry_ao))

(* The condition of the removal, on the key's current entry.               *)
ReallyExpired(i) ==
    CASE m.back = "timers" -> is_expired_by_per_entry_ttl(i, m.now)
      [] m.back = "wo" -> is_expired_entry_wo(m.va, i, m.now)
      [] m.back = "ao" -> is_expired_entry_ao(m.va, i, m.now)

CheckAgain(t, still(_)) ==
    LET b == bucket[m.key] IN
    /\ Polls(t)
    /\ mpc = "check"
    /\ lock[m.key] \in {None, "maint"}
    /\ IF b.info # None /\ (b.info # None => still(b.info))
       THEN /\ m' = [m EXCEPT !.ver = b.ver]
            /\ mpc' = "remove"
            /\ lock' = IF KeyLocks THEN [lock EXCEPT ![m.key] = "maint"] ELSE lock
            /\ UNCHANGED deq
       ELSE /\ mpc' = m.back
            /\ lock' = S!Unlock(m.key, "maint")
            /\ deq' = CASE m.back = "timers" -> deq
                        [] m.back = "wo" -> skip_updated_entry_wo(m.key)
                        [] m.back = "ao" -> skip_updated_entry_ao(m.key)
            /\ m' = S!Forget(m)
    /\ UNCHANGED <<bucket, info, wheel, removed, expired_keys>>
    /\ NoTask

(* The lock of the key is awaited and the entry judged by the time that    *)
(* was read when the phase began.                                          *)
CheckExpired(t) == CheckAgain(t, ReallyExpired)

(* The entry is out of the hash table; its removal is told.                *)
cht_remove_if_and_retire(t) ==
    LET b == bucket[m.key] IN
    /\ Polls(t)
    /\ mpc = "remove"
    /\ IF b.ver = m.ver
       THEN /\ bucket' = [bucket EXCEPT ![m.key] = [S!Absent EXCEPT !.ver = b.ver + 1]]
            /\ S!Set(b.info, [info[b.info] EXCEPT !.retired = TRUE])
            /\ removed' = [by |-> m.back, ts |-> b.ts, now |-> m.now, va |-> m.va,
                           early |-> \E u \in Threads : /\ thr[u].pc \in {"create", "update"}
                                                        /\ thr[u].op.info = b.info]
            /\ mpc' = "unlink"
            /\ m' = [m EXCEPT !.info = b.info]
       ELSE mpc' = "check" /\ UNCHANGED <<bucket, info, m, removed>>
    /\ UNCHANGED <<lock, deq, wheel, expired_keys>>
    /\ NoTask

(* The timer of an entry it has fired for is not in the wheel any more.    *)
handle_remove_without_timer_wheel(e) == [e EXCEPT !.admitted = FALSE]

(* After the listener, the entry is unlinked and the key unlocked.         *)
handle_remove_with_deques(t) ==
    LET i == m.info IN
    /\ Polls(t)
    /\ mpc = "unlink"
    /\ S!Set(i, IF m.back = "timers" THEN handle_remove_without_timer_wheel(info[i])
                                     ELSE S!Unadmitted(info[i]))
    /\ deq' = S!Unlinked(i)
    /\ wheel' = IF m.back = "timers" THEN wheel ELSE wheel \ S!TimersOf(i)
    /\ lock' = S!Unlock(m.key, "maint")
    /\ mpc' = m.back
    /\ m' = S!Forget(m)
    /\ UNCHANGED <<bucket, removed, expired_keys>>
    /\ NoTask

(* The poller goes on with its own call.                                   *)
MaintDone(t) ==
    /\ Polls(t)
    /\ mpc = "ao" /\ m.count = 0
    /\ mpc' = "idle"
    /\ m' = S!IdleMaint
    /\ removed' = None
    /\ hk' = None
    /\ IF thr[t].call = "run" THEN S!Return(t)
                               ELSE S!Goto(t, IF guard[t] # None THEN "send" ELSE "record")
    /\ UNCHANGED <<now, valid_after, invalidated, ops, bucket, info, read_op_ch, write_op_ch, lock, deq,
                   wheel, guard, interrupted_op_ch, expired_keys>>
-----------------------------------------------------------------------------
(* Where maintenance, and a call, may be suspended.                        *)
Suspended ==
    \/ mpc = "check" /\ lock[m.key] \notin {None, "maint"}
    \/ mpc = "unlink" /\ KeyLocks

Awaits(t) ==
    \/ thr[t].pc = "notify"
    \/ thr[t].pc = "lock" /\ lock[thr[t].key] # None
    \/ thr[t].pc = "acquire" /\ hk # None
    \/ Polls(t) /\ Suspended

Drop_no_op(t) ==
    /\ MayDrop
    /\ Awaits(t)
    /\ interrupted_op_ch' = interrupted_op_ch
    /\ guard' = [guard EXCEPT ![t] = None]
    /\ hk' = IF hk = t THEN None ELSE hk
    /\ lock' = [k \in Keys |-> IF lock[k] = t THEN None ELSE lock[k]]
    /\ S!Return(t)
    /\ UNCHANGED <<now, valid_after, invalidated, ops, bucket, info, read_op_ch, write_op_ch,
                   maintVars, expired_keys>>

(* The call is dropped: its guard saves the write it owes; the task of     *)
(* maintenance stays where it is.                                          *)
Drop(t) ==
    /\ MayDrop
    /\ Awaits(t)
    /\ interrupted_op_ch' = IF guard[t] = None THEN interrupted_op_ch
                              ELSE Append(interrupted_op_ch, guard[t])
    /\ guard' = [guard EXCEPT ![t] = None]
    /\ hk' = IF hk = t THEN None ELSE hk
    /\ lock' = [k \in Keys |-> IF lock[k] = t THEN None ELSE lock[k]]
    /\ S!Return(t)
    /\ UNCHANGED <<now, valid_after, invalidated, ops, bucket, info, read_op_ch, write_op_ch,
                   maintVars, expired_keys>>

Step(t) ==
    \/ invalidate_all(t) \/ retry_interrupted_ops(t) \/ RetryDone(t) \/ maybe_key_lock(t)
    \/ on_insert(t) \/ do_post_insert_steps(t) \/ do_insert_with_hash(t)
    \/ do_post_update_steps(t) \/ invalidate_with_hash(t) \/ notify_upsert(t)
    \/ schedule_write_op(t) \/ get_with_hash(t) \/ ReadExpiry(t) \/ set_last_accessed(t)
    \/ contains_key_with_hash(t) \/ scanning_get(t) \/ Answer(t)
    \/ record_read_op(t) \/ run_pending_tasks(t)
    \/ do_run_pending_tasks(t) \/ apply_reads(t) \/ handle_upsert(t) \/ handle_remove(t)
    \/ update_timer_wheel(t) \/ advance(t) \/ evict_expired_entries_using_timers(t)
    \/ evict_expired_entries_using_deqs(t) \/ remove_expired_wo(t) \/ remove_expired_ao(t)
    \/ CheckExpired(t) \/ cht_remove_if_and_retire(t) \/ handle_remove_with_deques(t)
    \/ MaintDone(t) \/ Drop(t)

Next ==
    \/ S!Tick /\ UNCHANGED asyncVars
    \/ \E t \in Threads :
        \/ Step(t)
        \/ \E k \in Keys : \/ insert(t, k) \/ get(t, k) \/ invalidate(t, k)
                          \/ contains_key(t, k) \/ iter(t, k) \/ BeginRun(t, k)

Spec == Init /\ [][Next]_vars
-----------------------------------------------------------------------------
(* get, contains_key and an iterator find no value that was written longer *)
(* than time_to_live ago or before the last invalidate_all, unless the key *)
(* was being written at that moment, whatever calls were dropped.          *)
NoExpiredHit == S!NoExpiredHit

(* Maintenance, suspended for however long, removes a value as expired     *)
(* only when it was, by the time it was written, and not before its own    *)
(* expiration time was computed.                                           *)
RemovedWereExpired == S!RemovedWereExpired

(* An entry and its timer know each other, also while the keys whose       *)
(* timers have fired wait to be removed.                                   *)
TimerNodesMatch == S!TimerNodesMatch

(* When the operations have been applied, also those of dropped calls,     *)
(* each entry that has an expiration time has a timer.                     *)
QuietTimers == interrupted_op_ch = <<>> => S!QuietTimers
=============================================================================

------------------------------ MODULE Notifier ------------------------------
(***************************************************************************)
(* The eviction listener of a sync cache (src/notification/notifier.rs)   *)
(* and its callers: an insert that replaces a value, an invalidation, and  *)
(* the maintenance task that expires, evicts or invalidates an entry.      *)
(* Each of them takes the value out of the table under the lock of its    *)
(* key, decides the cause, and calls the listener while the lock is still  *)
(* held.  The first panic of the listener disables it for good.            *)
(*                                                                         *)
(* The locks of the keys are mutexes here (KeyLockMap models them), one    *)
(* swap of a bucket is one step (BaseCache models its retries), and what   *)
(* maintenance chooses to remove is left open (BaseCache, Expiration).     *)
(***************************************************************************)
EXTENDS Naturals, Sequences

CONSTANTS
    Threads,            \* the user threads
    Maint,              \* whoever runs the maintenance task
    Keys,
    None,
    time_to_live, time_to_idle,     \* a duration or None
    MaxOps,             \* bound: operations of each thread
    MaxRuns,            \* bound: runs of maintenance
    MaxPanics,          \* bound: panics of the listener
    MaxTime             \* bound: the last reading of the clock

VARIABLES
    now,
    valid_after,
    bucket,             \* the table: the value of a key and its EntryInfo
    info,               \* the EntryInfos made so far: both timestamps
    is_enabled,
    lock,               \* the holder of the lock of a key
    thr,
    ops,
    made,               \* how many values each key was given: they are 1, 2, ...
    told,               \* the calls of the listener, per key, in order
    late,               \* the calls a thread began after the listener was disabled
    panics              \* how often the listener panics

vars == <<now, valid_after, bucket, info, is_enabled, lock, thr, ops, made, told, late, panics>>

Actors == Threads \cup {Maint}
Absent == [value |-> 0, info |-> 0]
Idle == [pc |-> "idle", call |-> None, key |-> None, ts |-> 0, va |-> None, value |-> 0,
         info |-> 0, la |-> 0, lm |-> 0, cause |-> None, locked |-> FALSE, lapsed |-> FALSE,
         invalid |-> FALSE]

(* RemovalNotifier::new, and a cache that is still empty.                  *)
Init ==
    /\ now = 0
    /\ valid_after = None
    /\ bucket = [k \in Keys |-> Absent]
    /\ info = <<>>
    /\ is_enabled = TRUE
    /\ lock = [k \in Keys |-> None]
    /\ thr = [t \in Actors |-> Idle]
    /\ ops = [t \in Actors |-> IF t = Maint THEN MaxRuns ELSE MaxOps]
    /\ made = [k \in Keys |-> 0]
    /\ told = [k \in Keys |-> <<>>]
    /\ late = [t \in Actors |-> 0]
    /\ panics = 0
-----------------------------------------------------------------------------
is_invalid_entry(va, ts) == va # None /\ ts < va
is_expired_by_tti(ts, at) == time_to_idle # None /\ ts + time_to_idle <= at
is_expired_by_ttl(ts, at) == time_to_live # None /\ ts + time_to_live <= at

is_entry_expired_ao_or_invalid(va, ts, at) ==
    <<is_expired_by_tti(ts, at), is_invalid_entry(va, ts)>>

is_entry_expired_wo_or_invalid(va, ts, at) ==
    <<is_expired_by_ttl(ts, at), is_invalid_entry(va, ts)>>

(* Has the value been there too long, for what its timestamps say at `at`? *)
Lapsed(la, lm, at) == is_expired_by_tti(la, at) \/ is_expired_by_ttl(lm, at)

Set(t, rec) == thr' = [thr EXCEPT ![t] = rec]
Goto(t, pc) == thr' = [thr EXCEPT ![t].pc = pc]

LockKey(t, k) == lock[k] = None /\ lock' = [lock EXCEPT ![k] = t]

notifyVars == <<is_enabled, told, late, panics>>
tableVars == <<now, valid_after, bucket, info, ops, made>>

(* The value leaves the table: what the thread knows of it, with a note of *)
(* what its timestamps said when it left.                                  *)
Taken(t, k, pc) ==
    LET b == bucket[k]
        i == info[b.info] IN
    [thr[t] EXCEPT !.pc = pc, !.value = b.value, !.info = b.info, !.la = i.la, !.lm = i.lm,
                   !.lapsed = is_expired_by_ttl(i.lm, now),
                   !.invalid = is_invalid_entry(valid_after, i.lm)]
-----------------------------------------------------------------------------
(* An insert locks the key and then reads the clock.                       *)
BeginInsert(t, k) ==
    /\ thr[t].pc = "idle" /\ ops[t] > 0
    /\ LockKey(t, k)
    /\ ops' = [ops EXCEPT ![t] = @ - 1]
    /\ Set(t, [Idle EXCEPT !.pc = "write", !.call = "insert", !.key = k, !.ts = now,
                           !.locked = TRUE])
    /\ UNCHANGED <<now, valid_after, bucket, info, made, notifyVars>>

(* The timestamps of the EntryInfo, which the new value shares with the    *)
(* old one, are kept in OldEntryInfo before they are overwritten.          *)
do_insert_with_hash(t) ==
    LET k == thr[t].key
        stamps == [la |-> thr[t].ts, lm |-> thr[t].ts]
        v == made[k] + 1 IN
    /\ thr[t].pc = "write"
    /\ made' = [made EXCEPT ![k] = v]
    /\ \/ /\ bucket[k] = Absent
          /\ info' = Append(info, stamps)
          /\ bucket' = [bucket EXCEPT ![k] = [value |-> v, info |-> Len(info) + 1]]
          /\ Goto(t, "unlock")
       \/ /\ bucket[k] # Absent
          /\ info' = [info EXCEPT ![bucket[k].info] = stamps]
          /\ bucket' = [bucket EXCEPT ![k].value = v]
          /\ Set(t, Taken(t, k, "upsert"))
    /\ UNCHANGED <<now, valid_after, lock, ops, notifyVars>>

notify_upsert_shared(t) ==
    LET la == info[thr[t].info].la
        lm == info[thr[t].info].lm
        idle == IF is_expired_by_tti(la, now) THEN "Expired" ELSE "Replaced"
        cause == IF is_expired_by_ttl(lm, now) THEN "Expired"
                 ELSE IF is_invalid_entry(valid_after, lm) THEN "Explicit" ELSE idle IN
    /\ thr[t].pc = "upsert"
    /\ Set(t, [thr[t] EXCEPT !.pc = "notify", !.cause = cause])
    /\ UNCHANGED <<tableVars, lock, notifyVars>>

notify_upsert(t) ==
    LET idle == IF is_expired_by_tti(thr[t].la, now) THEN "Expired" ELSE "Replaced"
        cause == IF is_expired_by_ttl(thr[t].lm, now) THEN "Expired"
                 ELSE IF is_invalid_entry(valid_after, thr[t].lm) THEN "Explicit" ELSE idle IN
    /\ thr[t].pc = "upsert"
    /\ Set(t, [thr[t] EXCEPT !.pc = "notify", !.cause = cause])
    /\ UNCHANGED <<tableVars, lock, notifyVars>>

(* An invalidation can only lock a key that it finds in the table.         *)
BeginInvalidate(t, k) ==
    /\ thr[t].pc = "idle" /\ ops[t] > 0
    /\ ops' = [ops EXCEPT ![t] = @ - 1]
    /\ Set(t, [Idle EXCEPT !.pc = IF bucket[k] # Absent THEN "lock" ELSE "remove",
                           !.call = "invalidate", !.key = k])
    /\ UNCHANGED <<now, valid_after, bucket, info, lock, made, notifyVars>>

(* Both an invalidation and maintenance wait for the lock of their key.    *)
maybe_key_lock(t) ==
    /\ thr[t].pc = "lock"
    /\ LockKey(t, thr[t].key)
    /\ Set(t, [thr[t] EXCEPT !.pc = "remove", !.locked = TRUE])
    /\ UNCHANGED <<tableVars, notifyVars>>

invalidate_with_hash(t) ==
    LET k == thr[t].key IN
    /\ thr[t].pc = "remove" /\ thr[t].call = "invalidate"
    /\ \/ /\ bucket[k] = Absent
          /\ Goto(t, "unlock")
          /\ UNCHANGED bucket
       \/ /\ bucket[k] # Absent
          /\ bucket' = [bucket EXCEPT ![k] = Absent]
          /\ Set(t, Taken(t, k, "invalidated"))
    /\ UNCHANGED <<now, valid_after, info, lock, ops, made, notifyVars>>

notify_invalidate(t) ==
    LET i == info[thr[t].info]
        cause == IF Lapsed(i.la, i.lm, now) THEN "Expired" ELSE "Explicit" IN
    /\ thr[t].pc = "invalidated"
    /\ Set(t, [thr[t] EXCEPT !.pc = "notify", !.cause = cause])
    /\ UNCHANGED <<tableVars, lock, notifyVars>>

(* A get reads the clock, finds a live entry and, a step later, stores its *)
(* reading as the time of the last access.                                 *)
BeginGet(t, k) ==
    /\ thr[t].pc = "idle" /\ ops[t] > 0
    /\ bucket[k] # Absent
    /\ LET i == info[bucket[k].info] IN
       /\ ~Lapsed(i.la, i.lm, now)
       /\ ~is_invalid_entry(valid_after, i.lm) /\ ~is_invalid_entry(valid_after, i.la)
    /\ ops' = [ops EXCEPT ![t] = @ - 1]
    /\ Set(t, [Idle EXCEPT !.pc = "touch", !.call = "get", !.info = bucket[k].info, !.ts = now])
    /\ UNCHANGED <<now, valid_after, bucket, info, lock, made, notifyVars>>

set_last_accessed(t) ==
    /\ thr[t].pc = "touch"
    /\ info' = [info EXCEPT ![thr[t].info].la = thr[t].ts]
    /\ Set(t, Idle)
    /\ UNCHANGED <<now, valid_after, bucket, lock, ops, made, notifyVars>>

set_valid_after(t) ==
    /\ thr[t].pc = "idle" /\ ops[t] > 0
    /\ ops' = [ops EXCEPT ![t] = @ - 1]
    /\ valid_after' = now
    /\ UNCHANGED <<now, bucket, info, lock, thr, made, notifyVars>>
-----------------------------------------------------------------------------
(* A run of maintenance reads the clock once.                              *)
BeginRun ==
    /\ thr[Maint].pc = "idle" /\ ops[Maint] > 0
    /\ ops' = [ops EXCEPT ![Maint] = @ - 1]
    /\ Set(Maint, [Idle EXCEPT !.pc = "scan", !.ts = now, !.va = valid_after])
    /\ UNCHANGED <<now, valid_after, bucket, info, lock, made, notifyVars>>

(* The cause is decided from the timestamps of the entry in front of the   *)
(* queue, before the key is locked.                                        *)
Peek(call, k, cause) ==
    LET i == info[bucket[k].info] IN
    Set(Maint, [thr[Maint] EXCEPT !.pc = "lock", !.call = call, !.key = k, !.cause = cause,
                                  !.la = i.la, !.lm = i.lm])

CauseOf(status) == IF status[1] THEN "Expired" ELSE "Explicit"

remove_expired_ao(k) ==
    LET status == is_entry_expired_ao_or_invalid(thr[Maint].va, info[bucket[k].info].la,
                                                 thr[Maint].ts) IN
    /\ status[1] \/ status[2]
    /\ Peek("remove_expired_ao", k, CauseOf(status))

remove_expired_wo(k) ==
    LET status == is_entry_expired_wo_or_invalid(thr[Maint].va, info[bucket[k].info].lm,
                                                 thr[Maint].ts) IN
    /\ status[1] \/ status[2]
    /\ Peek("remove_expired_wo", k, CauseOf(status))

evict_lru_entries(k) == Peek("evict_lru_entries", k, "Size")

(* A predicate of invalidate_entries_if matched the entry.                 *)
Invalidate(k) == Peek("try_invalidate", k, "Explicit")

Choose(k) ==
    /\ thr[Maint].pc = "scan"
    /\ bucket[k] # Absent
    /\ remove_expired_ao(k) \/ remove_expired_wo(k) \/ evict_lru_entries(k) \/ Invalidate(k)
    /\ UNCHANGED <<tableVars, lock, notifyVars>>

(* The condition of the removal, on the entry that is in the table by now. *)
StillSo(i) ==
    LET m == thr[Maint] IN
    CASE m.call = "remove_expired_ao" -> is_invalid_entry(m.va, i.la) \/ is_expired_by_tti(i.la, m.ts)
      [] m.call = "remove_expired_wo" -> is_invalid_entry(m.va, i.lm) \/ is_expired_by_ttl(i.lm, m.ts)
      [] m.call = "evict_lru_entries" -> i.la = m.la
      [] m.call = "try_invalidate" -> i.lm = m.lm

cht_remove_if_and_retire ==
    LET k == thr[Maint].key IN
    /\ thr[Maint].pc = "remove"
    /\ \/ /\ ~(bucket[k] # Absent /\ StillSo(info[bucket[k].info]))
          /\ Goto(Maint, "unlock")
          /\ UNCHANGED bucket
       \/ /\ bucket[k] # Absent /\ StillSo(info[bucket[k].info])
          /\ bucket' = [bucket EXCEPT ![k] = Absent]
          /\ Set(Maint, Taken(Maint, k, "removed"))
    /\ UNCHANGED <<now, valid_after, info, lock, ops, made, notifyVars>>

(* The cause that was decided before stands.                               *)
notify_entry_removal ==
    /\ thr[Maint].pc = "removed" /\ thr[Maint].call # "try_invalidate"
    /\ Goto(Maint, "notify")
    /\ UNCHANGED <<tableVars, lock, notifyVars>>

notify_single_removal ==
    /\ thr[Maint].pc = "removed" /\ thr[Maint].call = "try_invalidate"
    /\ Goto(Maint, "notify")
    /\ UNCHANGED <<tableVars, lock, notifyVars>>
-----------------------------------------------------------------------------

(* RemovalNotifier::notify loads is_enabled ...                            *)
notify(t) ==
    /\ thr[t].pc = "notify"
    /\ Goto(t, IF is_enabled THEN "call" ELSE "unlock")
    /\ UNCHANGED <<tableVars, lock, notifyVars>>

Call(t) == [value |-> thr[t].value, cause |-> thr[t].cause, call |-> thr[t].call,
            locked |-> thr[t].locked, lapsed |-> thr[t].lapsed, invalid |-> thr[t].invalid,
            expired |-> Lapsed(thr[t].la, thr[t].lm, now), after |-> panics > 0]

(* ... and, a step later, calls the listener.                              *)
listener_clo(t) ==
    /\ thr[t].pc = "call"
    /\ told' = [told EXCEPT ![thr[t].key] = Append(@, Call(t))]
    /\ late' = [late EXCEPT ![t] = IF is_enabled THEN @ ELSE @ + 1]
    /\ Goto(t, "called")
    /\ UNCHANGED <<tableVars, lock, is_enabled, panics>>

ListenerReturns(t) ==
    /\ thr[t].pc = "called"
    /\ Goto(t, "unlock")
    /\ UNCHANGED <<tableVars, lock, notifyVars>>

(* catch_unwind swallows the panic.                                        *)
ListenerPanics(t) ==
    /\ thr[t].pc = "called"
    /\ panics < MaxPanics
    /\ panics' = panics + 1
    /\ Goto(t, "disable")
    /\ UNCHANGED <<tableVars, lock, is_enabled, told, late>>

Disable(t) ==
    /\ thr[t].pc = "disable"
    /\ is_enabled' = FALSE
    /\ Goto(t, "unlock")
    /\ UNCHANGED <<tableVars, lock, told, late, panics>>

(* The guard of the key lock is dropped, and the operation returns; a run  *)
(* of maintenance goes on or ends.                                         *)
Unlock(t) ==
    /\ thr[t].pc = "unlock"
    /\ lock' = IF thr[t].locked THEN [lock EXCEPT ![thr[t].key] = None] ELSE lock
    /\ \/ Set(t, Idle)
       \/ t = Maint /\ Set(t, [Idle EXCEPT !.pc = "scan", !.ts = thr[t].ts, !.va = thr[t].va])
    /\ UNCHANGED <<tableVars, notifyVars>>

EndRun ==
    /\ thr[Maint].pc = "scan"
    /\ Set(Maint, Idle)
    /\ UNCHANGED <<tableVars, lock, notifyVars>>
-----------------------------------------------------------------------------
Tick ==
    /\ now < MaxTime
    /\ now' = now + 1
    /\ UNCHANGED <<valid_after, bucket, info, is_enabled, lock, thr, ops, made, told, late, panics>>

UserStep(t) ==
    \/ \E k \in Keys : BeginInsert(t, k) \/ BeginInvalidate(t, k) \/ BeginGet(t, k)
    \/ set_valid_after(t)
    \/ do_insert_with_hash(t) \/ notify_upsert(t)
    \/ invalidate_with_hash(t) \/ notify_invalidate(t)
    \/ set_last_accessed(t)

MaintStep ==
    \/ BeginRun \/ EndRun
    \/ \E k \in Keys : Choose(k)
    \/ cht_remove_if_and_retire \/ notify_entry_removal \/ notify_single_removal

Notify(t) ==
    \/ maybe_key_lock(t) \/ notify(t) \/ listener_clo(t)
    \/ ListenerReturns(t) \/ ListenerPanics(t) \/ Disable(t) \/ Unlock(t)

Next == Tick \/ MaintStep \/ (\E t \in Threads : UserStep(t)) \/ \E t \in Actors : Notify(t)

Spec == Init /\ [][Next]_vars

(* The steps that an operation, a call of the listener and a run go on     *)
(* with.                                                                   *)
CallStep(t) ==
    \/ do_insert_with_hash(t) \/ notify_upsert(t)
    \/ invalidate_with_hash(t) \/ notify_invalidate(t)
    \/ set_last_accessed(t)

NotifyStep(t) ==
    \/ notify(t) \/ listener_clo(t) \/ Disable(t) \/ Unlock(t)
    \/ ListenerReturns(t) \/ ListenerPanics(t)

RunStep == EndRun \/ cht_remove_if_and_retire \/ notify_entry_removal \/ notify_single_removal

(* Every actor that has something to do goes on, and so does the listener: *)
(* it returns or panics.  The locks are fair in the long run.              *)
FairSpec ==
    /\ Spec
    /\ \A t \in Threads : WF_vars(CallStep(t))
    /\ \A t \in Actors : WF_vars(NotifyStep(t)) /\ SF_vars(maybe_key_lock(t))
    /\ WF_vars(RunStep)
-----------------------------------------------------------------------------
(* The listener is told of a value at most once, whichever of the racing   *)
(* operations took it out of the table.                                    *)
ToldOnce ==
    \A k \in Keys : \A i, j \in 1..Len(told[k]) : told[k][i].value = told[k][j].value => i = j

(* The calls made under the lock of a key come in the order in which its   *)
(* values left the table: this is what the lock is held for.               *)
LockedInOrder ==
    \A k \in Keys : \A i, j \in 1..Len(told[k]) :
        i < j /\ told[k][i].locked /\ told[k][j].locked => told[k][i].value < told[k][j].value

(* While the listener never panicked, every value that is no longer in the *)
(* table was passed to it once all the operations have returned.           *)
NoneMissed ==
    panics = 0 /\ (\A t \in Actors : thr[t].pc \in {"idle", "touch", "scan"}) =>
        \A k \in Keys : \A v \in (1..made[k]) \ {bucket[k].value} :
            \E i \in 1..Len(told[k]) : told[k][i].value = v

(* A value that an insert or an invalidation takes out after its time to   *)
(* live is reported as Expired, and one that invalidate_all had discarded  *)
(* is not reported as Replaced.                                            *)
CauseHolds ==
    \A k \in Keys : \A i \in 1..Len(told[k]) :
        LET n == told[k][i] IN
        n.call \in {"insert", "invalidate"} =>
            /\ n.lapsed => n.cause = "Expired"
            /\ n.invalid => n.cause # "Replaced"

(* "The entry's expiration timestamp has passed": a value reported as      *)
(* Expired had run out of its time to live or to idle.                     *)
ExpiredHasExpired ==
    \A k \in Keys : \A i \in 1..Len(told[k]) : told[k][i].cause = "Expired" => told[k][i].expired

(* Once the listener is disabled each thread calls it at most once more,   *)
(* in an operation that had already looked at is_enabled.                  *)
LateOnce == \A t \in Actors : late[t] <= 1

(* "We will not call the listener again if it has been panicked."          *)
NoCallAfterPanic == \A k \in Keys : \A i \in 1..Len(told[k]) : ~told[k][i].after

Busy(t) == thr[t].pc # "idle"

(* Every operation returns and gives back the lock of its key, also when   *)
(* the listener panics in the middle of it.                                *)
OpsReturn == \A t \in Actors : Busy(t) ~> ~Busy(t)
=============================================================================

--------------------------- MODULE FutureNotifier ---------------------------
(***************************************************************************)
(* The eviction listener of a future cache (src/future/notifier.rs).  The  *)
(* callers take values out of the table as those of the sync cache do      *)
(* (Notifier), and decide the cause when they make the future of the       *)
(* notification.  Its first poll loads is_enabled and calls the listener,  *)
(* which may panic at once or return a future; that future is awaited, and *)
(* may panic too.  A task that is dropped meanwhile gives up its key lock; *)
(* its CancelGuard saves the future, and the next operation resumes it.    *)
(***************************************************************************)
EXTENDS Naturals, Sequences

CONSTANTS Threads, Maint, Keys, None, time_to_live, time_to_idle, MaxOps, MaxRuns, MaxPanics,
          MaxTime,
          MaxCancels            \* bound: tasks dropped while they wait

VARIABLES now, valid_after, bucket, info, is_enabled, lock, thr, ops, made, told, late, panics,
    interrupted_op_ch,          \* the notifications of dropped tasks
    done,                       \* the notifications whose future has ended
    cancels

S == INSTANCE Notifier

cancelVars == <<interrupted_op_ch, done, cancels>>
cacheVars == <<now, valid_after, bucket, info, is_enabled, lock, ops, made, told, late, panics>>
vars == <<cacheVars, thr, cancelVars>>

Actors == Threads \cup {Maint}

Init ==
    /\ S!Init
    /\ interrupted_op_ch = <<>>
    /\ done = <<>>
    /\ cancels = 0
-----------------------------------------------------------------------------
(* What the notification of a thread is about.                             *)
Subject(t) == [key |-> thr[t].key, value |-> thr[t].value]

notify_single_removal == S!notify_single_removal /\ UNCHANGED cancelVars
notify_entry_removal == S!notify_entry_removal /\ UNCHANGED cancelVars
notify_upsert(t) == S!notify_upsert(t) /\ UNCHANGED cancelVars
notify_invalidate(t) == S!notify_invalidate(t) /\ UNCHANGED cancelVars

(* The first poll of the future: is_enabled is loaded ...                  *)
notify(t) == S!notify(t) /\ UNCHANGED cancelVars

(* ... and the listener is called: it returns a future or panics.          *)
listener_clo(t) == S!listener_clo(t) /\ UNCHANGED cancelVars

ListenerReturns(t) ==
    /\ thr[t].pc = "called"
    /\ S!Goto(t, "await")
    /\ UNCHANGED <<cacheVars, cancelVars>>

ListenerPanics(t) == S!ListenerPanics(t) /\ UNCHANGED cancelVars

Ended(t) == done' = Append(done, Subject(t))

FutureReady(t) ==
    /\ thr[t].pc = "await"
    /\ S!Goto(t, "unlock")
    /\ Ended(t)
    /\ UNCHANGED <<cacheVars, interrupted_op_ch, cancels>>

FuturePanics(t) ==
    /\ thr[t].pc = "await"
    /\ panics < MaxPanics
    /\ panics' = panics + 1
    /\ S!Goto(t, "disable")
    /\ Ended(t)
    /\ UNCHANGED <<now, valid_after, bucket, info, is_enabled, lock, ops, made, told, late,
                   interrupted_op_ch, cancels>>

Disable(t) == S!Disable(t) /\ UNCHANGED cancelVars
-----------------------------------------------------------------------------
Freed(t) == IF thr[t].locked THEN [lock EXCEPT ![thr[t].key] = None] ELSE lock

Cancel_lost(t) ==
    /\ cancels < MaxCancels
    /\ cancels' = cancels + 1
    /\ thr[t].pc \in {"lock", "await"}
    /\ UNCHANGED interrupted_op_ch
    /\ lock' = Freed(t)
    /\ S!Set(t, S!Idle)
    /\ UNCHANGED <<now, valid_after, bucket, info, is_enabled, ops, made, told, late, panics, done>>

(* The task is dropped where it awaits a lock or the listener's future.    *)
Cancel(t) ==
    /\ cancels < MaxCancels
    /\ cancels' = cancels + 1
    /\ thr[t].pc \in {"lock", "await"}
    /\ interrupted_op_ch' = IF thr[t].pc = "await" THEN Append(interrupted_op_ch, Subject(t))
                            ELSE interrupted_op_ch
    /\ lock' = Freed(t)
    /\ S!Set(t, S!Idle)
    /\ UNCHANGED <<now, valid_after, bucket, info, is_enabled, ops, made, told, late, panics, done>>

(* The next insert or invalidation first resumes a saved future.           *)
retry_interrupted_ops(t) ==
    /\ thr[t].pc = "idle" /\ interrupted_op_ch # <<>>
    /\ LET op == Head(interrupted_op_ch) IN
       S!Set(t, [S!Idle EXCEPT !.pc = "await", !.call = "retry", !.key = op.key, !.value = op.value])
    /\ interrupted_op_ch' = Tail(interrupted_op_ch)
    /\ UNCHANGED <<cacheVars, done, cancels>>
-----------------------------------------------------------------------------
do_insert_with_hash(t) == S!do_insert_with_hash(t) /\ UNCHANGED cancelVars
invalidate_with_hash(t) == S!invalidate_with_hash(t) /\ UNCHANGED cancelVars

User(t) ==
    /\ \/ \E k \in Keys : S!BeginInsert(t, k) \/ S!BeginInvalidate(t, k)
       \/ S!maybe_key_lock(t) \/ S!Unlock(t)
    /\ UNCHANGED cancelVars

MaintStep ==
    /\ \/ S!BeginRun \/ S!EndRun
       \/ \E k \in Keys : S!Choose(k)
       \/ S!cht_remove_if_and_retire
       \/ S!maybe_key_lock(Maint) \/ S!Unlock(Maint)
    /\ UNCHANGED cancelVars

Notify(t) ==
    \/ notify(t) \/ listener_clo(t) \/ ListenerReturns(t) \/ ListenerPanics(t)
    \/ FutureReady(t) \/ FuturePanics(t) \/ Disable(t)

Next ==
    \/ S!Tick /\ UNCHANGED cancelVars
    \/ MaintStep \/ notify_single_removal \/ notify_entry_removal
    \/ \E t \in Threads : \/ User(t) \/ Cancel(t) \/ retry_interrupted_ops(t)
                          \/ do_insert_with_hash(t) \/ invalidate_with_hash(t)
                          \/ notify_upsert(t) \/ notify_invalidate(t)
    \/ \E t \in Actors : Notify(t)

Spec == Init /\ [][Next]_vars
-----------------------------------------------------------------------------
(* Dropped tasks included, the listener is told of a value at most once,   *)
ToldOnce == S!ToldOnce

(* and under the key lock in the order in which the values left the table: *)
(* the lock is only given up once the listener was called.                 *)
LockedInOrder == S!LockedInOrder

(* Once the listener is disabled each task calls it at most once more.     *)
LateOnce == S!LateOnce

Count(seq, n) == Len(SelectSeq(seq, LAMBDA x : x = n))

(* The future of every call of the listener has ended, or exactly one task *)
(* awaits it, or it waits in interrupted_op_ch to be resumed.              *)
NoneDropped ==
    panics = 0 =>
        \A k \in Keys : \A i \in 1..Len(told[k]) :
            LET n == [key |-> k, value |-> told[k][i].value]
                awaiting == {t \in Actors : thr[t].pc \in {"called", "await"} /\ Subject(t) = n} IN
            IF awaiting = {} THEN Count(done, n) + Count(interrupted_op_ch, n) = 1
            ELSE Count(done, n) + Count(interrupted_op_ch, n) = 0
                 /\ \A t, u \in awaiting : t = u
=============================================================================

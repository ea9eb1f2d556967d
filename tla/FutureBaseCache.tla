-------------------------- MODULE FutureBaseCache --------------------------
(***************************************************************************)
(* The asynchronous cache (future::base_cache, future::housekeeper and the *)
(* writers of future::cache): what is different from BaseCache when the    *)
(* callers are async tasks, which may be dropped at any await.             *)
(*                                                                         *)
(* The steps of the table and of the policies are those of BaseCache.      *)
(* Maintenance is a shared future, kept in current_task: it advances only  *)
(* while a task that holds the lock of current_task polls it, stays where  *)
(* it is when that task is dropped, and is resumed by the next one.  A     *)
(* CancelGuard saves what a dropped writer still owes, the notification of *)
(* the eviction listener and the WriteOp, in interrupted_op_ch; the next   *)
(* call of a method pays it (retry_interrupted_ops).                       *)
(*                                                                         *)
(* A value, that is a ValueEntry, is identified by its key and the version *)
(* of the bucket that held it.                                             *)
(***************************************************************************)
EXTENDS BaseCache

CONSTANT MayDrop   \* whether calls may be dropped

VARIABLES
    hk,                 \* the task that holds the lock of current_task, or None
    interrupted_op_ch,  \* what dropped tasks owe
    fut,                \* task -> state of its async call
    listeners,          \* the tasks that wait for write_op_ch_ready_event
    owed,               \* the value whose removal maintenance notifies, or None
    gone,               \* history: the values removed from the table
    told                \* history: how often the listener got each of them

asyncVars == <<hk, interrupted_op_ch, fut, listeners, owed, gone, told>>
fvars == <<vars, asyncVars>>

(* CancelGuard: the value the listener must be told of and the WriteOp.    *)
Guard(future, op) == [future |-> future, op |-> op]
Clear == Guard(None, NoOp)

(* stage: where the call is; retrying: it pays somebody else's debts;      *)
(* back: the stage after maintenance.                                      *)
NoCall == [stage |-> "idle", call |-> None, guard |-> Clear, retrying |-> FALSE,
           back |-> None]

Stage(t, stage) == fut' = [fut EXCEPT ![t].stage = stage]

FInit ==
    /\ Init
    /\ hk = None
    /\ interrupted_op_ch = <<>>
    /\ fut = [t \in Threads |-> NoCall]
    /\ listeners = {}
    /\ owed = None
    /\ gone = {}
    /\ told = << >>

(* The listener's future for a value has completed.                        *)
Tell(v) == told' = [w \in DOMAIN told \cup {v} |->
                      (IF w \in DOMAIN told THEN told[w] ELSE 0) + (IF w = v THEN 1 ELSE 0)]

(* Nobody holds the lock of the key, maintenance that awaits the listener   *)
(* included.                                                               *)
Free(k) == Unlocked(k) /\ (owed # None => owed[1] # k)

NoMaint == UNCHANGED <<read_op_ch, policyVars, now, maintVars, policy_gen, admitted>>

-----------------------------------------------------------------------------
(* A method is called; insert, invalidate and get first retry what others  *)
(* left.                                                                   *)
BeginCall(t, call, k, w) ==
    /\ fut[t].stage = "idle"
    /\ call \in Calls
    /\ ops > 0
    /\ ops' = ops - 1
    /\ thr' = [thr EXCEPT ![t] = [IdleThread EXCEPT !.pc = "start", !.key = k, !.weight = w]]
    /\ fut' = [fut EXCEPT ![t] = [NoCall EXCEPT !.call = call, !.stage =
                 IF call = "run_pending_tasks" THEN "acquire" ELSE "retry"]]
    /\ UNCHANGED <<storeVars, infoVars, retired, write_op_ch, hk, interrupted_op_ch,
                   listeners, owed, gone, told>>
    /\ NoMaint

(* retry_interrupted_ops: takes the next one, under a guard of its own.    *)
RetryNext(t) ==
    LET g == Head(interrupted_op_ch) IN
    /\ fut[t].stage = "retry"
    /\ interrupted_op_ch # <<>>
    /\ interrupted_op_ch' = Tail(interrupted_op_ch)
    /\ fut' = [fut EXCEPT ![t].guard = g, ![t].retrying = TRUE,
                          ![t].stage = IF g.future # None THEN "notify" ELSE "send"]
    /\ UNCHANGED <<vars, hk, listeners, owed, gone, told>>

(* Nothing is left to retry: the call itself begins.  insert locks the key *)
(* if there is a listener, invalidate only if the key is there.            *)
RetryDone(t) ==
    LET lookup == fut[t].call = "insert" \/ bucket[thr[t].key].info # None
        pc == CASE fut[t].call = "insert" -> "load"
                [] fut[t].call = "invalidate" -> "remove"
                [] fut[t].call = "get" -> "get"
    IN
    /\ fut[t].stage = "retry"
    /\ interrupted_op_ch = <<>>
    /\ IF KeyLocks /\ lookup /\ fut[t].call # "get"
       THEN /\ fut' = [fut EXCEPT ![t].stage = "lock", ![t].retrying = FALSE]
            /\ UNCHANGED thr
       ELSE /\ fut' = [fut EXCEPT ![t].stage = "body", ![t].retrying = FALSE]
            /\ thr' = [thr EXCEPT ![t].pc = pc, ![t].ts = now]
    /\ UNCHANGED <<storeVars, infoVars, retired, write_op_ch, ops, hk, interrupted_op_ch,
                   listeners, owed, gone, told>>
    /\ NoMaint

LockKey(t) ==
    /\ fut[t].stage = "lock"
    /\ Free(thr[t].key)
    /\ lock' = [lock EXCEPT ![thr[t].key] = t]
    /\ thr' = [thr EXCEPT ![t].pc = IF fut[t].call = "insert" THEN "load" ELSE "remove",
                          ![t].ts = now]
    /\ Stage(t, "body")
    /\ UNCHANGED <<bucket, infoVars, retired, write_op_ch, ops, hk, interrupted_op_ch,
                   listeners, owed, gone, told>>
    /\ NoMaint

(* insert_with_or_modify, up to its CAS, as in BaseCache.                  *)
InsertBody(t) ==
    /\ InsertFound(t) \/ OnInsert(t) \/ InsertAgain(t) \/ OnModify(t) \/ InsertCasFail(t)
    /\ UNCHANGED asyncVars

(* The writer goes on to schedule the WriteOp; or first tells the listener *)
(* of a value, keeping the key locked.                                     *)
Owes(t, v, op) ==
    /\ fut' = [fut EXCEPT ![t].guard = Guard(IF KeyLocks THEN v ELSE None, op),
                          ![t].stage = IF KeyLocks /\ v # None THEN "notify" ELSE "send"]
    /\ lock' = IF KeyLocks /\ v # None THEN lock ELSE Release(thr[t].key, t)

(* The CAS succeeds.  Whether it was an update, to be told to the listener *)
(* (do_post_update_steps), is known from the closure that was called last. *)
do_insert_with_hash(t) ==
    LET k == thr[t].key
        i == IF thr[t].seen.info = None THEN thr[t].own ELSE thr[t].seen.info
        updated == thr[t].op.info # thr[t].own
        old == <<k, thr[t].seen.ver>>
    IN
    /\ thr[t].pc = "cas"
    /\ bucket[k].ver = thr[t].seen.ver
    /\ bucket' = [bucket EXCEPT ![k] = [info |-> i, ver |-> @.ver + 1]]
    /\ gone' = IF thr[t].seen.info # None THEN gone \cup {old} ELSE gone
    /\ Owes(t, IF updated THEN old ELSE None, thr[t].op)
    /\ thr' = [thr EXCEPT ![t].pc = "start"]
    /\ UNCHANGED <<infoVars, retired, write_op_ch, ops, hk, interrupted_op_ch, listeners,
                   owed, told>>
    /\ NoMaint

(* invalidate: remove_entry finds nothing, or unlinks and retires the      *)
(* entry.                                                                  *)
InvalidateMiss(t) ==
    /\ thr[t].pc = "remove"
    /\ bucket[thr[t].key].info = None
    /\ lock' = Release(thr[t].key, t)
    /\ thr' = [thr EXCEPT ![t] = IdleThread]
    /\ fut' = [fut EXCEPT ![t] = NoCall]
    /\ UNCHANGED <<bucket, infoVars, retired, write_op_ch, ops, hk, interrupted_op_ch,
                   listeners, owed, gone, told>>
    /\ NoMaint

InvalidateBody(t) ==
    \/ /\ RemoveCas(t)
       /\ gone' = gone \cup {<<thr[t].key, bucket[thr[t].key].ver>>}
       /\ UNCHANGED <<hk, interrupted_op_ch, fut, listeners, owed, told>>
    \/ RemoveRetire(t) /\ UNCHANGED asyncVars

(* Then the generation is incremented and the listener is told.            *)
invalidate_with_hash(t) ==
    LET i == thr[t].seen.info IN
    /\ thr[t].pc = "incr"
    /\ entry_gen' = incr_entry_gen(i)
    /\ Owes(t, <<thr[t].key, thr[t].seen.ver>>, WriteOp("Remove", i, entry_gen'[i], 0, 0))
    /\ thr' = [thr EXCEPT ![t].pc = "start"]
    /\ UNCHANGED <<bucket, policy_weight, last_accessed, allocs, retired, write_op_ch, ops,
                   hk, interrupted_op_ch, listeners, owed, gone, told>>
    /\ NoMaint

(* get: the lookup, and the touch of a hit.                                *)
GetBody(t) ==
    \/ /\ thr[t].pc = "get"
       /\ thr' = [thr EXCEPT ![t].seen = bucket[thr[t].key],
                    ![t].pc = IF bucket[thr[t].key].info # None THEN "touch" ELSE "record"]
       /\ UNCHANGED <<storeVars, infoVars, retired, write_op_ch, ops, asyncVars>>
       /\ NoMaint
    \/ GetTouch(t) /\ UNCHANGED asyncVars

(* The listener's future completes.  The key is unlocked, if this is not a *)
(* retry, and the WriteOp is scheduled.                                    *)
NotifyDone(t) ==
    /\ fut[t].stage = "notify"
    /\ Tell(fut[t].guard.future)
    /\ fut' = [fut EXCEPT ![t].stage = "send", ![t].guard.future = None]
    /\ lock' = Release(thr[t].key, t)
    /\ UNCHANGED <<bucket, infoVars, retired, write_op_ch, thr, ops, hk, interrupted_op_ch,
                   listeners, owed, gone>>
    /\ NoMaint

-----------------------------------------------------------------------------
(* Housekeeper *)

(* should_apply_writes: the channel has reached the flush point, or the    *)
(* interval has elapsed or entries were left to evict.                     *)
should_apply(len) == {TRUE} \cup (IF len >= FlushPoint THEN {} ELSE {FALSE})

(* try_run_pending_tasks takes the lock of current_task if it is free and  *)
(* polls the task, a new one or the one it finds.                          *)
try_run_pending_tasks(t, back) ==
    IF hk = None
    THEN /\ hk' = t
         /\ fut' = [fut EXCEPT ![t].stage = "maint", ![t].back = back]
    ELSE /\ Stage(t, back)
         /\ UNCHANGED hk

(* apply_reads_writes_if_needed, at each turn of schedule_write_op.        *)
apply_reads_writes_if_needed(t) ==
    /\ fut[t].stage = "send"
    /\ \E apply \in should_apply(Len(write_op_ch)) :
         IF apply THEN try_run_pending_tasks(t, "try_send")
                  ELSE Stage(t, "try_send") /\ UNCHANGED hk
    /\ UNCHANGED <<vars, interrupted_op_ch, listeners, owed, gone, told>>

(* apply_reads_if_needed, before a ReadOp is recorded.                     *)
apply_reads_if_needed(t) ==
    /\ fut[t].stage = "body"
    /\ thr[t].pc = "record"
    /\ \E apply \in should_apply(Len(read_op_ch)) :
         IF apply THEN try_run_pending_tasks(t, "record")
                  ELSE Stage(t, "record") /\ UNCHANGED hk
    /\ UNCHANGED <<vars, interrupted_op_ch, listeners, owed, gone, told>>

(* run_pending_tasks waits for the lock.                                   *)
run_pending_tasks(t) ==
    /\ fut[t].stage = "acquire"
    /\ hk = None
    /\ try_run_pending_tasks(t, "done")
    /\ UNCHANGED <<vars, interrupted_op_ch, listeners, owed, gone, told>>

(* record_read_op drops the ReadOp when the channel is full.               *)
record_read_op(t) ==
    /\ fut[t].stage = "record"
    /\ read_op_ch' = IF Len(read_op_ch) < ReadChSize
                       THEN Append(read_op_ch, thr[t].seen.info) ELSE read_op_ch
    /\ thr' = [thr EXCEPT ![t] = IdleThread]
    /\ fut' = [fut EXCEPT ![t] = NoCall]
    /\ UNCHANGED <<storeVars, infoVars, flagVars, write_op_ch, policyVars, ops, now,
                   maintVars, hk, interrupted_op_ch, listeners, owed, gone, told>>

(* schedule_write_op: the WriteOp is sent and the guard cleared; the next  *)
(* interrupted one is retried, or the call is over.                        *)
Sent(t) ==
    /\ fut[t].stage = "try_send"
    /\ Len(write_op_ch) < WriteChSize
    /\ write_op_ch' = Append(write_op_ch, fut[t].guard.op)
    /\ IF fut[t].retrying
       THEN /\ fut' = [fut EXCEPT ![t].stage = "retry", ![t].guard = Clear]
            /\ UNCHANGED thr
       ELSE /\ fut' = [fut EXCEPT ![t] = NoCall]
            /\ thr' = [thr EXCEPT ![t] = IdleThread]
    /\ UNCHANGED <<storeVars, infoVars, retired, ops, hk, interrupted_op_ch, listeners,
                   owed, gone, told>>
    /\ NoMaint

(* The channel is full: it spins, or listens to the event.                 *)
ChannelFull(t) ==
    /\ fut[t].stage = "try_send"
    /\ Len(write_op_ch) = WriteChSize
    /\ \/ Stage(t, "send") /\ UNCHANGED listeners
       \/ Stage(t, "listen") /\ listeners' = listeners \cup {t}
    /\ UNCHANGED <<vars, hk, interrupted_op_ch, owed, gone, told>>

Woken(t) ==
    /\ fut[t].stage = "listen"
    /\ t \notin listeners
    /\ Stage(t, "send")
    /\ UNCHANGED <<vars, hk, interrupted_op_ch, listeners, owed, gone, told>>

-----------------------------------------------------------------------------
(* Maintenance, polled by the task t *)

Polls(t) == hk = t /\ fut[t].stage = "maint"

(* Steps of do_run_pending_tasks that remove nothing.                      *)
Quietly(step) == owed = None /\ step /\ UNCHANGED asyncVars

apply_reads(t) == Polls(t) /\ Quietly(ApplyRead \/ ReadsDone)

apply_writes(t) == Polls(t) /\ Quietly(ApplyRemove)

(* The value that is removed from the table is notified before the entry   *)
(* leaves the deque, while the key is locked.                              *)
Removing(step) ==
    LET removed == {k \in Keys : bucket[k].info # None /\ bucket'[k].info = None}
        v == <<CHOOSE k \in removed : TRUE, bucket[CHOOSE k \in removed : TRUE].ver>>
    IN
    /\ owed = None
    /\ step
    /\ gone' = gone \cup {v}
    /\ owed' = IF KeyLocks THEN v ELSE None
    /\ UNCHANGED <<hk, interrupted_op_ch, fut, listeners, told>>

Notified(step) ==
    /\ step
    /\ IF owed # None THEN Tell(owed) ELSE UNCHANGED told
    /\ owed' = None
    /\ UNCHANGED <<hk, interrupted_op_ch, fut, listeners, gone>>

handle_upsert(t) ==
    /\ Polls(t)
    /\ \/ Quietly(UpsertRetired \/ UpsertAdmitted \/ UpsertFits \/ UpsertContends)
       \/ Quietly(CheckAgain \/ VictimCheck \/ VictimSkip \/ AdmitCandidate)
       \/ Removing(VictimRemove)
       \/ Notified(VictimRemoved)

admit(t) == Polls(t) /\ Quietly(AdmitLook \/ AdmitSkip \/ AdmitTake \/ AdmitDecide)

(* A candidate that is too big or rejected is removed, and then notified.  *)
RejectCandidate(t) ==
    /\ Polls(t)
    /\ \/ Quietly(UpsertTooBig \/ CandidateCheck \/ KeepCandidate)
       \/ Removing(RemoveCandidate)
       \/ mpc = "writes" /\ owed # None /\ Notified(UNCHANGED vars)

evict_lru_entries(t) ==
    /\ Polls(t)
    /\ \/ Quietly(EvictSkipDirty \/ EvictClean \/ EvictPeek \/ EvictCheck \/ EvictMiss
                  \/ EvictSkip)
       \/ Removing(EvictRemove)
       \/ Notified(EvictRemoved)

(* After the logs, as many listeners are woken as there is room for.       *)
ch_ready_event(n) ==
    \E woken \in SUBSET listeners :
        /\ Cardinality(woken) = n
        /\ listeners' = listeners \ woken

Room == WriteChSize - Len(write_op_ch)

do_run_pending_tasks(t) ==
    /\ Polls(t)
    /\ \/ Quietly(MaintStart \/ MaintAgain)
       \/ /\ owed = None
          /\ WritesDone
          /\ ch_ready_event(IF Cardinality(listeners) < Room THEN Cardinality(listeners)
                                                              ELSE Room)
          /\ UNCHANGED <<hk, interrupted_op_ch, fut, owed, gone, told>>

(* The task of maintenance completes: current_task is emptied and unlocked *)
(* and every listener is woken.                                            *)
MaintenanceDone(t) ==
    /\ Polls(t)
    /\ MaintDone
    /\ hk' = None
    /\ listeners' = {}
    /\ fut' = [fut EXCEPT ![t] = IF fut[t].back = "done" THEN NoCall
                                  ELSE [fut[t] EXCEPT !.stage = fut[t].back, !.back = None]]
    /\ UNCHANGED <<interrupted_op_ch, owed, gone, told>>

(* Where maintenance can be suspended: it waits for the lock of a key or   *)
(* for the listener.                                                       *)
MaintKey ==
    CASE mpc = "victims" /\ m.victims # <<>> -> Head(m.victims).key
      [] mpc \in {"toobig", "reject"} -> KeyOf(m.work.info)
      [] mpc = "evict_peeked" -> m.evict.key
      [] OTHER -> None

Suspended == owed # None \/ (MaintKey # None /\ lock[MaintKey] # None)

(* Where a call can be suspended, and so dropped.                          *)
Awaits(t) ==
    \/ fut[t].stage \in {"notify", "listen"}
    \/ fut[t].stage = "lock" /\ ~Free(thr[t].key)
    \/ fut[t].stage = "acquire" /\ hk # None
    \/ fut[t].stage = "maint" /\ Suspended

Drop_no_op(t) ==
    /\ MayDrop
    /\ Awaits(t)
    /\ interrupted_op_ch' = IF fut[t].guard.future = None
                              THEN interrupted_op_ch
                              ELSE Append(interrupted_op_ch, fut[t].guard)
    /\ hk' = IF hk = t THEN None ELSE hk
    /\ lock' = [k \in Keys |-> IF lock[k] = t THEN None ELSE lock[k]]
    /\ listeners' = listeners \ {t}
    /\ fut' = [fut EXCEPT ![t] = NoCall]
    /\ thr' = [thr EXCEPT ![t] = IdleThread]
    /\ UNCHANGED <<bucket, infoVars, retired, write_op_ch, ops, owed, gone, told>>
    /\ NoMaint

(* The call is dropped.  Its guard saves what it owes; the locks it holds  *)
(* are released, without an event; the task of maintenance stays.          *)
Drop(t) ==
    /\ MayDrop
    /\ Awaits(t)
    /\ interrupted_op_ch' = IF fut[t].guard = Clear THEN interrupted_op_ch
                              ELSE Append(interrupted_op_ch, fut[t].guard)
    /\ hk' = IF hk = t THEN None ELSE hk
    /\ lock' = [k \in Keys |-> IF lock[k] = t THEN None ELSE lock[k]]
    /\ listeners' = listeners \ {t}
    /\ fut' = [fut EXCEPT ![t] = NoCall]
    /\ thr' = [thr EXCEPT ![t] = IdleThread]
    /\ UNCHANGED <<bucket, infoVars, retired, write_op_ch, ops, owed, gone, told>>
    /\ NoMaint

TaskStep(t) ==
    \/ RetryNext(t)
    \/ RetryDone(t)
    \/ LockKey(t)
    \/ InsertBody(t)
    \/ do_insert_with_hash(t)
    \/ InvalidateMiss(t)
    \/ InvalidateBody(t)
    \/ invalidate_with_hash(t)
    \/ GetBody(t)
    \/ NotifyDone(t)
    \/ apply_reads_writes_if_needed(t)
    \/ apply_reads_if_needed(t)
    \/ run_pending_tasks(t)
    \/ record_read_op(t)
    \/ Sent(t)
    \/ ChannelFull(t)
    \/ Woken(t)
    \/ apply_reads(t)
    \/ apply_writes(t)
    \/ handle_upsert(t)
    \/ admit(t)
    \/ RejectCandidate(t)
    \/ evict_lru_entries(t)
    \/ do_run_pending_tasks(t)
    \/ MaintenanceDone(t)
    \/ Drop(t)

FNext ==
    \/ Tick /\ UNCHANGED asyncVars
    \/ \E t \in Threads :
         TaskStep(t) \/ \E call \in Calls, k \in Keys, w \in Weights : BeginCall(t, call, k, w)

FSpec == FInit /\ [][FNext]_fvars
-----------------------------------------------------------------------------
Guards == {fut[t].guard : t \in Threads} \cup {interrupted_op_ch[p] : p \in 1..Len(interrupted_op_ch)}

(* How many times the notification of a value is still to come.            *)
Pending(v) ==
    Cardinality({t \in Threads : fut[t].guard.future = v})
    + Cardinality({p \in 1..Len(interrupted_op_ch) : interrupted_op_ch[p].future = v})
    + (IF owed = v THEN 1 ELSE 0)

(* The thread has unlinked a value and not yet made its guard.             *)
Invalidating(v) ==
    \E t \in Threads : /\ thr[t].pc \in {"retire", "incr"}
                       /\ v = <<thr[t].key, thr[t].seen.ver>>

(* The eviction listener is told once of each value that leaves the cache, *)
(* however often the callers, and maintenance, are dropped on the way:     *)
(* "To ensure the above future should be executed even if our caller async *)
(* task is cancelled".                                                     *)
ToldOnce ==
    KeyLocks =>
        /\ DOMAIN told \subseteq gone
        /\ \A v \in gone :
             (IF v \in DOMAIN told THEN told[v] ELSE 0) + Pending(v)
                 + (IF Invalidating(v) THEN 1 ELSE 0) = 1

(* The WriteOp is in the channel, or somebody has yet to send it.          *)
OnItsWay(i, kind) ==
    \/ Queued(i, kind)
    \/ \E g \in Guards : g.op.info = i /\ g.op.kind = kind

(* No entry escapes the policies although its writer was dropped: it is    *)
(* admitted, or its WriteOp is on its way.                                 *)
WritesAreTracked ==
    \A k \in Keys :
        LET i == bucket[k].info IN
        i # None /\ i \notin admitted =>
            \/ OnItsWay(i, "Upsert")
            \/ m.work.info = i
            \/ \E t \in Threads : thr[t].pc \in {"load", "modify", "cas"} /\ thr[t].key = k

(* No entry stays in the deque although the one who removed it was         *)
(* dropped: its WriteOp is on its way, or maintenance is about to unlink   *)
(* it.                                                                     *)
RemovesAreTracked ==
    \A i \in admitted :
        \/ Linked(i)
        \/ OnItsWay(i, "Remove")
        \/ m.removed = i
        \/ \E t \in Threads : thr[t].pc \in {"retire", "incr"} /\ thr[t].seen.info = i

(* When every call is over, no debt is left and maintenance is complete,   *)
(* each entry in the deque can be evicted.                                 *)
QuietIsEvictable ==
    /\ \A t \in Threads : fut[t].stage = "idle"
    /\ write_op_ch = <<>>
    /\ interrupted_op_ch = <<>>
    /\ mpc = "idle"
    => \A i \in admitted : Linked(i) /\ ~is_dirty(i)
=============================================================================

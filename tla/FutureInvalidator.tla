-------------------------- MODULE FutureInvalidator --------------------------
(***************************************************************************)
(* invalidate_entries_if in future::Cache: Invalidator with async tasks in *)
(* the place of threads (future/invalidator.rs, future/base_cache.rs).     *)
(*                                                                         *)
(* What is different: with a listener, an insert and the removal of an     *)
(* entry by the scan await the lock of the key, and the removal then       *)
(* awaits the listener.  A call may be dropped while it awaits; its write  *)
(* is sent by a later call.  The scan advances only while a task polls     *)
(* maintenance.  If that task is dropped, the scan stays where it is, with *)
(* the candidates it has collected and the lock it holds, until the next   *)
(* task polls it.                                                          *)
(*                                                                         *)
(* The steps that await nothing are those of Invalidator.                  *)
(***************************************************************************)
EXTENDS Naturals, Sequences, FiniteSets

CONSTANTS
    Keys, Values, Threads, None, Done, BatchSize, Serial, MaxInserts, MaxPredicates, MaxGets,
    MaxDrops          \* bound: calls that are dropped

VARIABLES
    now, bucket, info, write_op_ch, write_order, cursor, predicates, is_empty, scan_context, thr, left,
    mpc, m, returned, gone,
    hk,                \* the task that polls maintenance, or None
    lock,              \* key -> the task, or "maintenance", that has locked it
    telling,           \* whether the scan awaits the listener
    interrupted_op_ch, \* WriteOps of calls that were dropped
    drops

S == INSTANCE Invalidator

cacheVars == <<now, bucket, info, write_order, cursor, predicates, is_empty>>
maintVars == <<scan_context, mpc, m, gone>>
userVars == <<thr, left, returned>>
vars == <<cacheVars, maintVars, userVars, write_op_ch, hk, lock, telling, interrupted_op_ch, drops>>

Invalidator_new == S!Invalidator_new

Init ==
    /\ Invalidator_new
    /\ S!Init
    /\ hk = None
    /\ lock = [k \in Keys |-> None]
    /\ telling = FALSE
    /\ interrupted_op_ch = <<>>
    /\ drops = 0
-----------------------------------------------------------------------------
(* Tasks *)

(* A call first sends the writes of calls that were dropped.               *)
retry_interrupted_ops(t) ==
    /\ S!MayCall(t, "insert")
    /\ interrupted_op_ch # <<>>
    /\ write_op_ch' = Append(write_op_ch, Head(interrupted_op_ch))
    /\ interrupted_op_ch' = Tail(interrupted_op_ch)
    /\ UNCHANGED <<cacheVars, maintVars, userVars, hk, lock, telling, drops>>

insert(t) ==
    /\ interrupted_op_ch = <<>>
    /\ hk # t
    /\ \E k \in Keys, v \in Values : S!BeginInsert(t, k, v)
    /\ UNCHANGED <<hk, lock, telling, interrupted_op_ch, drops>>

maybe_key_lock(t) ==
    /\ thr[t].pc = "write"
    /\ lock[thr[t].key] = None
    /\ lock' = [lock EXCEPT ![thr[t].key] = t]
    /\ UNCHANGED <<cacheVars, maintVars, userVars, write_op_ch, hk, telling, interrupted_op_ch, drops>>

(* The key is unlocked once the entry is in the hash table.                *)
do_insert_with_hash(t) ==
    /\ thr[t].pc \in {"write", "swap"}
    /\ lock[thr[t].key] = t
    /\ S!on_insert(t) \/ S!on_modify(t) \/ S!do_insert_with_hash(t)
    /\ lock' = IF thr'[t].pc = "send" THEN [lock EXCEPT ![thr[t].key] = None] ELSE lock
    /\ UNCHANGED <<hk, telling, interrupted_op_ch, drops>>

schedule_write_op(t) ==
    /\ S!schedule_write_op(t)
    /\ UNCHANGED <<hk, lock, telling, interrupted_op_ch, drops>>

invalidate_entries_if(t) ==
    /\ hk # t
    /\ \E v \in Values : S!invalidate_entries_if(t, v)
    /\ UNCHANGED <<hk, lock, telling, interrupted_op_ch, drops>>

(* It awaits nothing, so that it is never dropped half-way.                *)
register_predicate(t) ==
    /\ S!register_predicate(t) \/ S!Registered(t)
    /\ UNCHANGED <<hk, lock, telling, interrupted_op_ch, drops>>

is_applicable(p, ts) == ts <= p.registered_at
Predicate_apply(p, val) == p.f = val
do_apply_predicates(ps, val, ts) == \E p \in ps : is_applicable(p, ts) /\ Predicate_apply(p, val)

apply_predicates(k) ==
    /\ ~is_empty
    /\ do_apply_predicates(predicates, bucket[k].val, info[bucket[k].info].last_modified)

is_invalidated_entry(k) == apply_predicates(k)

(* A get that hits.                                                        *)
get_with_hash(t, k) ==
    /\ S!MayCall(t, "get")
    /\ hk # t
    /\ interrupted_op_ch = <<>>
    /\ bucket[k].info # None
    /\ ~is_invalidated_entry(k)
    /\ left' = [left EXCEPT !.get = @ - 1]
    /\ thr' = [thr EXCEPT ![t].seen = bucket[k], ![t].key = k]
    /\ UNCHANGED <<cacheVars, maintVars, returned, write_op_ch, hk, lock, telling, interrupted_op_ch, drops>>
-----------------------------------------------------------------------------
(* Maintenance *)

Polled == hk # None /\ hk' = IF mpc' = "idle" THEN None ELSE hk

(* run_pending_tasks of a task that goes on with maintenance.              *)
run_pending_tasks(t) ==
    /\ hk = None
    /\ thr[t].pc = "idle"
    /\ hk' = t
    /\ UNCHANGED <<cacheVars, maintVars, userVars, write_op_ch, lock, telling, interrupted_op_ch, drops>>

invalidate_entries ==
    /\ \/ S!MaintStart \/ S!handle_upsert \/ S!invalidate_entries \/ S!Collect \/ S!Peek
       \/ S!handle_remove \/ S!reset_cursor
    /\ Polled
    /\ UNCHANGED <<lock, telling, interrupted_op_ch, drops>>

remove_predicates_registered_before ==
    /\ S!remove_predicates_registered_before
    /\ Polled
    /\ UNCHANGED <<lock, telling, interrupted_op_ch, drops>>

apply ==
    /\ ~telling
    /\ S!apply
    /\ Polled
    /\ UNCHANGED <<lock, telling, interrupted_op_ch, drops>>

LockCandidate ==
    LET k == Head(m.found)[1] IN
    /\ hk # None
    /\ mpc = "remove"
    /\ lock[k] = None
    /\ lock' = [lock EXCEPT ![k] = "maintenance"]
    /\ UNCHANGED <<cacheVars, maintVars, userVars, write_op_ch, hk, telling, interrupted_op_ch, drops>>

(* invalidate: under the lock of the key, which is kept while the listener *)
(* is told.                                                                *)
invalidate ==
    LET k == Head(m.found)[1] IN
    /\ hk # None
    /\ mpc = "remove"
    /\ lock[k] = "maintenance"
    /\ S!invalidate
    /\ telling' = (bucket' # bucket)
    /\ lock' = IF telling' THEN lock ELSE [lock EXCEPT ![k] = None]
    /\ UNCHANGED <<hk, interrupted_op_ch, drops>>

notify_single_removal ==
    /\ hk # None
    /\ telling
    /\ telling' = FALSE
    /\ lock' = [lock EXCEPT ![Head(m.found)[1]] = None]
    /\ UNCHANGED <<cacheVars, maintVars, userVars, write_op_ch, hk, interrupted_op_ch, drops>>

scan_and_invalidate ==
    \/ apply
    \/ /\ ~telling
       /\ S!NextCandidate \/ S!IsDone
       /\ Polled
       /\ UNCHANGED <<lock, telling, interrupted_op_ch, drops>>
    \/ LockCandidate
    \/ invalidate
    \/ notify_single_removal

remove_finished_predicates ==
    /\ S!remove_finished_predicates
    /\ Polled
    /\ UNCHANGED <<lock, telling, interrupted_op_ch, drops>>

remove_predicates ==
    /\ S!RegistryEmpty \/ S!SetFlag
    /\ Polled
    /\ UNCHANGED <<lock, telling, interrupted_op_ch, drops>>

(* What may be dropped: a call that awaits the lock of its key or room in  *)
(* the channel, and a task that polls maintenance.                         *)
Awaits(t) ==
    \/ thr[t].pc = "write" /\ lock[thr[t].key] # t
    \/ thr[t].pc = "send"

Drop(t) ==
    /\ drops < MaxDrops
    /\ drops' = drops + 1
    /\ \/ /\ Awaits(t)
          /\ thr' = [thr EXCEPT ![t] = S!IdleThread]
          /\ interrupted_op_ch' = IF thr[t].pc = "send"
                THEN Append(interrupted_op_ch, [info |-> thr[t].seen.info, gen |-> thr[t].gen])
                ELSE interrupted_op_ch
          /\ UNCHANGED hk
       \/ /\ hk = t
          /\ mpc = "remove" \/ telling
          /\ hk' = None
          /\ UNCHANGED <<thr, interrupted_op_ch>>
    /\ UNCHANGED <<cacheVars, maintVars, left, returned, write_op_ch, lock, telling>>

Poll ==
    \/ invalidate_entries \/ remove_predicates_registered_before
    \/ scan_and_invalidate \/ remove_finished_predicates \/ remove_predicates

Step(t) ==
    \/ maybe_key_lock(t) \/ do_insert_with_hash(t) \/ schedule_write_op(t) \/ invalidate_entries_if(t)
    \/ register_predicate(t) \/ run_pending_tasks(t)

Next ==
    \/ Poll
    \/ \E t \in Threads :
        \/ Step(t) \/ Drop(t) \/ insert(t) \/ retry_interrupted_ops(t)
        \/ \E k \in Keys : get_with_hash(t, k)

Spec == Init /\ [][Next]_vars

(* Tasks are polled, the locks of keys are fair, and some task keeps       *)
(* calling run_pending_tasks.                                              *)
FairSpec ==
    /\ Spec
    /\ WF_vars(Poll)
    /\ SF_vars(LockCandidate)
    /\ WF_vars(\E t \in Threads : run_pending_tasks(t))
    /\ \A t \in Threads : WF_vars(Step(t))
-----------------------------------------------------------------------------
(* However long the scan is suspended between applying the predicates to a *)
(* candidate and removing it, what it removes is a value that a predicate  *)
(* matches which was registered after the value was written.               *)
RemovedWasMatched == S!RemovedWasMatched

(* While no two calls overlap, get does not return what the same task has  *)
(* invalidated, if its insert had returned by then, whatever was dropped.  *)
NoInvalidatedHit == S!NoInvalidatedHit

(* The cursor points at no node that was freed.                            *)
CursorValid == S!CursorValid

(* A scan comes to its end although the tasks that poll it, and those that *)
(* wait for the same keys, are dropped.                                    *)
ScanEnds == mpc # "idle" ~> mpc = "idle"
=============================================================================

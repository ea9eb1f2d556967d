----------------------------- MODULE Expiration -----------------------------
(***************************************************************************)
(* Time in sync::Cache: time_to_live, time_to_idle, the expiration times   *)
(* given by an Expiry, invalidate_all, and how maintenance removes what    *)
(* has expired, by the write-order deque, the access-order deque and the   *)
(* timers (sync/base_cache.rs).                                            *)
(*                                                                         *)
(* The capacity is unbounded, so handle_upsert always admits; size-based   *)
(* eviction is in BaseCache.  The timer wheel is abstracted to a set of    *)
(* timers with the time they are set for; its buckets are in TimerWheel.   *)
(* An insertion into an absent key is one step: the retries of the hash    *)
(* table are in BaseCache.                                                 *)
(***************************************************************************)
EXTENDS Naturals, Sequences, FiniteSets

CONSTANTS
    Keys, Threads, None,
    time_to_live,     \* a duration, or None
    time_to_idle,     \* a duration, or None
    Expiry,           \* whether an Expiry is set
    Durations,        \* what its methods may return: durations, None
    KeyLocks,         \* whether a listener is set, and keys are locked
    Calls,            \* the methods that are called
    ReadChSize,       \* READ_LOG_CH_SIZE
    BatchSize,        \* eviction_batch_size
    MaxInfos,         \* bound: entries allocated
    MaxOps,           \* bound: calls per thread
    LastCall,         \* bound: the time of the last call
    MaxTime           \* bound: the clock

VARIABLES
    now,              \* the clock
    valid_after,      \* time of the last invalidate_all, or None
    bucket,           \* key -> info and version of its ValueEntry, and when it was written
    info,             \* EntryInfo and DeqNodes of the entries allocated
    read_op_ch,
    write_op_ch,
    lock,             \* key -> thread or "maint" that has it locked, or None
    deq,              \* the deques: "ao" and "wo"
    wheel,            \* the timers that are set
    thr,              \* thread -> local state of its call
    ops,              \* thread -> calls left
    mpc, m,           \* maintenance
    removed,          \* history: the last entry this run of maintenance removed
    invalidated       \* history: the latest time of a completed invalidate_all

vars == <<now, valid_after, bucket, info, read_op_ch, write_op_ch, lock, deq, wheel, thr,
          ops, mpc, m, removed, invalidated>>
maintVars == <<deq, wheel, mpc, m, removed>>

Absent == [info |-> None, ver |-> 0, ts |-> 0]
IdleThread == [pc |-> "idle", call |-> None, key |-> None, now |-> 0, seen |-> Absent,
               op |-> None, modified |-> FALSE, updating |-> FALSE, va |-> None]
IdleMaint == [reads |-> 0, now |-> 0, va |-> None, due |-> {}, count |-> 0, info |-> None,
              gen |-> 0, key |-> None, ver |-> 0, back |-> None]
Forget(mm) == [mm EXCEPT !.info = None, !.gen = 0, !.key = None, !.ver = 0, !.back = None]

Init ==
    /\ now = 1
    /\ valid_after = None
    /\ bucket = [k \in Keys |-> Absent]
    /\ info = <<>>
    /\ read_op_ch = <<>>
    /\ write_op_ch = <<>>
    /\ lock = [k \in Keys |-> None]
    /\ deq = [d \in {"ao", "wo"} |-> <<>>]
    /\ wheel = {}
    /\ thr = [t \in Threads |-> IdleThread]
    /\ ops = [t \in Threads |-> MaxOps]
    /\ mpc = "idle"
    /\ m = IdleMaint
    /\ removed = None
    /\ invalidated = 0
-----------------------------------------------------------------------------
(* Expiration *)

is_invalid_entry(va, ts) == va # None /\ ts < va

is_expired_by_tti(ts, at) == time_to_idle # None /\ ts + time_to_idle <= at

is_expired_by_ttl(ts, at) == time_to_live # None /\ ts + time_to_live <= at

is_expired_by_per_entry_ttl(i, at) == info[i].exp # None /\ info[i].exp <= at

is_expired_entry_ao(va, i, at) ==
    is_invalid_entry(va, info[i].last_accessed) \/ is_expired_by_tti(info[i].last_accessed, at)

is_expired_entry_wo(va, i, at) ==
    is_invalid_entry(va, info[i].last_modified) \/ is_expired_by_ttl(info[i].last_modified, at)

is_expired(va, i, at) ==
    \/ is_expired_by_per_entry_ttl(i, at)
    \/ is_expired_entry_wo(va, i, at)
    \/ is_expired_entry_ao(va, i, at)

is_write_order_queue_enabled == time_to_live # None

is_dirty(i) == info[i].entry_gen # info[i].policy_gen

(* 12 bits of the packed state count the changes of the expiration time.   *)
set_expiration_time(e, time) == [e EXCEPT !.exp = time, !.expiry_gen = (@ + 1) % 4096]

EntryInfo(k, ts) ==
    [key |-> k, last_accessed |-> ts, last_modified |-> ts, exp |-> None, expiry_gen |-> 0,
     entry_gen |-> 1, policy_gen |-> 0, retired |-> FALSE, admitted |-> FALSE,
     timer_node |-> None]

new_value_entry(k, ts) == EntryInfo(k, ts)

(* The new ValueEntry shares the EntryInfo of the old one.                 *)
new_value_entry_from(e, ts) ==
    [e EXCEPT !.entry_gen = @ + 1, !.last_accessed = ts, !.last_modified = ts]

Later(ts, d) == IF d = None THEN None ELSE ts + d

(* expire_after_create, for each answer of the Expiry.                     *)
expire_after_create(e, ts) == {set_expiration_time(e, Later(ts, d)) : d \in Durations}

(* expire_after_read_or_update: the time is set only if the Expiry answers *)
(* something else than what remains.                                       *)
Remaining(e, ts) ==
    LET times == {t \in {e.exp, IF time_to_live = None THEN None ELSE e.last_modified + time_to_live,
                         IF time_to_idle = None THEN None ELSE e.last_accessed + time_to_idle} :
                    t # None}
        first == CHOOSE t \in times : \A u \in times : t <= u
    IN IF times = {} THEN None ELSE IF first < ts THEN 0 ELSE first - ts

expire_after_read_or_update(e, ts) ==
    {IF d = Remaining(e, ts) THEN e ELSE set_expiration_time(e, Later(ts, d)) :
       d \in Durations \cup {Remaining(e, ts)}}
-----------------------------------------------------------------------------
(* insert *)

Goto(t, pc) == thr' = [thr EXCEPT ![t].pc = pc]
Return(t) == thr' = [thr EXCEPT ![t] = IdleThread]
Unlock(k, who) == [lock EXCEPT ![k] = IF @ = who THEN None ELSE @]
Set(i, e) == info' = [info EXCEPT ![i] = e]

MayCall(t, call) == call \in Calls /\ thr[t].pc = "idle" /\ ops[t] > 0 /\ now <= LastCall

Begin(t, call, k, pc) ==
    /\ MayCall(t, call)
    /\ ops' = [ops EXCEPT ![t] = @ - 1]
    /\ thr' = [thr EXCEPT ![t] = [IdleThread EXCEPT !.pc = pc, !.call = call, !.key = k,
                                                     !.now = now]]
    /\ UNCHANGED <<now, valid_after, invalidated, bucket, info, read_op_ch, write_op_ch, maintVars>>

(* The key is locked, if there is a listener, and the time is read.        *)
BeginInsert(t, k) ==
    /\ lock[k] = None
    /\ Begin(t, "insert", k, "write")
    /\ lock' = IF KeyLocks THEN [lock EXCEPT ![k] = t] ELSE lock

(* What follows the write under the lock of the key.                       *)
AfterWrite(t, pc) == IF Expiry THEN pc ELSE "send"
UnlockUnlessExpiry(t) == lock' = IF Expiry THEN lock ELSE Unlock(thr[t].key, t)

on_insert(t) ==
    LET k == thr[t].key IN
    /\ thr[t].pc = "write"
    /\ bucket[k].info = None
    /\ Len(info) < MaxInfos
    /\ info' = Append(info, new_value_entry(k, thr[t].now))
    /\ bucket' = [bucket EXCEPT ![k] = [info |-> Len(info'), ver |-> @.ver + 1, ts |-> thr[t].now]]
    /\ thr' = [thr EXCEPT ![t].seen = bucket'[k], ![t].pc = AfterWrite(t, "create"),
                          ![t].op = [kind |-> "Upsert", info |-> Len(info'), gen |-> 1]]
    /\ UnlockUnlessExpiry(t)
    /\ UNCHANGED <<now, valid_after, invalidated, read_op_ch, write_op_ch, ops, maintVars>>

(* The EntryInfo is shared with the new ValueEntry and changed before the  *)
(* hash table is.                                                          *)
on_modify(t) ==
    LET i == bucket[thr[t].key].info IN
    /\ thr[t].pc = "write"
    /\ i # None
    /\ Set(i, new_value_entry_from(info[i], thr[t].now))
    /\ thr' = [thr EXCEPT ![t].seen = bucket[thr[t].key], ![t].pc = "swap",
                          ![t].op = [kind |-> "Upsert", info |-> i, gen |-> info'[i].entry_gen]]
    /\ UNCHANGED <<now, valid_after, invalidated, bucket, read_op_ch, write_op_ch, lock, ops, maintVars>>

SwapFails(t) ==
    /\ thr[t].pc = "swap"
    /\ bucket[thr[t].key].ver # thr[t].seen.ver
    /\ Goto(t, "write")
    /\ UNCHANGED <<now, valid_after, invalidated, bucket, info, read_op_ch, write_op_ch, lock, ops, maintVars>>

do_insert_with_hash(t) ==
    LET k == thr[t].key IN
    /\ thr[t].pc = "swap"
    /\ bucket[k].ver = thr[t].seen.ver
    /\ bucket' = [bucket EXCEPT ![k].ver = @ + 1, ![k].ts = thr[t].now]
    /\ Goto(t, AfterWrite(t, "update"))
    /\ UnlockUnlessExpiry(t)
    /\ UNCHANGED <<now, valid_after, invalidated, info, read_op_ch, write_op_ch, ops, maintVars>>

do_post_insert_steps(t) ==
    LET i == thr[t].op.info IN
    /\ thr[t].pc = "create"
    /\ \E e \in expire_after_create(info[i], thr[t].now) : Set(i, e)
    /\ Goto(t, "send")
    /\ lock' = Unlock(thr[t].key, t)
    /\ UNCHANGED <<now, valid_after, invalidated, bucket, read_op_ch, write_op_ch, ops, maintVars>>

(* Writing over an entry that has expired creates one.                     *)
do_post_update_steps(t) ==
    LET i == thr[t].op.info IN
    /\ thr[t].pc = "update"
    /\ \E e \in IF is_expired_by_per_entry_ttl(i, thr[t].now)
                  THEN expire_after_create(info[i], thr[t].now)
                  ELSE expire_after_read_or_update(info[i], thr[t].now) : Set(i, e)
    /\ Goto(t, "send")
    /\ lock' = Unlock(thr[t].key, t)
    /\ UNCHANGED <<now, valid_after, invalidated, bucket, read_op_ch, write_op_ch, ops, maintVars>>

schedule_write_op(t) ==
    /\ thr[t].pc = "send"
    /\ write_op_ch' = Append(write_op_ch, thr[t].op)
    /\ Return(t)
    /\ UNCHANGED <<now, valid_after, invalidated, bucket, info, read_op_ch, lock, ops, maintVars>>
-----------------------------------------------------------------------------
(* get, invalidate and invalidate_all *)

BeginGet(t, k) == Begin(t, "get", k, "lookup") /\ UNCHANGED lock

(* History: a writer may have changed the EntryInfo and not yet the hash   *)
(* table.                                                                  *)
Updating(k) == \E u \in Threads : thr[u].pc \in {"write", "swap"} /\ thr[u].key = k

(* An entry that is there and passes the test is found.                    *)
Lookup(t, call, at, expired, pc) ==
    LET b == bucket[thr[t].key] IN
    /\ thr[t].pc = "lookup" /\ thr[t].call = call
    /\ IF b.info = None \/ (b.info # None /\ expired)
       THEN Return(t)
       ELSE thr' = [thr EXCEPT ![t].seen = b, ![t].updating = Updating(thr[t].key), ![t].now = at,
                               ![t].va = valid_after, ![t].pc = pc]
    /\ UNCHANGED <<now, valid_after, invalidated, bucket, info, read_op_ch, write_op_ch, lock, ops, maintVars>>

do_get_with_hash(t) ==
    Lookup(t, "get", thr[t].now, is_expired(valid_after, bucket[thr[t].key].info, thr[t].now),
           IF Expiry THEN "read" ELSE "touch")

(* contains_key and the iterator read the time when they have the entry.   *)
BeginContains(t, k) == Begin(t, "contains_key", k, "lookup") /\ UNCHANGED lock
BeginScan(t, k) == Begin(t, "iter", k, "lookup") /\ UNCHANGED lock

contains_key_with_hash(t) ==
    Lookup(t, "contains_key", now, is_expired(valid_after, bucket[thr[t].key].info, now), "answer")

scanning_get(t) ==
    Lookup(t, "iter", now, is_expired(valid_after, bucket[thr[t].key].info, now), "answer")

Answer(t) ==
    /\ thr[t].pc = "answer"
    /\ Return(t)
    /\ UNCHANGED <<now, valid_after, invalidated, bucket, info, read_op_ch, write_op_ch, lock, ops, maintVars>>

Larger(x, y) == IF x < y THEN y ELSE x

GetExpiry(t) ==
    LET i == thr[t].seen.info
        ts == Larger(thr[t].now, info[i].last_modified)
    IN
    /\ thr[t].pc = "read"
    /\ \E e \in expire_after_read_or_update(info[i], ts) :
         /\ Set(i, e)
         /\ thr' = [thr EXCEPT ![t].now = ts, ![t].modified = (e # info[i]), ![t].pc = "touch"]
    /\ UNCHANGED <<now, valid_after, invalidated, bucket, read_op_ch, write_op_ch, lock, ops, maintVars>>

(* The access time is stored.  The ReadOp is dropped if the channel is     *)
(* full.                                                                   *)
record_read_op(t) ==
    LET i == thr[t].seen.info IN
    /\ thr[t].pc = "touch"
    /\ Set(i, [info[i] EXCEPT !.last_accessed = thr[t].now])
    /\ read_op_ch' = IF Len(read_op_ch) < ReadChSize
                       THEN Append(read_op_ch, [info |-> i, modified |-> thr[t].modified])
                       ELSE read_op_ch
    /\ Return(t)
    /\ UNCHANGED <<now, valid_after, invalidated, bucket, write_op_ch, lock, ops, maintVars>>

BeginInvalidate(t, k) == Begin(t, "invalidate", k, "remove") /\ UNCHANGED lock

invalidate_with_hash(t) ==
    LET k == thr[t].key
        i == bucket[k].info
    IN
    /\ thr[t].pc = "remove"
    /\ i # None => lock[k] = None
    /\ IF i = None
       THEN Return(t) /\ UNCHANGED <<bucket, info>>
       ELSE /\ bucket' = [bucket EXCEPT ![k] = [Absent EXCEPT !.ver = bucket[k].ver + 1]]
            /\ Set(i, [info[i] EXCEPT !.retired = TRUE, !.entry_gen = @ + 1])
            /\ thr' = [thr EXCEPT ![t].pc = "send", ![t].op =
                         [kind |-> "Remove", info |-> i, gen |-> info[i].entry_gen + 1]]
    /\ UNCHANGED <<now, valid_after, invalidated, read_op_ch, write_op_ch, lock, ops, maintVars>>

(* invalidate_all reads the time, and stores it.                           *)
BeginInvalidateAll(t) == Begin(t, "invalidate_all", None, "invalidate_all") /\ UNCHANGED lock

set_valid_after(t) ==
    /\ thr[t].pc = "invalidate_all"
    /\ valid_after' = thr[t].now
    /\ invalidated' = Larger(invalidated, thr[t].now)
    /\ Return(t)
    /\ UNCHANGED <<now, bucket, info, read_op_ch, write_op_ch, lock, ops, maintVars>>
-----------------------------------------------------------------------------
(* Maintenance: the logs *)

userVars == <<now, valid_after, invalidated, thr, ops>>

Without(seq, i) == SelectSeq(seq, LAMBDA j : j # i)
In(seq, i) == \E p \in 1..Len(seq) : seq[p] = i

move_to_back(d, i) == IF In(d, i) THEN Append(Without(d, i), i) ELSE d
move_front_to_back(d) == Append(Tail(d), Head(d))

(* set_policy_gen never goes back.                                         *)
set_policy_gen(e, gen) == [e EXCEPT !.policy_gen = Larger(@, gen)]

Timer(i, gen, at) == [info |-> i, gen |-> gen, at |-> at]
TimersOf(i) == {n \in wheel : n.info = i /\ n.gen = info[i].timer_node}

(* update_timer_wheel: reschedules or deschedules the timer the entry has; *)
(* a new one is scheduled in a step of its own, as it reads the expiration *)
(* time again.                                                             *)
NeedsTimer(i) == info[i].exp # None /\ info[i].timer_node = None

update_timer_wheel(i, e) ==
    CASE info[i].timer_node = None -> wheel' = wheel /\ Set(i, e)
      [] info[i].timer_node # None /\ info[i].exp # None ->
           /\ wheel' = (wheel \ TimersOf(i)) \cup
                         {Timer(i, info[i].timer_node, info[i].exp) : n \in TimersOf(i)}
           /\ Set(i, e)
      [] OTHER ->
           /\ wheel' = wheel \ TimersOf(i)
           /\ Set(i, [e EXCEPT !.timer_node = None])

MaintStart ==
    /\ mpc = "idle"
    /\ mpc' = "reads"
    /\ m' = [IdleMaint EXCEPT !.reads = Len(read_op_ch)]
    /\ UNCHANGED <<userVars, bucket, info, read_op_ch, write_op_ch, lock, deq, wheel, removed>>

(* A ReadOp of a retired entry is skipped.                                 *)
apply_reads ==
    LET op == Head(read_op_ch)
        i == op.info
    IN
    /\ mpc = "reads"
    /\ m.reads > 0
    /\ read_op_ch' = Tail(read_op_ch)
    /\ IF info[i].retired
       THEN /\ m' = [m EXCEPT !.reads = @ - 1]
            /\ UNCHANGED <<mpc, deq, wheel, info>>
       ELSE /\ deq' = [deq EXCEPT !["ao"] = move_to_back(@, i)]
            /\ IF op.modified THEN update_timer_wheel(i, info[i]) ELSE UNCHANGED <<wheel, info>>
            /\ IF op.modified /\ NeedsTimer(i)
               THEN /\ mpc' = "schedule"
                    /\ m' = [m EXCEPT !.reads = @ - 1, !.info = i, !.gen = info[i].expiry_gen,
                                      !.back = "reads"]
               ELSE m' = [m EXCEPT !.reads = @ - 1] /\ UNCHANGED mpc
    /\ UNCHANGED <<userVars, bucket, write_op_ch, lock, removed>>

ReadsDone ==
    /\ mpc = "reads"
    /\ m.reads = 0
    /\ mpc' = "writes"
    /\ m' = [m EXCEPT !.count = Len(write_op_ch)]
    /\ UNCHANGED <<userVars, bucket, info, read_op_ch, write_op_ch, lock, deq, wheel, removed>>

NextWrite(kind) ==
    /\ mpc = "writes"
    /\ m.count > 0
    /\ Head(write_op_ch).kind = kind
    /\ write_op_ch' = Tail(write_op_ch)

(* schedule: only if nobody has changed the expiration time since.         *)
schedule ==
    LET i == m.info
        e == info[i]
        ok == e.expiry_gen = m.gen /\ e.exp # None
    IN
    /\ mpc = "schedule"
    /\ mpc' = m.back
    /\ m' = Forget(m)
    /\ wheel' = IF ok THEN wheel \cup {Timer(i, m.gen, e.exp)} ELSE wheel
    /\ Set(i, [e EXCEPT !.timer_node = IF ok THEN m.gen ELSE None])
    /\ UNCHANGED <<userVars, bucket, read_op_ch, write_op_ch, lock, deq, removed>>

(* handle_upsert: an entry that is retired is not admitted.                *)
handle_upsert ==
    LET op == Head(write_op_ch)
        i == op.info
        e == set_policy_gen(info[i], op.gen)
        d == [deq EXCEPT !["ao"] = Append(Without(@, i), i),
                         !["wo"] = IF is_write_order_queue_enabled
                                     THEN Append(Without(@, i), i) ELSE @]
    IN
    /\ NextWrite("Upsert")
    /\ IF info[i].retired
       THEN /\ Set(i, e)
            /\ m' = [m EXCEPT !.count = @ - 1]
            /\ UNCHANGED <<mpc, deq, wheel>>
       ELSE /\ deq' = d
            /\ update_timer_wheel(i, [e EXCEPT !.admitted = TRUE])
            /\ IF NeedsTimer(i)
               THEN /\ mpc' = "schedule"
                    /\ m' = [m EXCEPT !.count = @ - 1, !.info = i, !.gen = info[i].expiry_gen,
                                      !.back = "writes"]
               ELSE m' = [m EXCEPT !.count = @ - 1] /\ UNCHANGED mpc
    /\ UNCHANGED <<userVars, bucket, read_op_ch, lock, removed>>

(* The entry leaves the deques and, if told so, loses its timer.           *)
Unlinked(i) == [d \in DOMAIN deq |-> Without(deq[d], i)]
Unadmitted(e) == [e EXCEPT !.admitted = FALSE, !.timer_node = None]

handle_remove ==
    LET op == Head(write_op_ch)
        i == op.info
    IN
    /\ NextWrite("Remove")
    /\ deq' = Unlinked(i)
    /\ wheel' = wheel \ TimersOf(i)
    /\ Set(i, set_policy_gen(Unadmitted(info[i]), op.gen))
    /\ m' = [m EXCEPT !.count = @ - 1]
    /\ UNCHANGED <<userVars, bucket, read_op_ch, lock, mpc, removed>>

Due(at) == {n \in wheel : n.at <= at}

(* advance visits the timers that are due, and perhaps others that share   *)
(* their buckets.                                                          *)
WritesDone ==
    /\ mpc = "writes"
    /\ m.count = 0
    /\ mpc' = "timers"
    /\ \E due \in {Due(now), wheel} : m' = [m EXCEPT !.now = now, !.due = due]
    /\ UNCHANGED <<userVars, bucket, info, read_op_ch, write_op_ch, lock, deq, wheel, removed>>
-----------------------------------------------------------------------------
(* Maintenance: expired entries *)

NoLogs == UNCHANGED <<userVars, read_op_ch, write_op_ch>>

(* A timer is visited: it is dropped if the entry no longer expires, set   *)
(* again if it expires later, and fires otherwise.  An entry that was      *)
(* updated is left to its WriteOp.                                         *)
advance ==
    /\ mpc = "timers"
    /\ \E n \in m.due :
        LET i == n.info
            unset == [info[i] EXCEPT !.timer_node = None]
        IN
        /\ \/ /\ info[i].exp = None
              /\ Set(i, unset)
              /\ wheel' = wheel \ {n}
              /\ m' = [m EXCEPT !.due = @ \ {n}]
              /\ UNCHANGED mpc
           \/ /\ info[i].exp # None /\ info[i].exp > m.now
              /\ wheel' = (wheel \ {n}) \cup {[n EXCEPT !.at = info[i].exp]}
              /\ m' = [m EXCEPT !.due = @ \ {n}]
              /\ UNCHANGED <<mpc, info>>
           \/ /\ is_expired_by_per_entry_ttl(i, m.now)
              /\ Set(i, unset)
              /\ wheel' = wheel \ {n}
              /\ m' = [m EXCEPT !.due = @ \ {n}, !.info = i]
              /\ mpc' = "fired"
    /\ UNCHANGED <<bucket, lock, deq, removed>>
    /\ NoLogs

(* evict_expired_entries_using_timers: "Skip this entry as it has been     *)
(* updated or invalidated by other thread", or look at the key.            *)
TimerFired ==
    /\ mpc = "fired"
    /\ IF is_dirty(m.info)
       THEN mpc' = "timers" /\ m' = Forget(m)
       ELSE mpc' = "check" /\ m' = [m EXCEPT !.key = info[m.info].key, !.back = "timers"]
    /\ UNCHANGED <<bucket, info, lock, deq, wheel, removed>>
    /\ NoLogs

(* evict_expired_entries_using_deqs reads the time, and for each deque     *)
(* valid_after.                                                            *)
TimersDone ==
    /\ mpc = "timers"
    /\ m.due = {}
    /\ mpc' = "wo"
    /\ m' = [m EXCEPT !.now = now, !.va = valid_after,
                      !.count = IF is_write_order_queue_enabled THEN BatchSize ELSE 0]
    /\ UNCHANGED <<bucket, info, lock, deq, wheel, removed>>
    /\ NoLogs

WriteOrderDone ==
    /\ mpc = "wo"
    /\ m.count = 0
    /\ mpc' = "ao"
    /\ m' = [m EXCEPT !.va = valid_after,
                      !.count = IF time_to_idle # None \/ valid_after # None THEN BatchSize ELSE 0]
    /\ UNCHANGED <<bucket, info, lock, deq, wheel, removed>>
    /\ NoLogs

MaintDone ==
    /\ mpc = "ao"
    /\ m.count = 0
    /\ mpc' = "idle"
    /\ m' = IdleMaint
    /\ removed' = None
    /\ UNCHANGED <<bucket, info, lock, deq, wheel>>
    /\ NoLogs

(* Moving the entry of the key out of the way: the key's current entry, or *)
(* the front node if the key is gone.                                      *)
skip_updated_entry_wo(k) ==
    LET i == bucket[k].info IN
    IF i # None THEN [deq EXCEPT !["ao"] = move_to_back(@, i), !["wo"] = move_to_back(@, i)]
                ELSE [deq EXCEPT !["wo"] = move_front_to_back(@)]

skip_updated_entry_ao(k) ==
    LET i == bucket[k].info IN
    IF i # None THEN [deq EXCEPT !["ao"] = move_to_back(@, i),
                                 !["wo"] = IF is_dirty(i) THEN move_to_back(@, i) ELSE @]
                ELSE [deq EXCEPT !["ao"] = move_front_to_back(@)]

Skip(d, k) == IF d = "wo" THEN skip_updated_entry_wo(k) ELSE skip_updated_entry_ao(k)

(* One turn of remove_expired_wo, or remove_expired_ao, on the entry at    *)
(* the front: the deque is left if it is empty or the entry has not        *)
(* expired; a dirty entry is skipped; an expired one is looked up.         *)
PeekFront(d, expired(_, _, _), skip(_)) ==
    LET i == Head(deq[d]) IN
    /\ mpc = d
    /\ m.count > 0
    /\ \/ /\ deq[d] = <<>>
          /\ m' = [m EXCEPT !.count = 0]
          /\ UNCHANGED <<mpc, deq>>
       \/ /\ deq[d] # <<>>
          /\ ~is_dirty(i) /\ ~expired(m.va, i, m.now)
          /\ m' = [m EXCEPT !.count = 0]
          /\ UNCHANGED <<mpc, deq>>
       \/ /\ deq[d] # <<>>
          /\ is_dirty(i)
          /\ deq' = skip(info[i].key)
          /\ m' = [m EXCEPT !.count = @ - 1]
          /\ UNCHANGED mpc
       \/ /\ deq[d] # <<>>
          /\ ~is_dirty(i) /\ expired(m.va, i, m.now)
          /\ mpc' = "check"
          /\ m' = [m EXCEPT !.count = @ - 1, !.key = info[i].key, !.info = i, !.back = d]
          /\ UNCHANGED deq
    /\ UNCHANGED <<bucket, info, lock, wheel, removed>>
    /\ NoLogs

remove_expired_wo == PeekFront("wo", is_expired_entry_wo, skip_updated_entry_wo)
remove_expired_ao == PeekFront("ao", is_expired_entry_ao, skip_updated_entry_ao)

(* The condition of cht_remove_if_and_retire, on the key's current entry.  *)
ReallyExpired(i) ==
    CASE m.back = "timers" -> is_expired_by_per_entry_ttl(i, m.now)
      [] m.back = "wo" -> is_expired_entry_wo(m.va, i, m.now)
      [] m.back = "ao" -> is_expired_entry_ao(m.va, i, m.now)

(* The key is locked, if there is a listener, and the condition evaluated. *)
(* If it is false the entry is skipped.                                    *)
CheckExpired ==
    LET b == bucket[m.key] IN
    /\ mpc = "check"
    /\ lock[m.key] \in {None, "maint"}
    /\ IF b.info # None /\ (b.info # None => ReallyExpired(b.info))
       THEN /\ m' = [m EXCEPT !.ver = b.ver]
            /\ mpc' = "remove"
            /\ lock' = IF KeyLocks THEN [lock EXCEPT ![m.key] = "maint"] ELSE lock
            /\ UNCHANGED deq
       ELSE /\ mpc' = m.back
            /\ lock' = Unlock(m.key, "maint")
            /\ deq' = IF m.back = "timers" THEN deq ELSE Skip(m.back, m.key)
            /\ m' = Forget(m)
    /\ UNCHANGED <<bucket, info, wheel, removed>>
    /\ NoLogs

(* The entry is gone when the hash table was not changed meanwhile; it is  *)
(* retired, notified and unlinked.  A timer that fired is not in the wheel *)
(* any more (handle_remove_without_timer_wheel).                           *)
cht_remove_if_and_retire ==
    LET b == bucket[m.key]
        i == b.info
    IN
    /\ mpc = "remove"
    /\ IF b.ver = m.ver
       THEN /\ bucket' = [bucket EXCEPT ![m.key] = [Absent EXCEPT !.ver = b.ver + 1]]
            /\ Set(i, IF m.back = "timers" THEN [info[i] EXCEPT !.retired = TRUE, !.admitted = FALSE]
                                           ELSE [Unadmitted(info[i]) EXCEPT !.retired = TRUE])
            /\ deq' = Unlinked(i)
            /\ wheel' = IF m.back = "timers" THEN wheel ELSE wheel \ TimersOf(i)
            /\ lock' = Unlock(m.key, "maint")
            /\ removed' = [by |-> m.back, ts |-> b.ts, now |-> m.now, va |-> m.va,
                            early |-> \E t \in Threads : /\ thr[t].pc \in {"create", "update"}
                                                         /\ thr[t].op.info = i]
            /\ mpc' = m.back
            /\ m' = Forget(m)
       ELSE mpc' = "check" /\ UNCHANGED <<bucket, info, deq, wheel, lock, m, removed>>
    /\ NoLogs
-----------------------------------------------------------------------------
Tick ==
    /\ now < MaxTime
    /\ now' = now + 1
    /\ UNCHANGED <<valid_after, invalidated, bucket, info, read_op_ch, write_op_ch, lock, thr, ops,
                   maintVars>>

Call(t) ==
    \/ \E k \in Keys : BeginInsert(t, k) \/ BeginGet(t, k) \/ BeginInvalidate(t, k)
                     \/ BeginContains(t, k) \/ BeginScan(t, k)
    \/ BeginInvalidateAll(t)

Step(t) ==
    \/ on_insert(t) \/ on_modify(t) \/ SwapFails(t) \/ do_insert_with_hash(t)
    \/ do_post_insert_steps(t) \/ do_post_update_steps(t) \/ schedule_write_op(t)
    \/ do_get_with_hash(t) \/ GetExpiry(t) \/ record_read_op(t)
    \/ contains_key_with_hash(t) \/ scanning_get(t) \/ Answer(t)
    \/ invalidate_with_hash(t) \/ set_valid_after(t)

do_run_pending_tasks ==
    \/ MaintStart \/ apply_reads \/ ReadsDone \/ schedule
    \/ handle_upsert \/ handle_remove \/ WritesDone
    \/ advance \/ TimerFired \/ TimersDone
    \/ remove_expired_wo \/ WriteOrderDone \/ remove_expired_ao \/ MaintDone
    \/ CheckExpired \/ cht_remove_if_and_retire

Next == Tick \/ do_run_pending_tasks \/ \E t \in Threads : Call(t) \/ Step(t)

Spec == Init /\ [][Next]_vars

(* Time passes, calls return and maintenance keeps being run.              *)
FairSpec ==
    Spec /\ WF_vars(Tick) /\ WF_vars(do_run_pending_tasks) /\ \A t \in Threads : WF_vars(Step(t))
-----------------------------------------------------------------------------
(* The thread has just found an entry.                                     *)
Found(t) ==
    \/ thr[t].call = "get" /\ thr[t].pc = IF Expiry THEN "read" ELSE "touch"
    \/ thr[t].pc = "answer"

Lapsed(t) == is_expired_by_ttl(thr[t].seen.ts, thr[t].now) \/ is_invalid_entry(thr[t].va, thr[t].seen.ts)

(* get, contains_key and an iterator find no value that was written longer *)
(* than time_to_live ago or before the last invalidate_all, unless the key *)
(* was being written at that moment.                                       *)
NoExpiredHit == \A t \in Threads : Found(t) => thr[t].updating \/ ~Lapsed(t)

(* get returns no expired value, whatever other threads do: "A cached      *)
(* entry will be expired after the specified duration past from insert".   *)
GetIsFresh == \A t \in Threads : Found(t) => ~Lapsed(t)

(* What was written before a completed invalidate_all is never returned    *)
(* again: "guaranteed not to return the entries inserted before or at the  *)
(* invalidation time".                                                     *)
NoInvalidatedHit ==
    \A t \in Threads : Found(t) /\ ~thr[t].updating => thr[t].seen.ts >= invalidated

(* Nor what was written at that time.                                      *)
NoHitAtInvalidation ==
    \A t \in Threads : Found(t) /\ ~thr[t].updating => thr[t].seen.ts > invalidated

(* Maintenance removes a value as expired only when it is "really expired" *)
(* by the time it was written, and not before its own expiration time was  *)
(* computed.                                                               *)
RemovedWereExpired ==
    removed # None =>
        CASE removed.by = "wo" -> \/ is_expired_by_ttl(removed.ts, removed.now)
                                  \/ is_invalid_entry(removed.va, removed.ts)
          [] removed.by = "timers" -> ~removed.early
          [] OTHER -> TRUE

(* An entry is removed as idle only when time_to_idle has passed since it  *)
(* was written, or when it was written before the invalidate_all.          *)
RemovedWereIdle ==
    removed # None /\ removed.by = "ao" =>
        \/ is_expired_by_tti(removed.ts, removed.now)
        \/ is_invalid_entry(removed.va, removed.ts)

(* An entry and its timer know each other: the pointer an entry has to its *)
(* timer is that of a timer in the wheel, and each timer there is known to *)
(* its entry.                                                              *)
TimerNodesMatch ==
    /\ \A i \in 1..Len(info) : info[i].timer_node # None => TimersOf(i) # {}
    /\ \A n \in wheel : info[n.info].timer_node = n.gen

(* When all operations have been applied, each entry that has an           *)
(* expiration time has a timer, or nothing would ever remove it.           *)
QuietTimers ==
    /\ \A t \in Threads : thr[t].pc = "idle"
    /\ read_op_ch = <<>> /\ write_op_ch = <<>> /\ mpc = "idle"
    => \A k \in Keys : bucket[k].info # None => ~NeedsTimer(bucket[k].info)

NoneExpired ==
    \A k \in Keys : bucket[k].info = None \/ ~is_expired(valid_after, bucket[k].info, now)

(* What has expired is removed, while maintenance is run now and then.     *)
ExpiredAreRemoved == <>[]NoneExpired
=============================================================================

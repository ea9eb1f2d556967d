----------------------------- MODULE BaseCache -----------------------------
(***************************************************************************)
(* The core of moka's concurrent cache (sync::base_cache with the parts of *)
(* sync::cache, cht::map and common::concurrent it calls).                 *)
(*                                                                         *)
(* The concurrent hash table (CHT) is the source of truth and is changed   *)
(* by user threads with compare-and-swap.  Everything the policies need,   *)
(* the LRU deque, the admission flags and the counters, is a mirror of it  *)
(* that only the maintenance task changes, from the WriteOps and ReadOps   *)
(* user threads put in two bounded channels.  The module models a cache    *)
(* bounded by max_capacity, with or without a weigher and an eviction      *)
(* listener, and without expiration and invalidation predicates.           *)
(*                                                                         *)
(* An EntryInfo is identified by its key and an allocation number: it is   *)
(* shared by all the ValueEntries a key has between an insertion and a     *)
(* removal.  A ValueEntry pointer in a CHT bucket is identified by the     *)
(* version of the bucket, which every successful CAS changes.              *)
(***************************************************************************)
EXTENDS Integers, Sequences, FiniteSets

CONSTANTS
    Keys,                   \* the keys
    Threads,                \* user threads calling insert, invalidate and get
    None,                   \* no EntryInfo, no key, no thread (Option::None)
    Weights,                \* the weights the weigher may return
    Freqs,                  \* the popularities the frequency sketch may estimate
    MaxCapacity,            \* max_capacity, Some(n) with n > 0
    Policy,                 \* EvictionPolicyConfig, "TinyLfu" or "Lru"
    KeyLocks,               \* an eviction listener is set: keys are locked
    WriteChSize,            \* WRITE_LOG_CH_SIZE
    ReadChSize,             \* READ_LOG_CH_SIZE
    FlushPoint,             \* {READ,WRITE}_LOG_FLUSH_POINT
    MaxLogSyncRepeats,      \* max_log_sync_repeats
    BatchSize,              \* eviction_batch_size
    MaxConsecutiveRetries,  \* MAX_CONSECUTIVE_RETRIES of admit
    GenMod,                 \* 2^16, the number of u16 generations
    Calls,                  \* bound: the methods the threads call
    MaxAllocs,              \* bound: EntryInfos allocated per key
    MaxOps,                 \* bound: operations started by the threads
    MaxRetries,             \* bound: CAS retries of an insertion with no conflict
    MaxTime                 \* bound: ticks of the clock

Infos == Keys \X (1..MaxAllocs)

ASSUME KeysAssumption == IsFiniteSet(Keys) /\ None \notin Keys
ASSUME ThreadsAssumption == None \notin Threads
ASSUME InfosAssumption == None \notin Infos
ASSUME WeightsAssumption == Weights \subseteq Nat /\ Freqs \subseteq Nat
ASSUME CapacityAssumption == MaxCapacity \in Nat \ {0}
ASSUME ConfigAssumption ==
    /\ Policy \in {"TinyLfu", "Lru"}
    /\ KeyLocks \in BOOLEAN
    /\ WriteChSize \in Nat \ {0}
    /\ ReadChSize \in Nat \ {0}
    /\ FlushPoint \in Nat
    /\ MaxLogSyncRepeats \in Nat
    /\ BatchSize \in Nat \ {0}
    /\ MaxConsecutiveRetries \in Nat
ASSUME BoundsAssumption ==
    /\ GenMod \in Nat \ {0, 1}
    /\ MaxAllocs \in Nat
    /\ MaxOps \in Nat
    /\ MaxRetries \in Nat
    /\ MaxTime \in Nat

VARIABLES
    bucket,         \* CHT: key -> [info, ver]; info = None for a tombstone
    lock,           \* key_locks: key -> the thread holding it, or None
    entry_gen,      \* EntryInfo::entry_gen
    policy_gen,     \* EntryInfo::policy_gen
    policy_weight,  \* EntryInfo::policy_weight
    last_accessed,  \* EntryInfo::last_accessed
    admitted,       \* the EntryInfos with is_admitted
    retired,        \* the EntryInfos with is_retired
    allocs,         \* key -> number of EntryInfos allocated for it
    read_op_ch,     \* the queued ReadOps: the EntryInfo of a Hit, None for a Miss
    write_op_ch,    \* the queued WriteOps
    probation,      \* the access-order deque: EntryInfos, LRU first
    counters,       \* EvictionCounters of the maintenance task
    published,      \* entry_count and weighted_size, the atomics users read
    thr,            \* thread -> its program counter and locals
    ops,            \* operations that may still start
    now,            \* the clock
    mpc,            \* program counter of the maintenance task
    m               \* locals of the maintenance task

storeVars == <<bucket, lock>>
infoVars == <<entry_gen, policy_gen, policy_weight, last_accessed, allocs>>
flagVars == <<admitted, retired>>
chVars == <<read_op_ch, write_op_ch>>
policyVars == <<probation, counters, published>>
userVars == <<thr, ops, now>>
maintVars == <<mpc, m>>
vars == <<storeVars, infoVars, flagVars, chVars, policyVars, userVars, maintVars>>

-----------------------------------------------------------------------------
(* Data *)

KeyOf(i) == i[1]

Gens == 0..(GenMod - 1)

WriteOp(kind, i, gen, old, new) ==
    [kind |-> kind, info |-> i, gen |-> gen, old |-> old, new |-> new]

NoOp == WriteOp("None", None, 0, 0, 0)

Buckets == [info : Infos \cup {None}, ver : Nat]

NoBucket == [info |-> None, ver |-> 0]

IdleThread ==
    [pc |-> "idle", key |-> None, weight |-> 0, ts |-> 0, seen |-> NoBucket,
     own |-> None, op |-> NoOp, retries |-> 0]

NoScan == [weight |-> 0, freq |-> 0, cand |-> 0, retries |-> 0, next |-> None]

NoEvict == [target |-> 0, evicted |-> 0, left |-> 0, more |-> FALSE,
            progress |-> FALSE, key |-> None, ts |-> 0]

IdleMaint ==
    [left |-> 0, calls |-> 0, work |-> NoOp, scan |-> NoScan, victims |-> <<>>,
     evict |-> NoEvict, seen |-> NoBucket, removed |-> None]

(* EntryInfo::is_dirty *)
is_dirty(i) == entry_gen[i] # policy_gen[i]

(* Faulty variant: the retired flag is not looked at. *)
is_alive_unchecked(i) == TRUE

is_alive(i) == i \notin retired

(* EntryInfo::incr_entry_gen: fetch_add on an AtomicU16 wraps around. *)
incr_entry_gen(i) == [entry_gen EXCEPT ![i] = (@ + 1) % GenMod]

(* Faulty variant: a late WriteOp takes policy_gen back. *)
set_policy_gen_any(i, gen) == [policy_gen EXCEPT ![i] = gen]

(* EntryInfo::set_policy_gen, whose loop ends without a store when the      *)
(* current value is not behind the new one.                                *)
set_policy_gen(i, gen) ==
    LET current == policy_gen[i] IN
    IF current >= gen \/ (gen - current) % GenMod > (GenMod - 1) \div 2
      THEN policy_gen
      ELSE [policy_gen EXCEPT ![i] = gen]

(* Deque: position of a node, unlink, move_to_back, next node. *)
InDeque(q, i) == \E p \in 1..Len(q) : q[p] = i

Position(q, i) == CHOOSE p \in 1..Len(q) : q[p] = i

unlink(q, i) ==
    IF ~InDeque(q, i) THEN q
    ELSE [p \in 1..(Len(q) - 1) |-> IF p < Position(q, i) THEN q[p] ELSE q[p + 1]]

(* Faulty variant: the node is linked at the back and not unlinked. *)
move_to_back_linked_twice(q, i) == IF InDeque(q, i) THEN Append(q, i) ELSE q

move_to_back(q, i) == IF InDeque(q, i) THEN Append(unlink(q, i), i) ELSE q

move_front_to_back(q) == IF q = <<>> THEN q ELSE Append(Tail(q), Head(q))

next_node(q, i) ==
    IF InDeque(q, i) /\ Position(q, i) < Len(q) THEN q[Position(q, i) + 1] ELSE None

(* u64::saturating_sub *)
saturating_sub(a, b) == IF a > b THEN a - b ELSE 0

(* Faulty variant: the key lock is not waited for. *)
unlocked_always(k) == TRUE

(* Maintenance locks a key from the check of the condition of a removal to  *)
(* the end of the removal.                                                 *)
MaintHolds(k) == \E i \in {m.seen.info, m.removed} \ {None} : KeyOf(i) = k

Unlocked(k) == KeyLocks => lock[k] = None /\ ~MaintHolds(k)

Release(k, t) == IF lock[k] = t THEN [lock EXCEPT ![k] = None] ELSE lock

-----------------------------------------------------------------------------
Init ==
    /\ bucket = [k \in Keys |-> NoBucket]
    /\ lock = [k \in Keys |-> None]
    /\ entry_gen = [i \in Infos |-> 1]
    /\ policy_gen = [i \in Infos |-> 0]
    /\ policy_weight = [i \in Infos |-> 0]
    /\ last_accessed = [i \in Infos |-> 0]
    /\ admitted = {}
    /\ retired = {}
    /\ allocs = [k \in Keys |-> 0]
    /\ read_op_ch = <<>>
    /\ write_op_ch = <<>>
    /\ probation = <<>>
    /\ counters = [entry_count |-> 0, weighted_size |-> 0]
    /\ published = [entry_count |-> 0, weighted_size |-> 0]
    /\ thr = [t \in Threads |-> IdleThread]
    /\ ops = MaxOps
    /\ now = 0
    /\ mpc = "idle"
    /\ m = IdleMaint

Tick ==
    /\ now < MaxTime
    /\ now' = now + 1
    /\ UNCHANGED <<storeVars, infoVars, flagVars, chVars, policyVars, thr, ops, maintVars>>

-----------------------------------------------------------------------------
(* User threads: Cache::insert *)

(* do_insert_with_hash up to the CHT call: weigh, lock the key, read the    *)
(* clock.                                                                  *)
InsertStart(t, k, w) ==
    /\ "insert" \in Calls
    /\ thr[t].pc = "idle"
    /\ ops > 0
    /\ Unlocked(k)
    /\ lock' = IF KeyLocks THEN [lock EXCEPT ![k] = t] ELSE lock
    /\ thr' = [thr EXCEPT ![t] = [IdleThread EXCEPT !.pc = "load", !.key = k,
                                                    !.weight = w, !.ts = now]]
    /\ ops' = ops - 1
    /\ UNCHANGED <<bucket, infoVars, flagVars, chVars, policyVars, now, maintVars>>

(* insert_or_modify loads the bucket of the key and finds an entry: the     *)
(* next step calls on_modify.                                              *)
InsertFound(t) ==
    LET b == bucket[thr[t].key] IN
    /\ thr[t].pc = "load"
    /\ b.info # None
    /\ thr' = [thr EXCEPT ![t].pc = "modify", ![t].seen = b]
    /\ UNCHANGED <<storeVars, infoVars, flagVars, chVars, policyVars, ops, now, maintVars>>

(* The bucket holds no entry and on_insert, an FnOnce, has not run yet: it  *)
(* creates a ValueEntry with a new EntryInfo and the WriteOp for it.       *)
OnInsert(t) ==
    LET k == thr[t].key
        i == <<k, allocs[k] + 1>>
    IN
    /\ thr[t].pc = "load"
    /\ bucket[k].info = None
    /\ thr[t].own = None
    /\ allocs[k] < MaxAllocs
    /\ allocs' = [allocs EXCEPT ![k] = @ + 1]
    /\ policy_weight' = [policy_weight EXCEPT ![i] = thr[t].weight]
    /\ last_accessed' = [last_accessed EXCEPT ![i] = thr[t].ts]
    /\ thr' = [thr EXCEPT ![t].pc = "cas", ![t].seen = bucket[k], ![t].own = i,
                          ![t].op = WriteOp("Upsert", i, entry_gen[i], 0, thr[t].weight)]
    /\ UNCHANGED <<storeVars, entry_gen, policy_gen, flagVars, chVars, policyVars,
                   ops, now, maintVars>>

(* The bucket holds no entry and on_insert has run in an earlier attempt:   *)
(* InsertOrModifyState kept the value it made, which is inserted without   *)
(* calling a closure, so the WriteOp stays the one of the last call.       *)
InsertAgain(t) ==
    LET k == thr[t].key IN
    /\ thr[t].pc = "load"
    /\ bucket[k].info = None
    /\ thr[t].own # None
    /\ thr' = [thr EXCEPT ![t].pc = "cas", ![t].seen = bucket[k]]
    /\ UNCHANGED <<storeVars, infoVars, flagVars, chVars, policyVars, ops, now, maintVars>>

(* on_modify: runs before the CAS and changes the shared EntryInfo of the   *)
(* entry that was found.                                                   *)
OnModify(t) ==
    LET i == thr[t].seen.info IN
    /\ thr[t].pc = "modify"
    /\ entry_gen' = incr_entry_gen(i)
    /\ policy_weight' = [policy_weight EXCEPT ![i] = thr[t].weight]
    /\ last_accessed' = [last_accessed EXCEPT ![i] = thr[t].ts]
    /\ thr' = [thr EXCEPT ![t].pc = "cas",
                          ![t].op = WriteOp("Upsert", i, entry_gen'[i],
                                            policy_weight[i], thr[t].weight)]
    /\ UNCHANGED <<storeVars, policy_gen, allocs, flagVars, chVars, policyVars,
                   ops, now, maintVars>>

(* The CAS succeeds: the bucket gets the new ValueEntry.  The WriteOp of    *)
(* the closure called last is returned and the key unlocked.               *)
InsertCas(t) ==
    LET k == thr[t].key
        i == IF thr[t].seen.info = None THEN thr[t].own ELSE thr[t].seen.info
    IN
    /\ thr[t].pc = "cas"
    /\ bucket[k].ver = thr[t].seen.ver
    /\ bucket' = [bucket EXCEPT ![k] = [info |-> i, ver |-> @.ver + 1]]
    /\ lock' = Release(k, t)
    /\ thr' = [thr EXCEPT ![t] = [IdleThread EXCEPT !.pc = "send", !.op = thr[t].op]]
    /\ UNCHANGED <<infoVars, flagVars, chVars, policyVars, ops, now, maintVars>>

(* The CAS fails, because the bucket changed or, for a bounded number of    *)
(* times, because it was moved to a larger table or compare_exchange_weak  *)
(* failed spuriously.                                                      *)
InsertCasFail(t) ==
    LET conflict == bucket[thr[t].key].ver # thr[t].seen.ver IN
    /\ thr[t].pc = "cas"
    /\ conflict \/ thr[t].retries < MaxRetries
    /\ thr' = [thr EXCEPT ![t].pc = "load", ![t].seen = NoBucket,
                          ![t].retries = IF conflict THEN @ ELSE @ + 1]
    /\ UNCHANGED <<storeVars, infoVars, flagVars, chVars, policyVars, ops, now, maintVars>>

(* schedule_write_op: retries until the channel has room. *)
ScheduleWriteOp(t) ==
    /\ thr[t].pc = "send"
    /\ Len(write_op_ch) < WriteChSize
    /\ write_op_ch' = Append(write_op_ch, thr[t].op)
    /\ thr' = [thr EXCEPT ![t] = IdleThread]
    /\ UNCHANGED <<storeVars, infoVars, flagVars, read_op_ch, policyVars, ops, now, maintVars>>

-----------------------------------------------------------------------------
(* User threads: Cache::invalidate and Cache::get *)

(* invalidate_with_hash locks the key only if the key is in the CHT.        *)
RemoveStart(t, k) ==
    /\ "invalidate" \in Calls
    /\ thr[t].pc = "idle"
    /\ ops > 0
    /\ thr' = [thr EXCEPT ![t] =
                 [IdleThread EXCEPT !.key = k,
                    !.pc = IF KeyLocks /\ bucket[k].info # None THEN "lock" ELSE "remove"]]
    /\ ops' = ops - 1
    /\ UNCHANGED <<storeVars, infoVars, flagVars, chVars, policyVars, now, maintVars>>

RemoveLock(t) ==
    /\ thr[t].pc = "lock"
    /\ Unlocked(thr[t].key)
    /\ lock' = [lock EXCEPT ![thr[t].key] = t]
    /\ thr' = [thr EXCEPT ![t].pc = "remove"]
    /\ UNCHANGED <<bucket, infoVars, flagVars, chVars, policyVars, ops, now, maintVars>>

(* remove_entry: the CAS to a tombstone.  A miss ends the call. *)
RemoveCas(t) ==
    LET k == thr[t].key
        i == bucket[k].info
    IN
    /\ thr[t].pc = "remove"
    /\ i # None
    /\ bucket' = [bucket EXCEPT ![k] = [info |-> None, ver |-> @.ver + 1]]
    /\ thr' = [thr EXCEPT ![t].pc = "retire", ![t].seen = bucket[k]]
    /\ UNCHANGED <<lock, infoVars, flagVars, chVars, policyVars, ops, now, maintVars>>

RemoveMiss(t) ==
    LET k == thr[t].key IN
    /\ thr[t].pc = "remove"
    /\ bucket[k].info = None
    /\ lock' = Release(k, t)
    /\ thr' = [thr EXCEPT ![t] = IdleThread]
    /\ UNCHANGED <<bucket, infoVars, flagVars, chVars, policyVars, ops, now, maintVars>>

RemoveRetire_not(t) ==
    /\ thr[t].pc = "retire"
    /\ thr' = [thr EXCEPT ![t].pc = "incr"]
    /\ UNCHANGED <<storeVars, infoVars, flagVars, chVars, policyVars, ops, now, maintVars>>

(* The callback of remove_entry_if_and retires the entry after the CAS.     *)
RemoveRetire(t) ==
    /\ thr[t].pc = "retire"
    /\ retired' = retired \cup {thr[t].seen.info}
    /\ thr' = [thr EXCEPT ![t].pc = "incr"]
    /\ UNCHANGED <<storeVars, infoVars, admitted, chVars, policyVars, ops, now, maintVars>>

(* Then invalidate_with_hash increments the generation, unlocks the key     *)
(* and makes the WriteOp.                                                  *)
RemoveIncr(t) ==
    LET i == thr[t].seen.info IN
    /\ thr[t].pc = "incr"
    /\ entry_gen' = incr_entry_gen(i)
    /\ lock' = Release(thr[t].key, t)
    /\ thr' = [thr EXCEPT ![t] = [IdleThread EXCEPT !.pc = "send",
                                    !.op = WriteOp("Remove", i, entry_gen'[i], 0, 0)]]
    /\ UNCHANGED <<bucket, policy_gen, policy_weight, last_accessed, allocs, flagVars,
                   chVars, policyVars, ops, now, maintVars>>

(* do_get_with_hash looks the key up, having read the clock before: a hit   *)
(* goes on to set last_accessed, a miss is only recorded.                  *)
GetFound(t, k, ts) ==
    /\ "get" \in Calls
    /\ thr[t].pc = "idle"
    /\ ops > 0
    /\ thr' = [thr EXCEPT ![t] =
                 [IdleThread EXCEPT !.key = k, !.ts = ts, !.seen = bucket[k],
                    !.pc = IF bucket[k].info # None THEN "touch" ELSE "record"]]
    /\ ops' = ops - 1
    /\ UNCHANGED <<storeVars, infoVars, flagVars, chVars, policyVars, now, maintVars>>

GetTouch(t) ==
    /\ thr[t].pc = "touch"
    /\ last_accessed' = [last_accessed EXCEPT ![thr[t].seen.info] = thr[t].ts]
    /\ thr' = [thr EXCEPT ![t].pc = "record"]
    /\ UNCHANGED <<storeVars, entry_gen, policy_gen, policy_weight, allocs, flagVars,
                   chVars, policyVars, ops, now, maintVars>>

(* record_read_op drops the ReadOp when the channel is full.                *)
RecordReadOp(t) ==
    /\ thr[t].pc = "record"
    /\ read_op_ch' = IF Len(read_op_ch) < ReadChSize
                       THEN Append(read_op_ch, thr[t].seen.info) ELSE read_op_ch
    /\ thr' = [thr EXCEPT ![t] = IdleThread]
    /\ UNCHANGED <<storeVars, infoVars, flagVars, write_op_ch, policyVars, ops, now,
                   maintVars>>

-----------------------------------------------------------------------------
(* Maintenance: one task at a time holds the run lock and the deques lock.  *)

(* handle_admit, for an entry that is alive. *)
handle_admit(i, weight) ==
    /\ admitted' = admitted \cup {i}
    /\ probation' = Append(probation, i)
    /\ counters' = [entry_count |-> counters.entry_count + 1,
                    weighted_size |-> counters.weighted_size + weight]

(* handle_remove_without_timer_wheel and handle_remove_with_deques *)
handle_remove(i) ==
    /\ admitted' = admitted \ {i}
    /\ probation' = IF i \in admitted THEN unlink(probation, i) ELSE probation
    /\ counters' = IF i \in admitted
                     THEN [entry_count |-> counters.entry_count - 1,
                           weighted_size |-> saturating_sub(counters.weighted_size,
                                                            policy_weight[i])]
                     ELSE counters

(* Faulty variant: the entry is unlinked without being retired. *)
cht_remove_only(k) ==
    /\ bucket' = [bucket EXCEPT ![k] = [info |-> None, ver |-> @.ver + 1]]
    /\ UNCHANGED retired

(* cht_remove_if_and_retire, when the condition holds. *)
cht_remove_and_retire(k) ==
    /\ bucket' = [bucket EXCEPT ![k] = [info |-> None, ver |-> @.ver + 1]]
    /\ retired' = retired \cup {bucket[k].info}

has_enough_capacity(weight) == counters.weighted_size + weight <= MaxCapacity

(* skip_updated_entry_ao *)
skip_updated_entry_ao(k) ==
    IF bucket[k].info # None THEN move_to_back(probation, bucket[k].info)
                             ELSE move_front_to_back(probation)

(* run_pending_tasks takes the locks and reads the counters and r_len. *)
MaintStart ==
    /\ mpc = "idle"
    /\ mpc' = "reads"
    /\ counters' = published
    /\ m' = [IdleMaint EXCEPT !.left = Len(read_op_ch)]
    /\ UNCHANGED <<storeVars, infoVars, flagVars, chVars, probation, published, userVars>>

(* apply_reads: one ReadOp.  Only a Hit of an entry that is alive counts.   *)
ApplyRead ==
    LET i == Head(read_op_ch) IN
    /\ mpc = "reads"
    /\ m.left > 0
    /\ read_op_ch # <<>>
    /\ read_op_ch' = Tail(read_op_ch)
    /\ probation' = IF i # None /\ is_alive(i) THEN move_to_back(probation, i) ELSE probation
    /\ m' = [m EXCEPT !.left = @ - 1]
    /\ UNCHANGED <<storeVars, infoVars, flagVars, write_op_ch, counters, published,
                   userVars, mpc>>

(* Faulty variant: w_len is the length of the wrong channel. *)
ReadsDone_r_len ==
    /\ mpc = "reads"
    /\ m.left = 0 \/ read_op_ch = <<>>
    /\ mpc' = "writes"
    /\ m' = [m EXCEPT !.left = Len(read_op_ch)]
    /\ UNCHANGED <<storeVars, infoVars, flagVars, chVars, policyVars, userVars>>

(* apply_reads is done; w_len is read. *)
ReadsDone ==
    /\ mpc = "reads"
    /\ m.left = 0 \/ read_op_ch = <<>>
    /\ mpc' = "writes"
    /\ m' = [m EXCEPT !.left = Len(write_op_ch)]
    /\ UNCHANGED <<storeVars, infoVars, flagVars, chVars, policyVars, userVars>>

(* apply_writes receives a WriteOp of the kind. *)
Receive(kind) ==
    /\ mpc = "writes"
    /\ m.left > 0
    /\ write_op_ch # <<>>
    /\ Head(write_op_ch).kind = kind
    /\ write_op_ch' = Tail(write_op_ch)

ApplyRemove ==
    LET op == Head(write_op_ch) IN
    /\ Receive("Remove")
    /\ handle_remove(op.info)
    /\ policy_gen' = set_policy_gen(op.info, op.gen)
    /\ m' = [m EXCEPT !.left = @ - 1]
    /\ UNCHANGED <<storeVars, entry_gen, policy_weight, last_accessed, allocs, retired,
                   read_op_ch, published, userVars, mpc>>

(* handle_upsert of an entry retired while the WriteOp was in the channel. *)
UpsertRetired ==
    LET op == Head(write_op_ch) IN
    /\ Receive("Upsert")
    /\ ~is_alive(op.info)
    /\ policy_gen' = set_policy_gen(op.info, op.gen)
    /\ m' = [m EXCEPT !.left = @ - 1]
    /\ UNCHANGED <<storeVars, entry_gen, policy_weight, last_accessed, allocs, flagVars,
                   read_op_ch, policyVars, userVars, mpc>>

(* handle_upsert of an entry already admitted: an update. *)
UpsertAdmitted ==
    LET op == Head(write_op_ch) IN
    /\ Receive("Upsert")
    /\ is_alive(op.info)
    /\ op.info \in admitted
    /\ counters' = [counters EXCEPT !.weighted_size = saturating_sub(@, op.old) + op.new]
    /\ probation' = move_to_back(probation, op.info)
    /\ policy_gen' = set_policy_gen(op.info, op.gen)
    /\ m' = [m EXCEPT !.left = @ - 1]
    /\ UNCHANGED <<storeVars, entry_gen, policy_weight, last_accessed, allocs, flagVars,
                   read_op_ch, published, userVars, mpc>>

(* handle_upsert of a candidate for which there is room, or for which the   *)
(* LRU policy makes room later.                                            *)
UpsertFits ==
    LET op == Head(write_op_ch) IN
    /\ Receive("Upsert")
    /\ is_alive(op.info)
    /\ op.info \notin admitted
    /\ \/ has_enough_capacity(op.new)
       \/ op.new <= MaxCapacity /\ Policy = "Lru"
    /\ handle_admit(op.info, op.new)
    /\ policy_gen' = set_policy_gen(op.info, op.gen)
    /\ m' = [m EXCEPT !.left = @ - 1]
    /\ UNCHANGED <<storeVars, entry_gen, policy_weight, last_accessed, allocs, retired,
                   read_op_ch, published, userVars, mpc>>

(* handle_upsert of a candidate heavier than the cache. *)
UpsertTooBig ==
    LET op == Head(write_op_ch) IN
    /\ Receive("Upsert")
    /\ is_alive(op.info)
    /\ op.info \notin admitted
    /\ ~has_enough_capacity(op.new)
    /\ op.new > MaxCapacity
    /\ mpc' = "toobig"
    /\ m' = [m EXCEPT !.left = @ - 1, !.work = op]
    /\ UNCHANGED <<storeVars, infoVars, flagVars, read_op_ch, policyVars, userVars>>

(* handle_upsert of a candidate that has to win against victims: admit      *)
(* starts at the LRU position with the candidate's popularity.             *)
UpsertContends ==
    LET op == Head(write_op_ch) IN
    /\ Receive("Upsert")
    /\ is_alive(op.info)
    /\ op.info \notin admitted
    /\ ~has_enough_capacity(op.new)
    /\ op.new <= MaxCapacity
    /\ Policy = "TinyLfu"
    /\ mpc' = "admit"
    /\ \E f \in Freqs :
         m' = [m EXCEPT !.left = @ - 1, !.work = op, !.victims = <<>>,
                        !.scan = [NoScan EXCEPT !.cand = f,
                                    !.next = IF probation = <<>> THEN None
                                                                 ELSE Head(probation)]]
    /\ UNCHANGED <<storeVars, infoVars, flagVars, read_op_ch, policyVars, userVars>>

(* The condition of the loop of admit. *)
Scanning ==
    /\ m.scan.weight < m.work.new
    /\ m.scan.freq <= m.scan.cand
    /\ m.scan.retries <= MaxConsecutiveRetries
    /\ m.scan.next # None

SkipVictim(v) == is_dirty(v) \/ ~is_alive(v)

AdmitLook ==
    /\ mpc = "admit"
    /\ Scanning
    /\ ~SkipVictim(m.scan.next)
    /\ mpc' = "admit_look"
    /\ UNCHANGED <<storeVars, infoVars, flagVars, chVars, policyVars, userVars, m>>

(* A node is skipped because of its flags or, later, because the CHT does   *)
(* not have its key.                                                       *)
AdmitSkip ==
    LET v == m.scan.next IN
    /\ \/ mpc = "admit" /\ Scanning /\ SkipVictim(v)
       \/ mpc = "admit_look" /\ bucket[KeyOf(v)].info = None
    /\ mpc' = "admit"
    /\ probation' = move_to_back(probation, v)
    /\ m' = [m EXCEPT !.scan.next = next_node(probation, v), !.scan.retries = @ + 1]
    /\ UNCHANGED <<storeVars, infoVars, flagVars, chVars, counters, published, userVars>>

(* A victim is remembered by its key and last_accessed; the weight added is *)
(* that of the entry the CHT holds for the key.                            *)
AdmitTake ==
    LET v == m.scan.next
        k == KeyOf(v)
    IN
    /\ mpc = "admit_look"
    /\ bucket[k].info # None
    /\ mpc' = "admit"
    /\ \E f \in Freqs :
         m' = [m EXCEPT !.scan = [m.scan EXCEPT
                                    !.weight = m.scan.weight + policy_weight[bucket[k].info],
                                    !.freq = m.scan.freq + f,
                                    !.retries = 0,
                                    !.next = next_node(probation, v)],
                        !.victims = Append(@, [key |-> k, la |-> last_accessed[v]])]
    /\ UNCHANGED <<storeVars, infoVars, flagVars, chVars, policyVars, userVars>>

AdmitDecide ==
    /\ mpc = "admit"
    /\ ~Scanning
    /\ mpc' = IF m.scan.weight >= m.work.new /\ m.scan.cand > m.scan.freq
                THEN "victims" ELSE "reject"
    /\ UNCHANGED <<storeVars, infoVars, flagVars, chVars, policyVars, userVars, m>>

(* remove_if of the CHT, called by maintenance for a key: it checks the     *)
(* condition of the caller on the entry it finds, then tries the CAS, and  *)
(* starts again if the bucket has changed in between.                      *)
Check(k) ==
    /\ m.seen.info = None
    /\ Unlocked(k)
    /\ m' = [m EXCEPT !.seen = bucket[k]]
    /\ UNCHANGED <<storeVars, infoVars, flagVars, chVars, policyVars, userVars, mpc>>

Checked(k) == m.seen.info # None /\ bucket[k] = m.seen

CheckAgain ==
    /\ m.seen.info # None
    /\ bucket[KeyOf(m.seen.info)] # m.seen
    /\ m' = [m EXCEPT !.seen = NoBucket]
    /\ UNCHANGED <<storeVars, infoVars, flagVars, chVars, policyVars, userVars, mpc>>

(* The admitted branch of handle_upsert, for the next victim: remove it     *)
(* from the CHT if it was not accessed since admit looked at it ...        *)
VictimMatches(v) ==
    /\ bucket[v.key].info # None
    /\ last_accessed[bucket[v.key].info] = v.la

VictimCheck ==
    /\ mpc = "victims"
    /\ m.victims # <<>>
    /\ VictimMatches(Head(m.victims))
    /\ Check(Head(m.victims).key)

VictimRemove ==
    LET v == Head(m.victims) IN
    /\ mpc = "victims"
    /\ m.victims # <<>>
    /\ Checked(v.key)
    /\ cht_remove_and_retire(v.key)
    /\ mpc' = "victim_removed"
    /\ m' = [m EXCEPT !.victims = Tail(@), !.seen = NoBucket, !.removed = bucket[v.key].info]
    /\ UNCHANGED <<lock, infoVars, admitted, chVars, policyVars, userVars>>

(* ... and then from the deque, ...                                        *)
VictimRemoved ==
    /\ mpc = "victim_removed"
    /\ handle_remove(m.removed)
    /\ mpc' = "victims"
    /\ m' = [m EXCEPT !.removed = None]
    /\ UNCHANGED <<storeVars, infoVars, retired, chVars, published, userVars>>

(* ... or skip it.                                                         *)
VictimSkip ==
    LET v == Head(m.victims) IN
    /\ mpc = "victims"
    /\ m.victims # <<>>
    /\ m.seen.info = None
    /\ Unlocked(v.key)
    /\ ~VictimMatches(v)
    /\ probation' = IF probation # <<>> /\ KeyOf(Head(probation)) = v.key
                      THEN move_front_to_back(probation) ELSE probation
    /\ m' = [m EXCEPT !.victims = Tail(@)]
    /\ UNCHANGED <<storeVars, infoVars, flagVars, chVars, counters, published, userVars, mpc>>

(* All victims are done: the candidate is admitted if it is still alive.    *)
AdmitCandidate ==
    LET op == m.work IN
    /\ mpc = "victims"
    /\ m.victims = <<>>
    /\ \/ is_alive(op.info) /\ handle_admit(op.info, op.new)
       \/ ~is_alive(op.info) /\ UNCHANGED <<admitted, probation, counters>>
    /\ policy_gen' = set_policy_gen(op.info, op.gen)
    /\ mpc' = "writes"
    /\ m' = [m EXCEPT !.work = NoOp, !.scan = NoScan]
    /\ UNCHANGED <<storeVars, entry_gen, policy_weight, last_accessed, allocs, retired,
                   chVars, published, userVars>>

(* A candidate that is too big or was rejected is removed from the CHT if   *)
(* it was not updated since the WriteOp was made.  The two branches differ *)
(* in when they set policy_gen.                                            *)
CandidateMatches(op) ==
    /\ bucket[KeyOf(op.info)].info = op.info
    /\ entry_gen[op.info] = op.gen

CandidateCheck ==
    /\ mpc \in {"toobig", "reject"}
    /\ CandidateMatches(m.work)
    /\ Check(KeyOf(m.work.info))

RemoveCandidate ==
    LET op == m.work
        k == KeyOf(op.info)
    IN
    /\ mpc \in {"toobig", "reject"}
    /\ Checked(k)
    /\ cht_remove_and_retire(k)
    /\ policy_gen' = set_policy_gen(op.info, op.gen)
    /\ mpc' = "writes"
    /\ m' = [m EXCEPT !.work = NoOp, !.scan = NoScan, !.victims = <<>>, !.seen = NoBucket]
    /\ UNCHANGED <<lock, entry_gen, policy_weight, last_accessed, allocs, admitted,
                   chVars, policyVars, userVars>>

KeepCandidate ==
    LET op == m.work IN
    /\ mpc \in {"toobig", "reject"}
    /\ m.seen.info = None
    /\ Unlocked(KeyOf(op.info))
    /\ ~CandidateMatches(op)
    /\ policy_gen' = IF mpc = "toobig" THEN set_policy_gen(op.info, op.gen) ELSE policy_gen
    /\ mpc' = "writes"
    /\ m' = [m EXCEPT !.work = NoOp, !.scan = NoScan, !.victims = <<>>]
    /\ UNCHANGED <<storeVars, entry_gen, policy_weight, last_accessed, allocs, flagVars,
                   chVars, policyVars, userVars>>

(* apply_writes is done; then weights_to_evict decides about eviction.      *)
WritesDone ==
    /\ mpc = "writes"
    /\ m.left = 0 \/ write_op_ch = <<>>
    /\ mpc' = "evict"
    /\ m' = [m EXCEPT !.calls = @ + 1,
               !.evict = [NoEvict EXCEPT !.left = BatchSize, !.more = TRUE,
                            !.target = saturating_sub(counters.weighted_size, MaxCapacity)]]
    /\ UNCHANGED <<storeVars, infoVars, flagVars, chVars, policyVars, userVars>>

(* evict_lru_entries, one iteration. *)
Evicting ==
    /\ m.evict.left > 0
    /\ m.evict.evicted < m.evict.target
    /\ probation # <<>>

SkipOne(k) ==
    /\ probation' = skip_updated_entry_ao(k)
    /\ m' = [m EXCEPT !.evict = [m.evict EXCEPT !.left = m.evict.left - 1, !.more = FALSE,
                                                !.key = None, !.ts = 0]]

EvictSkipDirty ==
    /\ mpc = "evict"
    /\ Evicting
    /\ is_dirty(Head(probation))
    /\ SkipOne(KeyOf(Head(probation)))
    /\ UNCHANGED <<storeVars, infoVars, flagVars, chVars, counters, published, userVars, mpc>>

(* peek_front: the entry is not dirty; then its last_accessed is read.      *)
EvictClean ==
    /\ mpc = "evict"
    /\ Evicting
    /\ ~is_dirty(Head(probation))
    /\ mpc' = "evict_clean"
    /\ UNCHANGED <<storeVars, infoVars, flagVars, chVars, policyVars, userVars, m>>

EvictPeek ==
    LET i == Head(probation) IN
    /\ mpc = "evict_clean"
    /\ mpc' = "evict_peeked"
    /\ m' = [m EXCEPT !.evict.key = KeyOf(i), !.evict.ts = last_accessed[i]]
    /\ UNCHANGED <<storeVars, infoVars, flagVars, chVars, policyVars, userVars>>

EvictMatches(k) ==
    /\ bucket[k].info # None
    /\ last_accessed[bucket[k].info] = m.evict.ts

EvictCheck ==
    /\ mpc = "evict_peeked"
    /\ EvictMatches(m.evict.key)
    /\ Check(m.evict.key)

EvictRemove ==
    LET k == m.evict.key IN
    /\ mpc = "evict_peeked"
    /\ Checked(k)
    /\ cht_remove_and_retire(k)
    /\ mpc' = "evict_removed"
    /\ m' = [m EXCEPT !.seen = NoBucket, !.removed = bucket[k].info]
    /\ UNCHANGED <<lock, infoVars, admitted, chVars, policyVars, userVars>>

EvictRemoved ==
    LET i == m.removed IN
    /\ mpc = "evict_removed"
    /\ handle_remove(i)
    /\ mpc' = "evict"
    /\ m' = [m EXCEPT !.removed = None,
               !.evict = [m.evict EXCEPT !.left = m.evict.left - 1,
                                         !.evicted = m.evict.evicted + policy_weight[i],
                                         !.progress = TRUE, !.key = None, !.ts = 0]]
    /\ UNCHANGED <<storeVars, infoVars, retired, chVars, published, userVars>>

(* The entry could not be removed: skip_updated_entry_ao looks the key up.  *)
EvictMiss ==
    LET k == m.evict.key IN
    /\ mpc = "evict_peeked"
    /\ m.seen.info = None
    /\ Unlocked(k)
    /\ ~EvictMatches(k)
    /\ mpc' = "evict_skip"
    /\ UNCHANGED <<storeVars, infoVars, flagVars, chVars, policyVars, userVars, m>>

EvictSkip ==
    /\ mpc = "evict_skip"
    /\ SkipOne(m.evict.key)
    /\ mpc' = "evict"
    /\ UNCHANGED <<storeVars, infoVars, flagVars, chVars, counters, published, userVars>>

(* The end of the loop body of do_run_pending_tasks. *)
ShouldProcessLogs ==
    /\ m.calls <= MaxLogSyncRepeats
    /\ Len(read_op_ch) >= FlushPoint \/ Len(write_op_ch) >= FlushPoint

ShouldEvictMore == m.evict.left = 0 /\ m.evict.more /\ m.evict.progress

MaintAgain ==
    /\ mpc = "evict"
    /\ ~Evicting
    /\ ShouldProcessLogs \/ ShouldEvictMore
    /\ \/ /\ ShouldProcessLogs
          /\ mpc' = "reads"
          /\ m' = [IdleMaint EXCEPT !.left = Len(read_op_ch), !.calls = m.calls]
       \/ /\ ~ShouldProcessLogs
          /\ mpc' = "evict"
          /\ m' = [m EXCEPT !.evict =
                     [NoEvict EXCEPT !.left = BatchSize, !.more = TRUE,
                        !.target = saturating_sub(counters.weighted_size, MaxCapacity)]]
    /\ UNCHANGED <<storeVars, infoVars, flagVars, chVars, policyVars, userVars>>

(* Nothing is left to do or, with a listener, the timeout has elapsed: the  *)
(* counters are stored and the locks released.                             *)
MaintDone ==
    /\ mpc = "evict"
    /\ ~Evicting
    /\ KeyLocks \/ ~(ShouldProcessLogs \/ ShouldEvictMore)
    /\ mpc' = "idle"
    /\ m' = IdleMaint
    /\ published' = counters
    /\ UNCHANGED <<storeVars, infoVars, flagVars, chVars, probation, counters, userVars>>

-----------------------------------------------------------------------------
UserStep(t) ==
    \/ \E k \in Keys, w \in Weights : InsertStart(t, k, w)
    \/ \E k \in Keys : RemoveStart(t, k)
    \/ \E k \in Keys, ts \in 0..now : GetFound(t, k, ts)
    \/ InsertFound(t)
    \/ OnInsert(t)
    \/ InsertAgain(t)
    \/ OnModify(t)
    \/ InsertCas(t)
    \/ InsertCasFail(t)
    \/ ScheduleWriteOp(t)
    \/ RemoveLock(t)
    \/ RemoveCas(t)
    \/ RemoveMiss(t)
    \/ RemoveRetire(t)
    \/ RemoveIncr(t)
    \/ GetTouch(t)
    \/ RecordReadOp(t)

Maintenance ==
    \/ MaintStart
    \/ ApplyRead
    \/ ReadsDone
    \/ ApplyRemove
    \/ UpsertRetired
    \/ UpsertAdmitted
    \/ UpsertFits
    \/ UpsertTooBig
    \/ UpsertContends
    \/ AdmitLook
    \/ AdmitSkip
    \/ AdmitTake
    \/ AdmitDecide
    \/ CheckAgain
    \/ VictimCheck
    \/ VictimRemove
    \/ VictimRemoved
    \/ VictimSkip
    \/ AdmitCandidate
    \/ CandidateCheck
    \/ RemoveCandidate
    \/ KeepCandidate
    \/ WritesDone
    \/ EvictSkipDirty
    \/ EvictClean
    \/ EvictPeek
    \/ EvictCheck
    \/ EvictRemove
    \/ EvictRemoved
    \/ EvictMiss
    \/ EvictSkip
    \/ MaintAgain
    \/ MaintDone

Next == Tick \/ (\E t \in Threads : UserStep(t)) \/ Maintenance

Spec == Init /\ [][Next]_vars

-----------------------------------------------------------------------------
(* Properties *)

Linked(i) == bucket[KeyOf(i)].info = i

Alive(i) == i \notin retired

Queued(i, kind) ==
    \E p \in 1..Len(write_op_ch) : /\ write_op_ch[p].info = i
                                   /\ write_op_ch[p].kind = kind

(* The thread has its WriteOp ready; one that has retired an entry is about *)
(* to make it.                                                             *)
Sending(t, i, kind) ==
    \/ thr[t].pc = "send" /\ thr[t].op.info = i /\ thr[t].op.kind = kind
    \/ thr[t].pc = "incr" /\ thr[t].seen.info = i /\ kind = "Remove"

Retiring(t, i) == thr[t].pc = "retire" /\ thr[t].seen.info = i

(* A user thread that unlinked the entry from the CHT holds it until its    *)
(* WriteOp is in the channel; then the channel holds it.                   *)
Holds(t, i) == Retiring(t, i) \/ Sending(t, i, "Remove")

Leaving(i) ==
    \/ \E t \in Threads : Holds(t, i)
    \/ Queued(i, "Remove")
    \/ m.removed = i

(* Nothing is in flight between the CHT and the policies. *)
Quiescent ==
    /\ \A t \in Threads : thr[t].pc = "idle"
    /\ write_op_ch = <<>>
    /\ mpc = "idle"

ThreadPCs == {"idle", "load", "modify", "cas", "send", "lock", "remove", "retire", "incr",
              "touch", "record"}

MaintPCs == {"idle", "reads", "writes", "toobig", "admit", "admit_look", "reject", "victims",
             "victim_removed", "evict", "evict_clean", "evict_peeked", "evict_removed",
             "evict_skip"}

WriteOps == [kind : {"Upsert", "Remove"}, info : Infos, gen : Gens, old : Nat, new : Nat]

ThreadStates ==
    [pc : ThreadPCs, key : Keys \cup {None}, weight : Nat, ts : Nat, seen : Buckets,
     own : Infos \cup {None}, op : WriteOps \cup {NoOp}, retries : Nat]

Scans == [weight : Nat, freq : Nat, cand : Nat, retries : Nat, next : Infos \cup {None}]

Victims == [key : Keys, la : Nat]

Evicts == [target : Nat, evicted : Nat, left : Nat, more : BOOLEAN, progress : BOOLEAN,
           key : Keys \cup {None}, ts : Nat]

MaintStates ==
    [left : Nat, calls : Nat, work : WriteOps \cup {NoOp}, scan : Scans,
     victims : Seq(Victims), evict : Evicts, seen : Buckets,
     removed : Infos \cup {None}]

(* Every variable has its type. *)
TypeOK ==
    /\ bucket \in [Keys -> Buckets]
    /\ lock \in [Keys -> Threads \cup {None}]
    /\ entry_gen \in [Infos -> Gens]
    /\ policy_gen \in [Infos -> Gens]
    /\ policy_weight \in [Infos -> Nat]
    /\ last_accessed \in [Infos -> Nat]
    /\ admitted \subseteq Infos
    /\ retired \subseteq Infos
    /\ allocs \in [Keys -> 0..MaxAllocs]
    /\ read_op_ch \in Seq(Infos \cup {None})
    /\ write_op_ch \in Seq(WriteOps)
    /\ probation \in Seq(Infos)
    /\ counters \in [entry_count : Int, weighted_size : Nat]
    /\ published \in [entry_count : Int, weighted_size : Nat]
    /\ thr \in [Threads -> ThreadStates]
    /\ ops \in Nat
    /\ now \in Nat
    /\ mpc \in MaintPCs
    /\ m \in MaintStates

(* No orphan deque node (issue 590): an admitted entry is in the CHT, or    *)
(* the task that unlinked it still holds it and will take it out of the    *)
(* deque.  An entry that is admitted after its removal was processed would *)
(* keep its place in the deque and in the counters for ever.               *)
NoOrphan == \A i \in admitted : Linked(i) \/ Leaving(i)

(* No two WriteOp::Remove in the channel are for the same entry. *)
UniqueRemoves ==
    \A p, q \in 1..Len(write_op_ch) :
      /\ write_op_ch[p].kind = "Remove"
      /\ write_op_ch[q].kind = "Remove"
      /\ write_op_ch[p].info = write_op_ch[q].info
      => p = q

(* EntryInfo::retire and handle_remove run once per entry, as their debug   *)
(* assertions say: an entry that is in the CHT is alive and nobody is      *)
(* removing it; an unlinked one has one holder, and is not retired before  *)
(* its holder retires it.                                                  *)
RetireOnce ==
    /\ UniqueRemoves
    /\ \A i \in Infos :
         /\ Leaving(i) => ~Linked(i)
         /\ Linked(i) => Alive(i)
         /\ Queued(i, "Remove") \/ m.removed = i => ~Alive(i)
         /\ Queued(i, "Remove") => m.removed # i
         /\ \A t \in Threads :
              /\ Retiring(t, i) => Alive(i)
              /\ Sending(t, i, "Remove") => ~Alive(i)
              /\ Holds(t, i) => ~Queued(i, "Remove") /\ m.removed # i
              /\ \A u \in Threads : Holds(t, i) /\ Holds(u, i) => t = u

(* The admission flags, the deque and entry_count always agree: an admitted *)
(* entry has one node in the access-order deque (move_to_back_ao panics on *)
(* a node that is not there), and entry_count is the number of admitted    *)
(* entries, so that its unchecked decrement cannot underflow.              *)
DequeMirrorsAdmitted ==
    /\ admitted = {probation[p] : p \in 1..Len(probation)}
    /\ \A p, q \in 1..Len(probation) : probation[p] = probation[q] => p = q
    /\ counters.entry_count = Len(probation)
    /\ mpc = "idle" => published = counters

(* No entry escapes the policies: an entry in the CHT that is not admitted  *)
(* has a WriteOp on the way, or somebody is still inserting the key.  An   *)
(* entry without one is never evicted, however full the cache is.          *)
LinkedIsTracked ==
    \A k \in Keys :
      LET i == bucket[k].info IN
      i # None /\ i \notin admitted =>
        \/ Queued(i, "Upsert")
        \/ m.work.info = i
        \/ \E t \in Threads :
             \/ Sending(t, i, "Upsert")
             \/ thr[t].pc \in {"load", "modify", "cas"} /\ thr[t].key = k

(* The WriteOp do_insert_with_hash returns is about the entry it put in the *)
(* CHT: the serial numbers of the closures tell whether the operation was  *)
(* an insertion or an update.                                              *)
InsertReportsLinked ==
    [][\A t \in Threads :
         InsertCas(t) => thr'[t].op.info = bucket'[thr[t].key].info]_vars

(* When nothing is in flight, every admitted entry can be evicted: it is in *)
(* the CHT and not dirty.  Eviction skips a dirty entry, waiting for a     *)
(* WriteOp that would never come.                                          *)
QuietEvictable ==
    Quiescent => \A i \in admitted : Linked(i) /\ ~is_dirty(i)

-----------------------------------------------------------------------------
(* Refinement and liveness *)

StageOf(i) ==
    IF Linked(i) THEN "linked"
    ELSE IF Leaving(i) THEN "leaving"
    ELSE IF Alive(i) THEN "free" ELSE "gone"

Lifecycle == INSTANCE EntryLifecycle
               WITH stage <- [i \in Infos |-> StageOf(i)], tracked <- admitted

(* The cache implements the life of an entry that EntryLifecycle describes: *)
(* whatever the interleaving of insertions, removals and maintenance, each *)
(* EntryInfo is linked, unlinked and forgotten once, in that order.        *)
ImplementsLifecycle == Lifecycle!Spec

(* A thread that is inside a call takes its next step. *)
InCall(t) ==
    \/ InsertFound(t) \/ OnInsert(t) \/ InsertAgain(t) \/ OnModify(t)
    \/ InsertCas(t) \/ InsertCasFail(t) \/ ScheduleWriteOp(t)
    \/ RemoveLock(t) \/ RemoveCas(t) \/ RemoveMiss(t) \/ RemoveRetire(t)
    \/ RemoveIncr(t) \/ GetTouch(t) \/ RecordReadOp(t)

FairSpec ==
    /\ Spec
    /\ \A t \in Threads : WF_vars(InCall(t))
    /\ WF_vars(Maintenance)

Busy(t) == thr[t].pc # "idle"

(* Every call returns: neither a full write channel nor a key lock can      *)
(* block a caller for ever, since maintenance never waits for a thread     *)
(* that waits for maintenance (invalidate drops the key lock before it     *)
(* schedules its WriteOp).                                                 *)
EveryCallReturns == \A t \in Threads : Busy(t) ~> ~Busy(t)

CaughtUp == published.weighted_size <= MaxCapacity \/ probation = <<>>

(* Eviction does not stall (issue 590): once the callers stop, maintenance  *)
(* brings weighted_size down to max_capacity, or runs out of entries.      *)
EvictionCatchesUp == <>[]CaughtUp

-----------------------------------------------------------------------------
(***************************************************************************)
(* The inductive invariant behind NoOrphan, RetireOnce and                 *)
(* DequeMirrorsAdmitted of BaseCache.                                      *)
(***************************************************************************)
Inserting == {"load", "modify", "cas"}

Working == {"toobig", "admit", "admit_look", "reject", "victims", "victim_removed"}

(* The locals the program counter of a thread relies on are there. *)
ThreadOK(x) ==
    /\ x.pc \notin {"idle", "send"} => x.key \in Keys
    /\ x.pc \in {"modify", "retire", "incr", "touch"} => x.seen.info \in Infos
    /\ x.pc \in {"cas", "send"} => x.op \in WriteOps
    /\ x.pc \in Inserting /\ x.op # NoOp => x.op.kind = "Upsert"
    /\ x.pc = "cas" /\ x.seen.info = None => x.own \in Infos
    /\ x.pc = "cas" /\ x.seen.info # None => x.op.info = x.seen.info
    /\ x.own # None => x.pc \in Inserting /\ x.op \in WriteOps

(* The same for the maintenance task. *)
MaintOK(pc, x) ==
    /\ pc \in Working => x.work \in WriteOps
    /\ pc \notin Working => x.work = NoOp
    /\ pc \in {"victim_removed", "evict_removed"} <=> x.removed # None
    /\ pc = "admit_look" => x.scan.next # None
    /\ pc \in {"evict_peeked", "evict_skip"} => x.evict.key \in Keys
    /\ pc \in {"evict_clean", "evict_peeked", "evict_skip", "evict_removed"} => x.evict.left > 0
    /\ pc \in {"toobig", "reject"} => x.seen.info \in {None, x.work.info}
    /\ pc = "victims" /\ x.victims = <<>> => x.seen.info = None
    /\ pc \notin {"toobig", "reject", "victims", "evict_peeked"} => x.seen.info = None

LocalsOK ==
    /\ \A t \in Threads : ThreadOK(thr[t])
    /\ MaintOK(mpc, m)
    /\ mpc = "evict_clean" => probation # <<>>

(* An EntryInfo stays with its key, and what a thread has seen in a bucket  *)
(* is what the bucket still holds if its version is the same.              *)
SeesBucket(x) ==
    /\ x.seen.info # None => KeyOf(x.seen.info) = x.key
    /\ x.seen.ver <= bucket[x.key].ver
    /\ x.seen.ver = bucket[x.key].ver => x.seen.info = bucket[x.key].info

BucketsOK ==
    /\ \A k \in Keys : bucket[k].info # None => KeyOf(bucket[k].info) = k
    /\ \A t \in Threads :
         /\ thr[t].own # None => KeyOf(thr[t].own) = thr[t].key
         /\ thr[t].pc \in {"modify", "cas"} => SeesBucket(thr[t])

(* An entry that has been in the CHT is there, or was unlinked by a thread  *)
(* about to retire it, or is retired.                                      *)
Known(i) == Linked(i) \/ ~Alive(i) \/ \E t \in Threads : Retiring(t, i)

(* An insertion has found the entry, has its WriteOp ready, or created it.  *)
Sees(t, i) == thr[t].pc \in {"modify", "cas"} /\ thr[t].seen.info = i
Prepared(t, i) == thr[t].pc \in Inserting /\ thr[t].op.info = i /\ thr[t].own # i
Owns(t, i) == thr[t].own = i

(* Whatever is queued, sent, worked on or admitted has been in the CHT.     *)
KnownOK ==
    \A i \in Infos :
      /\ i \in admitted => Known(i)
      /\ m.work.info = i => Known(i)
      /\ Queued(i, "Upsert") \/ Queued(i, "Remove") => Known(i)
      /\ \A t \in Threads :
           /\ Sending(t, i, "Upsert") \/ Sending(t, i, "Remove") => Known(i)
           /\ Sees(t, i) \/ Prepared(t, i) => Known(i)

(* The EntryInfo an insertion has created and not yet linked is its own.    *)
Allocated(i) == i[2] <= allocs[KeyOf(i)]

FreshOK ==
    \A i \in Infos :
      /\ Known(i) => Allocated(i)
      /\ \A t \in Threads : Owns(t, i) =>
           /\ ~Known(i)
           /\ Allocated(i)
           /\ \A u \in Threads : Owns(u, i) => u = t

(* The candidate of an admission is not admitted yet. *)
CandidateOK == m.work.info \notin admitted

LifeInv == KnownOK /\ FreshOK /\ CandidateOK /\ RetireOnce /\ NoOrphan

(* The inductive invariant. *)
IInv == TypeOK /\ LocalsOK /\ BucketsOK /\ LifeInv

-----------------------------------------------------------------------------
(***************************************************************************)
(* What the inductive invariant of LinkedIsTracked adds to it, when keys   *)
(* are locked.                                                             *)
(***************************************************************************)
InsertsOf(k) == \E t \in Threads : thr[t].pc \in Inserting /\ thr[t].key = k

(* The WriteOp is that of the last change of the entry: remove_if of a      *)
(* rejected candidate compares the generations.                            *)
Latest(op, i) == op.kind = "Upsert" /\ op.info = i /\ op.gen = entry_gen[i]

LatestQueued(i) == \E p \in 1..Len(write_op_ch) : Latest(write_op_ch[p], i)

LatestSent(i) == \E t \in Threads : thr[t].pc = "send" /\ Latest(thr[t].op, i)

(* An insertion has its key locked, so its WriteOp stays that of the last   *)
(* change of the entry that its CAS puts into the bucket.                  *)
InsertOK(t) ==
    LET x == thr[t] IN
    /\ x.pc \in Inserting => lock[x.key] = t
    /\ x.own # None =>
         /\ x.pc \in {"load", "cas"}
         /\ x.seen.info = None
         /\ bucket[x.key].info = None
         /\ Latest(x.op, x.own)
    /\ x.pc = "cas" /\ x.seen.info # None =>
         (Linked(x.seen.info) => Latest(x.op, x.seen.info))

(* The entry is admitted, or the WriteOp of its last change is on its way.  *)
Tracked(i) ==
    Linked(i) /\ i \notin admitted =>
      InsertsOf(KeyOf(i)) \/ LatestQueued(i) \/ LatestSent(i) \/ Latest(m.work, i)

TrackInv == (\A t \in Threads : InsertOK(t)) /\ (\A i \in Infos : Tracked(i))
=============================================================================

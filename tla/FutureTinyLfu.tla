--------------------------- MODULE FutureTinyLfu ----------------------------
(***************************************************************************)
(* The size-based policy of future::base_cache.  The counters, the sketch  *)
(* and the aggregation of victims are those of TinyLfu; but the            *)
(* maintenance task awaits key locks and the eviction listener between the *)
(* victims of a contest and between evictions, and other tasks call the    *)
(* cache there.  (Awaiting is taken to be possible at each of these        *)
(* points, as it is with an eviction listener.)                            *)
(***************************************************************************)
EXTENDS Integers, Sequences, FiniteSets, FiniteSetsExt

CONSTANTS Keys, None, MaxCapacity, Weigher, Weights, MinSketch, MaxSketch, MaxConsecutiveRetries,
          BatchSize,    \* eviction_batch_size
          Calls, MaxOps

VARIABLES cache, info, read_op_ch, write_op_ch, probation, published, counters, sketch, mpc,
          contest, ops,
          work,  \* the locals of the task: what is left, the victims, the entry just removed
          calm   \* no call was made since the task started

S == INSTANCE TinyLfu

storeVars == <<cache, info, read_op_ch, write_op_ch, probation>>
vars == <<storeVars, published, counters, sketch, mpc, contest, ops, work, calm>>

NoWork == [left |-> 0, op |-> None, victims |-> <<>>, removed |-> None, batch |-> 0, ts |-> 0,
           more |-> FALSE]

Init == S!Init /\ work = NoWork /\ calm = TRUE

weigh(w) == IF Weigher THEN w ELSE 1
Clock == 1 + MaxOps - ops
Awaiting == mpc \in {"idle", "victims", "evict_locked"}

Call(name) ==
    /\ Awaiting
    /\ ops > 0 /\ name \in Calls
    /\ ops' = ops - 1
    /\ calm' = (calm /\ mpc = "idle")
    /\ UNCHANGED <<probation, published, counters, sketch, mpc, contest, work>>

(* The task holds the lock of a key while the listener is awaited.         *)
Unlocked(k) == IF work.removed = None THEN TRUE ELSE info[work.removed].key # k

Insert(k, w) ==
    /\ Call("insert")
    /\ Unlocked(k)
    /\ LET new == cache[k] = None
           i == IF new THEN Len(info) + 1 ELSE cache[k]
           gen == IF new THEN 1 ELSE info[i].entry_gen + 1
       IN /\ cache' = [cache EXCEPT ![k] = i]
          /\ info' = IF new
                     THEN Append(info, [key |-> k, weight |-> weigh(w), entry_gen |-> 1, la |-> Clock,
                                        policy_gen |-> 0, admitted |-> FALSE, alive |-> TRUE])
                     ELSE [info EXCEPT ![i].weight = weigh(w), ![i].entry_gen = gen, ![i].la = Clock]
          /\ write_op_ch' = Append(write_op_ch,
                              [op |-> "Upsert", info |-> i, gen |-> gen,
                               old |-> IF new THEN 0 ELSE info[i].weight, new |-> weigh(w)])
    /\ UNCHANGED read_op_ch

Invalidate(k) ==
    /\ Call("invalidate")
    /\ Unlocked(k) /\ cache[k] # None
    /\ LET i == cache[k] IN
       /\ cache' = [cache EXCEPT ![k] = None]
       /\ info' = [info EXCEPT ![i].alive = FALSE, ![i].entry_gen = @ + 1]
       /\ write_op_ch' = Append(write_op_ch, [op |-> "Remove", info |-> i,
                                              gen |-> info[i].entry_gen + 1, old |-> 0, new |-> 0])
    /\ UNCHANGED read_op_ch

Get(k) ==
    /\ Call("get")
    /\ info' = IF cache[k] = None THEN info ELSE [info EXCEPT ![cache[k]].la = Clock]
    /\ read_op_ch' = Append(read_op_ch, [key |-> k, info |-> cache[k]])
    /\ UNCHANGED <<cache, write_op_ch>>
-----------------------------------------------------------------------------
EvictionCounters(ec, ws) == S!EvictionCounters(ec, ws)
saturating_add(c, n, w) == EvictionCounters(c.entry_count + n, c.weighted_size + w)
saturating_sub(c, n, w) ==
    EvictionCounters(c.entry_count - n, IF w > c.weighted_size THEN 0 ELSE c.weighted_size - w)

has_enough_capacity(w, c) == IF MaxCapacity = None THEN TRUE ELSE c.weighted_size + w <= MaxCapacity
weights_to_evict(c) == IF MaxCapacity = None THEN 0 ELSE Max({0, c.weighted_size - MaxCapacity})

Start ==
    /\ S!EvictionState
    /\ work' = NoWork
    /\ calm' = TRUE

apply_reads == S!apply_reads /\ UNCHANGED <<work, calm>>

ReadsDone == S!ReadsDone /\ work' = [work EXCEPT !.left = Len(write_op_ch)] /\ UNCHANGED calm

(* handle_admit, which looks again whether the entry is alive; then        *)
(* set_policy_gen.                                                         *)
handle_admit(i, w, gen) ==
    IF info[i].alive
    THEN /\ probation' = Append(probation, i)
         /\ counters' = saturating_add(counters, 1, w)
         /\ info' = [info EXCEPT ![i].admitted = TRUE, ![i].policy_gen = gen]
    ELSE /\ info' = [info EXCEPT ![i].policy_gen = gen]
         /\ UNCHANGED <<probation, counters>>

EntrySizeAndFrequency(w, k) == [weight |-> w, freq |-> sketch.freq[k]]
admit(cand, v) == v.weight >= cand.weight /\ cand.freq > v.freq

Contends(op) ==
    /\ S!Candidate(op)
    /\ ~has_enough_capacity(op.new, counters)
    /\ op.new <= MaxCapacity

UpsertFits(op) ==
    /\ S!Candidate(op)
    /\ has_enough_capacity(op.new, counters)
    /\ handle_admit(op.info, op.new, op.gen)
    /\ UNCHANGED <<cache, contest>>

(* The victims are noted with their last_accessed, to be removed later.    *)
UpsertWins(op) ==
    LET cand == EntrySizeAndFrequency(op.new, info[op.info].key)
        agg == S!Victims(cand)
        vs == agg.v.keys
    IN /\ Contends(op)
       /\ admit(cand, agg.v)
       /\ probation' = agg.deq
       /\ work' = [work EXCEPT !.left = @ - 1, !.op = op,
                     !.victims = [n \in DOMAIN vs |-> [key |-> info[vs[n]].key, la |-> info[vs[n]].la]]]
       /\ mpc' = "victims"
       /\ contest' = [cand |-> cand.freq, victims |-> {sketch.freq[info[vs[n]].key] : n \in DOMAIN vs}]
       /\ UNCHANGED <<cache, info, counters>>

UpsertLoses(op) ==
    LET cand == EntrySizeAndFrequency(op.new, info[op.info].key)
        agg == S!Victims(cand)
    IN /\ Contends(op)
       /\ ~admit(cand, agg.v)
       /\ S!Reject(op)
       /\ probation' = agg.deq
       /\ UNCHANGED <<counters, contest>>

handle_upsert(op) ==
    /\ work.left > 0
    /\ \/ UpsertWins(op)
       \/ /\ \/ S!UpsertRetired(op) \/ S!UpsertAdmitted(op) \/ UpsertFits(op) \/ S!UpsertTooBig(op)
             \/ UpsertLoses(op)
          /\ work' = [work EXCEPT !.left = @ - 1]
          /\ UNCHANGED mpc
    /\ write_op_ch' = Tail(write_op_ch)
    /\ UNCHANGED <<read_op_ch, published, sketch, ops, calm>>

ApplyRemove(op) ==
    /\ work.left > 0
    /\ S!ApplyRemove(op)
    /\ work' = [work EXCEPT !.left = @ - 1]
    /\ UNCHANGED calm

apply_writes == write_op_ch # <<>> /\ LET op == Head(write_op_ch) IN handle_upsert(op) \/ ApplyRemove(op)

FrontIs(k) == probation # <<>> /\ info[Head(probation)].key = k
MoveFrontToBack == Append(Tail(probation), Head(probation))

(* remove_entry_if_and, with the condition on last_accessed.               *)
Untouched(k, ts) == cache[k] # None /\ info[cache[k]].la = ts
remove_if(k) ==
    /\ cache' = [cache EXCEPT ![k] = None]
    /\ info' = [info EXCEPT ![cache[k]].alive = FALSE]

RemoveVictim_any ==
    LET v == Head(work.victims) IN
    /\ mpc = "victims" /\ work.removed = None /\ work.victims # <<>>
    /\ IF cache[v.key] # None
       THEN /\ remove_if(v.key)
            /\ work' = [work EXCEPT !.removed = cache[v.key], !.victims = Tail(@)]
            /\ UNCHANGED probation
       ELSE /\ probation' = IF FrontIs(v.key) THEN MoveFrontToBack ELSE probation
            /\ work' = [work EXCEPT !.victims = Tail(@)]
            /\ UNCHANGED <<cache, info>>
    /\ UNCHANGED <<read_op_ch, write_op_ch, published, counters, sketch, mpc, contest, ops, calm>>

(* The next victim, whose key is locked, leaves the table if nobody        *)
(* accessed it; the listener is awaited.                                   *)
RemoveVictim ==
    LET v == Head(work.victims) IN
    /\ mpc = "victims" /\ work.removed = None /\ work.victims # <<>>
    /\ IF Untouched(v.key, v.la)
       THEN /\ remove_if(v.key)
            /\ work' = [work EXCEPT !.removed = cache[v.key], !.victims = Tail(@)]
            /\ UNCHANGED probation
       ELSE /\ probation' = IF FrontIs(v.key) THEN MoveFrontToBack ELSE probation
            /\ work' = [work EXCEPT !.victims = Tail(@)]
            /\ UNCHANGED <<cache, info>>
    /\ UNCHANGED <<read_op_ch, write_op_ch, published, counters, sketch, mpc, contest, ops, calm>>

handle_remove_uncounted(i) ==
    /\ counters' = saturating_sub(counters, 0, info[i].weight)
    /\ probation' = S!Without(probation, i)
    /\ info' = [info EXCEPT ![i].admitted = FALSE]

handle_remove(i) ==
    /\ counters' = saturating_sub(counters, 1, info[i].weight)
    /\ probation' = S!Without(probation, i)
    /\ info' = [info EXCEPT ![i].admitted = FALSE]

VictimRemoved ==
    /\ mpc = "victims" /\ work.removed # None
    /\ handle_remove(work.removed)
    /\ work' = [work EXCEPT !.removed = None]
    /\ UNCHANGED <<cache, read_op_ch, write_op_ch, published, sketch, mpc, contest, ops, calm>>

AdmitCandidate ==
    /\ mpc = "victims" /\ work.removed = None /\ work.victims = <<>>
    /\ handle_admit(work.op.info, work.op.new, work.op.gen)
    /\ work' = [work EXCEPT !.op = None]
    /\ mpc' = "writes"
    /\ UNCHANGED <<cache, read_op_ch, write_op_ch, published, sketch, contest, ops, calm>>
-----------------------------------------------------------------------------
should_enable_frequency_sketch(c) ==
    /\ MaxCapacity # None /\ MaxCapacity # 0
    /\ ~sketch.enabled
    /\ c.weighted_size >= MaxCapacity \div 2

do_enable_frequency_sketch(cap) ==
    sketch' = [enabled |-> TRUE, cap |-> S!sketch_capacity(cap), freq |-> [k \in Keys |-> 0]]

enable_frequency_sketch(c) ==
    IF Weigher THEN \E cap \in S!Estimates(c) : do_enable_frequency_sketch(cap)
    ELSE do_enable_frequency_sketch(MaxCapacity)

Batch(c) == [NoWork EXCEPT !.batch = IF weights_to_evict(c) > 0 THEN BatchSize ELSE 0,
                           !.more = weights_to_evict(c) > 0]

WritesDone ==
    /\ mpc = "writes" /\ work.left = 0
    /\ IF should_enable_frequency_sketch(counters) THEN enable_frequency_sketch(counters)
       ELSE UNCHANGED sketch
    /\ mpc' = "evict"
    /\ work' = Batch(counters)
    /\ UNCHANGED <<storeVars, published, counters, contest, ops, calm>>

Evicting == mpc = "evict" /\ work.batch > 0 /\ weights_to_evict(counters) > 0 /\ probation # <<>>

skip_updated_entry_ao(k) ==
    IF cache[k] = None THEN MoveFrontToBack
    ELSE IF S!InDeque(probation, cache[k]) THEN S!move_to_back(probation, cache[k]) ELSE probation

(* evict_lru_entries, one iteration: a dirty entry is skipped, ...         *)
EvictSkip ==
    /\ Evicting
    /\ S!is_dirty(Head(probation))
    /\ probation' = skip_updated_entry_ao(info[Head(probation)].key)
    /\ work' = [work EXCEPT !.batch = @ - 1, !.more = FALSE]
    /\ UNCHANGED <<cache, info, read_op_ch, write_op_ch, published, counters, sketch, mpc, contest, ops, calm>>

(* ... else its key is locked, ...                                         *)
EvictLock ==
    /\ Evicting
    /\ ~S!is_dirty(Head(probation))
    /\ mpc' = "evict_locked"
    /\ work' = [work EXCEPT !.victims = <<info[Head(probation)].key>>, !.ts = info[Head(probation)].la]
    /\ UNCHANGED <<storeVars, published, counters, sketch, contest, ops, calm>>

(* ... it leaves the table if nobody accessed it, the listener is awaited, *)
EvictRemove ==
    LET k == Head(work.victims) IN
    /\ mpc = "evict_locked" /\ work.removed = None
    /\ IF Untouched(k, work.ts)
       THEN /\ remove_if(k)
            /\ work' = [work EXCEPT !.removed = cache[k]]
            /\ UNCHANGED <<probation, mpc>>
       ELSE /\ probation' = skip_updated_entry_ao(k)
            /\ work' = [work EXCEPT !.victims = <<>>, !.batch = @ - 1, !.ts = 0, !.more = FALSE]
            /\ mpc' = "evict"
            /\ UNCHANGED <<cache, info>>
    /\ UNCHANGED <<read_op_ch, write_op_ch, published, counters, sketch, contest, ops, calm>>

(* ... and it leaves the deque.                                            *)
EvictRemoved ==
    /\ mpc = "evict_locked" /\ work.removed # None
    /\ handle_remove(work.removed)
    /\ work' = [work EXCEPT !.removed = None, !.victims = <<>>, !.batch = @ - 1, !.ts = 0]
    /\ mpc' = "evict"
    /\ UNCHANGED <<cache, read_op_ch, write_op_ch, published, sketch, contest, ops, calm>>

MoreToEvict == work.batch = 0 /\ work.more

EvictAgain ==
    /\ mpc = "evict" /\ ~Evicting
    /\ MoreToEvict
    /\ work' = Batch(counters)
    /\ UNCHANGED <<storeVars, published, counters, sketch, mpc, contest, ops, calm>>

(* The end of do_run_pending_tasks, because there is no more to do or the  *)
(* listener took too long: the counters are stored.                        *)
Publish ==
    /\ mpc = "evict" /\ ~Evicting
    /\ published' = counters
    /\ mpc' = "idle"
    /\ work' = [NoWork EXCEPT !.more = MoreToEvict]
    /\ UNCHANGED <<storeVars, counters, sketch, contest, ops, calm>>

run_pending_tasks ==
    \/ Start \/ apply_reads \/ ReadsDone \/ apply_writes \/ RemoveVictim \/ VictimRemoved
    \/ AdmitCandidate \/ WritesDone \/ EvictSkip \/ EvictLock \/ EvictRemove \/ EvictRemoved
    \/ EvictAgain \/ Publish

Next ==
    \/ \E k \in Keys : Invalidate(k) \/ Get(k) \/ \E w \in Weights : Insert(k, w)
    \/ run_pending_tasks

Spec == Init /\ [][Next]_vars
-----------------------------------------------------------------------------
AfterRun == mpc = "idle" /\ write_op_ch = <<>>
Cached == {k \in Keys : cache[k] # None}

(* When a run has left nothing in the log, the cache reports the number    *)
(* and the total weight of the entries a caller can find, although calls   *)
(* were made while the task was waiting between the steps of a removal.    *)
SizesExact ==
    AfterRun => /\ published.entry_count = Cardinality(Cached)
                /\ published.weighted_size = S!WeightOf({cache[k] : k \in Cached})
                /\ {probation[n] : n \in DOMAIN probation} = {cache[k] : k \in Cached}

(* A run during which no call was made and that was not cut short leaves   *)
(* at most max_capacity.                                                   *)
WithinCapacity ==
    AfterRun /\ calm /\ ~work.more /\ MaxCapacity # None => published.weighted_size <= MaxCapacity

(* No entry loses its place to one that was read no more often.            *)
NoPollution == \A f \in contest.victims : f < contest.cand

VictimsStay ==
    \A k \in Keys : mpc = "victims" /\ cache[k] # None /\ cache'[k] = None /\ work' # work
        => \E n \in DOMAIN work.victims : work.victims[n] = [key |-> k, la |-> info[cache[k]].la]

(* Nor does an entry lose its place that was touched since the contest:    *)
(* what the task removes from the table is what it looked at.              *)
VictimsUntouched == [][VictimsStay]_vars
=============================================================================

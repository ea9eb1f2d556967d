------------------------------ MODULE TinyLfu -------------------------------
(***************************************************************************)
(* The size-based policy of sync::base_cache as one caller meets it: the   *)
(* counters of a maintenance run, the frequency sketch with the moment it  *)
(* is enabled and the capacity it gets, and the contest of TinyLFU.  What  *)
(* other threads do meanwhile is in BaseCache, where the outcome of a      *)
(* contest is open; here it follows from the reads.                        *)
(*                                                                         *)
(* sketch.freq counts the reads of a key since the sketch was enabled, up  *)
(* to 15: FrequencySketch says how far its estimates can be from that.     *)
(* MinSketch stands for the 128 of sketch_capacity.                        *)
(***************************************************************************)
EXTENDS Integers, Sequences, FiniteSets, FiniteSetsExt

CONSTANTS Keys, None,
          MaxCapacity,           \* max_capacity, or None
          Weigher,               \* has the cache a weigher
          Weights,               \* what the weigher may say
          MinSketch, MaxSketch,  \* the range of sketch_capacity
          MaxConsecutiveRetries, \* MAX_CONSECUTIVE_RETRIES
          Calls, MaxOps

VARIABLES cache,        \* the EntryInfo of each key in the hash table
          info,         \* every EntryInfo made
          read_op_ch, write_op_ch,
          probation,    \* the access-order deque
          published,    \* Inner::entry_count and weighted_size
          counters,     \* EvictionCounters of the run
          sketch,       \* frequency_sketch_enabled, its capacity and counts
          mpc,          \* where the maintenance run is
          contest,      \* the last contest
          ops

vars == <<cache, info, read_op_ch, write_op_ch, probation, published, counters, sketch, mpc,
          contest, ops>>

storeVars == <<cache, info, read_op_ch, write_op_ch, probation>>
(* EvictionCounters.                                                       *)
EvictionCounters(ec, ws) == [entry_count |-> ec, weighted_size |-> ws]
saturating_add(c, n, w) == EvictionCounters(c.entry_count + n, c.weighted_size + w)
saturating_sub(c, n, w) ==
    EvictionCounters(c.entry_count - n, IF w > c.weighted_size THEN 0 ELSE c.weighted_size - w)

NoContest == [cand |-> 1, victims |-> {}]

Init ==
    /\ cache = [k \in Keys |-> None]
    /\ info = <<>>
    /\ read_op_ch = <<>> /\ write_op_ch = <<>> /\ probation = <<>>
    /\ published = EvictionCounters(0, 0)
    /\ counters = EvictionCounters(0, 0)
    /\ sketch = [enabled |-> FALSE, cap |-> 0, freq |-> [k \in Keys |-> 0]]
    /\ mpc = "idle"
    /\ contest = NoContest
    /\ ops = MaxOps

weigh(w) == IF Weigher THEN w ELSE 1
is_dirty(i) == info[i].policy_gen # info[i].entry_gen
Call(name) == mpc = "idle" /\ ops > 0 /\ name \in Calls /\ ops' = ops - 1

(* insert: a new EntryInfo, or the next generation of the one in the       *)
(* table; then the WriteOp.                                                *)
Insert(k, w) ==
    /\ Call("insert")
    /\ LET i == IF cache[k] = None THEN Len(info) + 1 ELSE cache[k]
           gen == IF cache[k] = None THEN 1 ELSE info[i].entry_gen + 1
           old == IF cache[k] = None THEN 0 ELSE info[i].weight
       IN /\ cache' = [cache EXCEPT ![k] = i]
          /\ info' = IF cache[k] = None
                     THEN Append(info, [key |-> k, weight |-> weigh(w), entry_gen |-> 1,
                                        policy_gen |-> 0, admitted |-> FALSE, alive |-> TRUE])
                     ELSE [info EXCEPT ![i].weight = weigh(w), ![i].entry_gen = gen]
          /\ write_op_ch' = Append(write_op_ch, [op |-> "Upsert", info |-> i, gen |-> gen,
                                                 old |-> old, new |-> weigh(w)])
    /\ UNCHANGED <<read_op_ch, probation, published, counters, sketch, mpc, contest>>

Invalidate(k) ==
    /\ Call("invalidate")
    /\ cache[k] # None
    /\ LET i == cache[k] IN
       /\ cache' = [cache EXCEPT ![k] = None]
       /\ info' = [info EXCEPT ![i].alive = FALSE, ![i].entry_gen = @ + 1]
       /\ write_op_ch' = Append(write_op_ch, [op |-> "Remove", info |-> i,
                                              gen |-> info[i].entry_gen + 1, old |-> 0, new |-> 0])
    /\ UNCHANGED <<read_op_ch, probation, published, counters, sketch, mpc, contest>>

(* get: a ReadOp, Hit with the entry or Miss with the hash.                *)
Get(k) ==
    /\ Call("get")
    /\ read_op_ch' = Append(read_op_ch, [key |-> k, info |-> cache[k]])
    /\ UNCHANGED <<cache, info, write_op_ch, probation, published, counters, sketch, mpc, contest>>
-----------------------------------------------------------------------------
(* run_pending_tasks.                                                      *)
EvictionState ==
    /\ mpc = "idle"
    /\ read_op_ch # <<>> \/ write_op_ch # <<>>
    /\ MaxCapacity # 0
    /\ counters' = published
    /\ mpc' = "reads"
    /\ UNCHANGED <<storeVars, published, sketch, contest, ops>>

Without(deq, i) == SelectSeq(deq, LAMBDA j : j # i)
move_to_back(deq, i) == Append(Without(deq, i), i)
InDeque(deq, i) == \E n \in DOMAIN deq : deq[n] = i

increment(k) == IF sketch.enabled /\ sketch.freq[k] < 15 THEN [sketch EXCEPT !.freq[k] = @ + 1] ELSE sketch

apply_reads ==
    /\ mpc = "reads"
    /\ read_op_ch # <<>>
    /\ LET op == Head(read_op_ch) IN
       /\ sketch' = increment(op.key)
       /\ probation' = IF op.info # None /\ InDeque(probation, op.info) /\ info[op.info].alive
                       THEN move_to_back(probation, op.info) ELSE probation
    /\ read_op_ch' = Tail(read_op_ch)
    /\ UNCHANGED <<cache, info, write_op_ch, published, counters, mpc, contest, ops>>

ReadsDone ==
    /\ mpc = "reads" /\ read_op_ch = <<>>
    /\ mpc' = "writes"
    /\ UNCHANGED <<storeVars, published, counters, sketch, contest, ops>>

has_enough_capacity(w, c) == IF MaxCapacity = None THEN TRUE ELSE c.weighted_size + w <= MaxCapacity
weights_to_evict(c) == IF MaxCapacity = None THEN 0 ELSE Max({0, c.weighted_size - MaxCapacity})

(* handle_admit.                                                           *)
handle_admit(i, w, deq, c) ==
    /\ probation' = Append(deq, i)
    /\ counters' = saturating_add(c, 1, w)

EntrySizeAndFrequency(w, f) == [weight |-> w, freq |-> f]

(* The loop of admit: next is the node to look at, v what was aggregated.  *)
RECURSIVE Aggregate(_, _, _, _)
Aggregate(cand, next, deq, v) ==
    IF next = 0 \/ v.weight >= cand.weight \/ v.freq > cand.freq \/ v.retries > MaxConsecutiveRetries
    THEN [v |-> v, deq |-> deq]
    ELSE LET i == deq[next]
             last == next = Len(deq)
             after == IF last THEN 0 ELSE next + 1
         IN IF is_dirty(i) \/ ~info[i].alive
            THEN Aggregate(cand, IF last THEN 0 ELSE next, move_to_back(deq, i),
                           [v EXCEPT !.retries = @ + 1])
            ELSE Aggregate(cand, after, deq,
                           [v EXCEPT !.weight = @ + info[i].weight, !.freq = @ + sketch.freq[info[i].key],
                                     !.keys = Append(@, i), !.retries = 0])

Victims(cand) ==
    Aggregate(cand, IF probation = <<>> THEN 0 ELSE 1, probation,
              [weight |-> 0, freq |-> 0, keys |-> <<>>, retries |-> 0])

admit(cand, v) == v.weight >= cand.weight /\ cand.freq > v.freq

(* The victims leave the table and the deque, and the counters.            *)
Retire(S) == [j \in DOMAIN info |->
                IF j \in S THEN [info[j] EXCEPT !.alive = FALSE, !.admitted = FALSE] ELSE info[j]]
Unlinked(S) == [k \in Keys |-> IF cache[k] \in S THEN None ELSE cache[k]]
WeightOf(S) == MapThenSumSet(LAMBDA j : info[j].weight, S)
handle_remove(S, c) == saturating_sub(c, Cardinality(S), WeightOf(S))

Upsert(op) == mpc = "writes" /\ write_op_ch # <<>> /\ op = Head(write_op_ch) /\ op.op = "Upsert"
Settled(op) == [info EXCEPT ![op.info].policy_gen = op.gen]
Seated(op) == [Settled(op) EXCEPT ![op.info].admitted = TRUE]

(* handle_upsert: the entry is retired, ...                                *)
UpsertRetired(op) ==
    /\ Upsert(op)
    /\ ~info[op.info].alive
    /\ info' = Settled(op)
    /\ UNCHANGED <<cache, probation, counters, contest>>

(* ... or was admitted before, ...                                         *)
UpsertAdmitted(op) ==
    /\ Upsert(op)
    /\ info[op.info].alive /\ info[op.info].admitted
    /\ counters' = saturating_add(saturating_sub(counters, 0, op.old), 0, op.new)
    /\ probation' = move_to_back(probation, op.info)
    /\ info' = Settled(op)
    /\ UNCHANGED <<cache, contest>>

Candidate(op) == Upsert(op) /\ info[op.info].alive /\ ~info[op.info].admitted

(* ... or fits, ...                                                        *)
UpsertFits(op) ==
    /\ Candidate(op)
    /\ has_enough_capacity(op.new, counters)
    /\ handle_admit(op.info, op.new, probation, counters)
    /\ info' = Seated(op)
    /\ UNCHANGED <<cache, contest>>

(* A candidate that is turned away leaves the table, unless it was updated *)
(* since.                                                                  *)
Reject(op) ==
    IF info[op.info].entry_gen = op.gen
    THEN /\ cache' = [cache EXCEPT ![info[op.info].key] = None]
         /\ info' = [Settled(op) EXCEPT ![op.info].alive = FALSE]
    ELSE UNCHANGED <<cache, info>>

(* ... or is heavier than the whole cache, ...                             *)
UpsertTooBig(op) ==
    /\ Candidate(op)
    /\ ~has_enough_capacity(op.new, counters)
    /\ op.new > MaxCapacity
    /\ IF info[op.info].entry_gen = op.gen THEN Reject(op) ELSE info' = Settled(op) /\ UNCHANGED cache
    /\ UNCHANGED <<probation, counters, contest>>

(* ... or meets the entries at the front of the deque.                     *)
UpsertContends(op) ==
    /\ Candidate(op)
    /\ ~has_enough_capacity(op.new, counters)
    /\ op.new <= MaxCapacity
    /\ LET cand == EntrySizeAndFrequency(op.new, sketch.freq[info[op.info].key])
           agg == Victims(cand)
           S == {agg.v.keys[n] : n \in DOMAIN agg.v.keys}
       IN IF admit(cand, agg.v)
          THEN /\ cache' = Unlinked(S)
               /\ info' = [Retire(S) EXCEPT ![op.info].admitted = TRUE, ![op.info].policy_gen = op.gen]
               /\ handle_admit(op.info, op.new, SelectSeq(agg.deq, LAMBDA j : j \notin S),
                               handle_remove(S, counters))
               /\ contest' = [cand |-> cand.freq,
                              victims |-> {sketch.freq[info[j].key] : j \in S}]
          ELSE /\ Reject(op)
               /\ probation' = agg.deq
               /\ UNCHANGED <<counters, contest>>

handle_upsert(op) ==
    /\ \/ UpsertRetired(op) \/ UpsertAdmitted(op) \/ UpsertFits(op) \/ UpsertTooBig(op)
       \/ UpsertContends(op)
    /\ write_op_ch' = Tail(write_op_ch)
    /\ UNCHANGED <<read_op_ch, published, sketch, mpc, ops>>

ApplyRemove(op) ==
    /\ mpc = "writes" /\ write_op_ch # <<>> /\ op = Head(write_op_ch) /\ op.op = "Remove"
    /\ IF info[op.info].admitted
       THEN /\ counters' = handle_remove({op.info}, counters)
            /\ probation' = Without(probation, op.info)
       ELSE UNCHANGED <<counters, probation>>
    /\ info' = [info EXCEPT ![op.info].admitted = FALSE, ![op.info].policy_gen = op.gen]
    /\ write_op_ch' = Tail(write_op_ch)
    /\ UNCHANGED <<cache, read_op_ch, published, sketch, mpc, contest, ops>>

apply_writes == write_op_ch # <<>> /\ LET op == Head(write_op_ch) IN handle_upsert(op) \/ ApplyRemove(op)

should_enable_frequency_sketch(c) ==
    /\ MaxCapacity # None /\ MaxCapacity # 0
    /\ ~sketch.enabled
    /\ c.weighted_size >= MaxCapacity \div 2

sketch_capacity(n) == Max({MinSketch, Min({n, MaxSketch})})

(* The quotient is computed with floats: one that is a whole number may    *)
(* come out a little less.                                                 *)
Estimates(c) ==
    LET n == c.entry_count * c.weighted_size
        q == n \div MaxCapacity
    IN {q} \cup IF q > 0 /\ n % MaxCapacity = 0 THEN {q - 1} ELSE {}

do_enable_frequency_sketch(cap) ==
    sketch' = [enabled |-> TRUE, cap |-> sketch_capacity(cap), freq |-> [k \in Keys |-> 0]]

enable_frequency_sketch(c) ==
    IF Weigher THEN \E cap \in Estimates(c) : do_enable_frequency_sketch(cap)
    ELSE do_enable_frequency_sketch(MaxCapacity)

WritesDone ==
    /\ mpc = "writes" /\ write_op_ch = <<>>
    /\ IF should_enable_frequency_sketch(counters) THEN enable_frequency_sketch(counters)
       ELSE UNCHANGED sketch
    /\ mpc' = "evict"
    /\ UNCHANGED <<storeVars, published, counters, contest, ops>>

evict_lru_entries ==
    /\ mpc = "evict"
    /\ weights_to_evict(counters) > 0 /\ probation # <<>>
    /\ LET i == Head(probation) IN
       /\ cache' = Unlinked({i})
       /\ info' = Retire({i})
       /\ counters' = handle_remove({i}, counters)
    /\ probation' = Tail(probation)
    /\ UNCHANGED <<read_op_ch, write_op_ch, published, sketch, mpc, contest, ops>>

(* The end of do_run_pending_tasks: the counters are stored.               *)
Publish ==
    /\ mpc = "evict"
    /\ ~(weights_to_evict(counters) > 0 /\ probation # <<>>)
    /\ published' = counters
    /\ mpc' = "idle"
    /\ UNCHANGED <<storeVars, counters, sketch, contest, ops>>

run_pending_tasks ==
    EvictionState \/ apply_reads \/ ReadsDone \/ apply_writes \/ WritesDone \/ evict_lru_entries \/ Publish

Next ==
    \/ \E k \in Keys : Invalidate(k) \/ Get(k) \/ \E w \in Weights : Insert(k, w)
    \/ run_pending_tasks

Spec == Init /\ [][Next]_vars
-----------------------------------------------------------------------------
AfterRun == mpc = "idle" /\ write_op_ch = <<>>
Cached == {k \in Keys : cache[k] # None}

(* After a maintenance run the cache reports the number and the total      *)
(* weight of the entries a caller can find, and these are the entries in   *)
(* the deque, whatever contests were won and lost on the way.              *)
SizesExact ==
    AfterRun => /\ published.entry_count = Cardinality(Cached)
                /\ published.weighted_size = WeightOf({cache[k] : k \in Cached})
                /\ {probation[n] : n \in DOMAIN probation} = {cache[k] : k \in Cached}

(* ... and their weight is at most max_capacity, also when updates made    *)
(* entries heavier.                                                        *)
WithinCapacity == AfterRun /\ MaxCapacity # None => published.weighted_size <= MaxCapacity

(* No entry loses its place to one that was read no more often: "The `>`   *)
(* operator will do a better job to prevent the main space from            *)
(* polluting."                                                             *)
NoPollution == \A f \in contest.victims : f < contest.cand

(* The popularity of entries is recorded from the end of the run that      *)
(* fills half of the cache on.                                             *)
SketchReady == AfterRun /\ published.weighted_size > 0 /\ 2 * published.weighted_size >= MaxCapacity
                 => sketch.enabled

(* The sketch is large enough for the entries of the cache: it "can        *)
(* accurately estimate the popularity of elements given the maximum size   *)
(* of the cache".                                                          *)
SketchFits == sketch.enabled => sketch.cap >= published.entry_count
=============================================================================

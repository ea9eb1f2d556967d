--------------------------- MODULE SegmentedCache ---------------------------
(***************************************************************************)
(* sync::SegmentedCache: a key is routed to one of several caches by the   *)
(* high bits of its hash, and calls about all entries visit the caches one *)
(* after the other; and the iterator of a cache (common/iter.rs), which    *)
(* takes the keys of one segment of one hash table after the other and     *)
(* looks every key up when it comes to it.                                 *)
(*                                                                         *)
(* A cache is what its users see: a map from keys to the time of the last  *)
(* write, the time of its last invalidate_all, and maintenance that may    *)
(* run at any time.  What goes on inside is the subject of BaseCache,      *)
(* Expiration and ValueInitializer.  HashBits stands for 64.               *)
(***************************************************************************)
EXTENDS Integers, FiniteSets, FiniteSetsExt

CONSTANTS Keys, Hash, HashBits,
          SegmentChoices,   \* the num_segments to build a cache with
          CapacityChoices,  \* the max_capacity to build it with, or None
          InvalidatorChoices,
          NumCht,           \* segments of the hash table of every cache
          Threads, Calls,   \* the calls each thread makes
          MaxOps,           \* bound on the calls of a thread
          Filled,           \* the keys there at the start
          PredKeys,         \* the keys of which the closure of invalidate_entries_if holds
          MaxTime, None

HashFits == Hash \in [Keys -> 0..2^HashBits - 1]

VARIABLES inner, now, segments, thr, cleared, settled

vars == <<inner, now, segments, thr, cleared, settled>>

Idle == [pc |-> "idle", seg |-> 0, key |-> None, at |-> 0, stale |-> FALSE, ops |-> 0, clean |-> FALSE,
         it |-> [keys |-> {}, cache_seg |-> 0, cht_seg |-> 0, out |-> {}, since |-> {}, twice |-> FALSE]]

next_power_of_two(n) == Min({m \in {2^i : i \in 0..HashBits} : m >= n})
trailing_zeros(m) == CHOOSE i \in 0..HashBits : 2^i = m
ceil_div(n, d) == (n + d - 1) \div d

(* The share of the capacity of each cache.                                *)
seg_max_capacity(n, num) == ceil_div(n, num)

(* Inner::new                                                              *)
new(num_segments, max_capacity, invalidator_enabled) ==
    LET actual == next_power_of_two(num_segments) IN
    [num |-> actual, shift |-> HashBits - trailing_zeros(actual), desired_capacity |-> max_capacity, invalidator |-> invalidator_enabled,
     seg_capacity |-> IF max_capacity = None THEN None ELSE seg_max_capacity(max_capacity, actual)]

(* The case of a single segment is kept out of the shift, which would be   *)
(* one by all bits.                                                        *)
segment_index_from_hash(hash) == IF inner.shift = HashBits THEN 0 ELSE hash \div 2^inner.shift

Init ==
    /\ \E n \in SegmentChoices, c \in CapacityChoices, b \in InvalidatorChoices : inner = new(n, c, b)
    /\ now = 0
    /\ segments = [i \in 0..inner.num - 1 |-> [map |-> [k \in Keys |-> IF k \in Filled /\ segment_index_from_hash(Hash[k]) = i THEN 0 ELSE None],
                                             valid_after |-> None, registered_at |-> None]]
    /\ thr = [t \in Threads |-> Idle]
    /\ cleared = [k \in Keys |-> 0]
    /\ settled = FALSE

is_map_disabled == inner.seg_capacity = 0
num_cht_segments == IF is_map_disabled THEN 1 ELSE NumCht

(* The segment of the hash table: it looks at the same bits of the hash.   *)
cht_segment(k) == Hash[k] \div 2^(HashBits - trailing_zeros(num_cht_segments))

is_invalid_entry(s, ts) == s.valid_after # None /\ ts < s.valid_after
is_invalidated_entry(s, k) == s.registered_at # None /\ k \in PredKeys /\ s.map[k] <= s.registered_at
Visible(s, k) == s.map[k] # None /\ ~is_invalid_entry(s, s.map[k]) /\ ~is_invalidated_entry(s, k)
VisibleKeys(segs) == {k \in Keys : \E i \in DOMAIN segs : Visible(segs[i], k)}
-----------------------------------------------------------------------------
MayCall(t, call) == thr[t].pc = "idle" /\ call \in Calls[t] /\ thr[t].ops < MaxOps[t]

(* Every step that changes the contents ends the claim of an iterator on   *)
(* the keys it makes invisible.                                            *)
Observed(th) == [u \in Threads |-> [th[u] EXCEPT !.it.since = @ \cap VisibleKeys(segments')]]

(* The segment of a key, or None for an index that is out of bounds.       *)
select(k) ==
    LET i == segment_index_from_hash(Hash[k]) IN IF i \in DOMAIN segments THEN i ELSE None

Return(t) == [thr EXCEPT ![t].pc = "idle", ![t].ops = @ + 1]
Got(th, t, k, ts) == [th EXCEPT ![t].stale = @ \/ ts < cleared[k]]

Read(t, i, k) ==
    /\ thr' = IF Visible(segments[i], k) THEN Got(Return(t), t, k, segments[i].map[k]) ELSE Return(t)
    /\ UNCHANGED <<segments, settled>>

(* do_insert_with_hash; an insertion ends what run_pending_tasks achieved. *)
Write(t, i, k) ==
    /\ segments' = IF is_map_disabled THEN segments ELSE [segments EXCEPT ![i].map[k] = now]
    /\ thr' = Observed([u \in Threads |-> [Return(t)[u] EXCEPT !.clean = FALSE]])
    /\ settled' = FALSE

GetOrInsert(t, i, k) == IF Visible(segments[i], k) THEN Read(t, i, k) ELSE Write(t, i, k)

(* A call that involves one key, made at the segment select returns.       *)
KeyCall(t, call, Call(_, _)) ==
    /\ MayCall(t, call)
    /\ \E k \in Keys :
           IF select(k) # None THEN Call(select(k), k)
           ELSE thr' = [thr EXCEPT ![t].pc = "panic"] /\ UNCHANGED <<segments, settled>>
    /\ UNCHANGED <<inner, now, cleared>>

contains_key(t) == KeyCall(t, "get", LAMBDA i, k : Read(t, i, k))
get(t) == KeyCall(t, "get", LAMBDA i, k : Read(t, i, k))
insert(t) == KeyCall(t, "insert", LAMBDA i, k : Write(t, i, k))
get_with(t) == KeyCall(t, "get_with", LAMBDA i, k : GetOrInsert(t, i, k))
get_with_by_ref(t) == get_with(t)

(* replace_if holds of the value, or it does not.                          *)
get_with_if(t) == KeyCall(t, "get_with_if", LAMBDA i, k : GetOrInsert(t, i, k) \/ Write(t, i, k))

(* init gives a value, or None or an error.                                *)
optionally_get_with(t) == KeyCall(t, "try_get_with", LAMBDA i, k : GetOrInsert(t, i, k) \/ Read(t, i, k))
optionally_get_with_by_ref(t) == optionally_get_with(t)
try_get_with(t) == KeyCall(t, "try_get_with", LAMBDA i, k : GetOrInsert(t, i, k) \/ Read(t, i, k))
try_get_with_by_ref(t) == try_get_with(t)

(* invalidate_with_hash                                                    *)
Remove(t, i, k) ==
    /\ segments' = [segments EXCEPT ![i].map[k] = None]
    /\ thr' = Observed(Return(t))
    /\ UNCHANGED settled

invalidate(t) == KeyCall(t, "invalidate", LAMBDA i, k : Remove(t, i, k))
remove(t) == KeyCall(t, "invalidate", LAMBDA i, k : Remove(t, i, k))

(* entry chooses the segment; what is done with the entry comes later.     *)
entry(t) ==
    KeyCall(t, "entry", LAMBDA i, k : /\ thr' = [thr EXCEPT ![t].pc = "entry", ![t].seg = i, ![t].key = k]
                                      /\ UNCHANGED <<segments, settled>>)
entry_by_ref(t) == entry(t)
or_insert_with(t) ==
    /\ thr[t].pc = "entry"
    /\ GetOrInsert(t, thr[t].seg, thr[t].key)
    /\ UNCHANGED <<inner, now, cleared>>
-----------------------------------------------------------------------------
(* Calls that go over the segments.                                        *)
Begin(t, call, pc) ==
    /\ MayCall(t, call)
    /\ thr' = [thr EXCEPT ![t] = [@ EXCEPT !.pc = pc, !.seg = 0, !.at = now, !.clean = TRUE]]
    /\ UNCHANGED <<inner, now, segments, cleared, settled>>

(* Every cache takes the time for itself.                                  *)
invalidate_all(t) ==
    LET i == thr[t].seg IN
    /\ thr[t].pc = "invalidate_all"
    /\ IF i = inner.num
       THEN /\ thr' = Return(t)
            /\ cleared' = [k \in Keys |-> Max({cleared[k], thr[t].at})]
            /\ UNCHANGED segments
       ELSE /\ segments' = [segments EXCEPT ![i].valid_after = now]
            /\ thr' = Observed([thr EXCEPT ![t].seg = i + 1])
            /\ UNCHANGED cleared
    /\ UNCHANGED <<inner, now, settled>>

(* All caches are built alike: if closures are disabled the first refuses. *)
invalidate_entries_if(t) ==
    LET i == thr[t].seg IN
    /\ thr[t].pc = "invalidate_entries_if"
    /\ IF ~inner.invalidator THEN thr' = Return(t) /\ UNCHANGED <<segments, cleared>>
       ELSE IF i = inner.num
       THEN /\ thr' = Return(t)
            /\ cleared' = [k \in Keys |-> IF k \in PredKeys THEN Max({cleared[k], thr[t].at + 1}) ELSE cleared[k]]
            /\ UNCHANGED segments
       ELSE /\ segments' = [segments EXCEPT ![i].registered_at = now]
            /\ thr' = Observed([thr EXCEPT ![t].seg = i + 1])
            /\ UNCHANGED cleared
    /\ UNCHANGED <<inner, now, settled>>

(* Maintenance of a cache: invalid entries go, and as many others as are   *)
(* over its capacity, chosen by its policy.                                *)
Maintain(i) ==
    LET s == segments[i]
        valid == {k \in Keys : Visible(s, k)}
        over == IF inner.seg_capacity = None \/ Cardinality(valid) <= inner.seg_capacity
                THEN 0 ELSE Cardinality(valid) - inner.seg_capacity
    IN \E out \in kSubset(over, valid) :
          segments' = [segments EXCEPT ![i].map = [k \in Keys |-> IF k \in valid \ out THEN @[k] ELSE None]]

run_pending_tasks(t) ==
    LET i == thr[t].seg IN
    /\ thr[t].pc = "run_pending_tasks"
    /\ IF i = inner.num
       THEN /\ thr' = Return(t)
            /\ settled' = (settled \/ thr[t].clean)
            /\ UNCHANGED segments
       ELSE /\ Maintain(i)
            /\ thr' = Observed([thr EXCEPT ![t].seg = i + 1])
            /\ UNCHANGED settled
    /\ UNCHANGED <<inner, now, cleared>>

(* Maintenance that another call drives.                                   *)
Housekeeping ==
    /\ \E i \in DOMAIN segments : Maintain(i) /\ segments' # segments
    /\ thr' = Observed(thr)
    /\ UNCHANGED <<inner, now, cleared, settled>>

Tick == now < MaxTime /\ now' = now + 1 /\ UNCHANGED <<inner, segments, thr, cleared, settled>>
-----------------------------------------------------------------------------
(* iter                                                                    *)
iter(t) ==
    /\ MayCall(t, "iter")
    /\ thr' = [thr EXCEPT ![t] = [@ EXCEPT !.pc = "iter", !.it = [Idle.it EXCEPT !.since = VisibleKeys(segments)]]]
    /\ UNCHANGED <<inner, now, segments, cleared, settled>>

(* ScanningGet::keys: also keys of entries that are not valid any more.    *)
keys(i, j) == {k \in Keys : segments[i].map[k] # None /\ cht_segment(k) = j}

current_keys_stuck(t) ==
    LET it == thr[t].it
        wrap == it.cht_seg + 1 >= num_cht_segments
        i == IF wrap THEN it.cache_seg + 1 ELSE it.cache_seg
        j == IF wrap THEN 0 ELSE it.cht_seg
    IN /\ thr[t].pc = "iter"
       /\ it.keys = {}
       /\ thr' = IF i >= inner.num THEN Return(t)
                 ELSE [thr EXCEPT ![t].it = [@ EXCEPT !.keys = keys(i, j), !.cache_seg = i, !.cht_seg = j + 1]]
       /\ UNCHANGED <<inner, now, segments, cleared, settled>>

(* current_keys: the keys of the next segment of the table, or of the next *)
(* cache.                                                                  *)
current_keys(t) ==
    LET it == thr[t].it
        wrap == it.cht_seg >= num_cht_segments
        i == IF wrap THEN it.cache_seg + 1 ELSE it.cache_seg
        j == IF wrap THEN 0 ELSE it.cht_seg
    IN /\ thr[t].pc = "iter"
       /\ it.keys = {}
       /\ thr' = IF i >= inner.num THEN Return(t)
                 ELSE [thr EXCEPT ![t].it = [@ EXCEPT !.keys = keys(i, j), !.cache_seg = i, !.cht_seg = j + 1]]
       /\ UNCHANGED <<inner, now, segments, cleared, settled>>

(* next: a key is taken, looked up, and returned if it is there.           *)
next(t) ==
    LET it == thr[t].it IN
    /\ thr[t].pc = "iter"
    /\ \E k \in it.keys :
          LET s == segments[it.cache_seg] IN
          thr' = IF Visible(s, k)
                 THEN Got([thr EXCEPT ![t].it = [@ EXCEPT !.keys = @ \ {k}, !.out = @ \cup {k}, !.twice = @ \/ k \in it.out]],
                          t, k, s.map[k])
                 ELSE [thr EXCEPT ![t].it.keys = @ \ {k}]
    /\ UNCHANGED <<inner, now, segments, cleared, settled>>

Next ==
    \/ Tick
    \/ Housekeeping
    \/ \E t \in Threads :
          \/ get(t) \/ contains_key(t) \/ insert(t) \/ invalidate(t) \/ remove(t)
          \/ get_with(t) \/ get_with_by_ref(t) \/ get_with_if(t) \/ optionally_get_with(t)
          \/ optionally_get_with_by_ref(t) \/ try_get_with(t) \/ try_get_with_by_ref(t)
          \/ entry(t) \/ entry_by_ref(t) \/ or_insert_with(t)
          \/ Begin(t, "invalidate_all", "invalidate_all") \/ invalidate_all(t)
          \/ Begin(t, "invalidate_entries_if", "invalidate_entries_if") \/ invalidate_entries_if(t)
          \/ Begin(t, "run_pending_tasks", "run_pending_tasks") \/ run_pending_tasks(t)
          \/ iter(t) \/ current_keys(t) \/ next(t)

Spec == Init /\ [][Next]_vars
-----------------------------------------------------------------------------
(* select finds a segment for every hash, with one segment as with many.   *)
NoPanic == \A t \in Threads : thr[t].pc # "panic"

(* No value is returned that was written before an invalidate_all began    *)
(* that has ended, nor one that was there when an invalidate_entries_if    *)
(* began that has ended, although both visit segment after segment.        *)
NoneStale == \A t \in Threads : ~thr[t].stale

(* An iterator that has ended returned every key whose entry was there to  *)
(* be read from its creation on, whatever was inserted, removed, evicted   *)
(* and invalidated meanwhile.                                              *)
IterComplete == \A t \in Threads : thr[t].pc = "idle" => thr[t].it.since \subseteq thr[t].it.out

(* An iterator returns no key twice, although it takes the keys of the     *)
(* segments at different times.                                            *)
IterOnce == \A t \in Threads : ~thr[t].it.twice

EntryCount == MapThenSumSet(LAMBDA i : Cardinality({k \in Keys : segments[i].map[k] # None}), DOMAIN segments)

(* After run_pending_tasks, with no insertion since it began, the entries  *)
(* are at most as many as max_capacity, but for the rounding up of the     *)
(* share of each segment.                                                  *)
WithinRounding ==
    settled /\ inner.desired_capacity # None => EntryCount <= inner.desired_capacity + inner.num - 1

(* "will store up to the `max_capacity`", as SegmentedCache::new says.     *)
WithinCapacity ==
    settled /\ inner.desired_capacity # None => EntryCount <= inner.desired_capacity
=============================================================================

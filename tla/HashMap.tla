------------------------------ MODULE HashMap -------------------------------
(***************************************************************************)
(* The segmented hash table (cht/segment.rs) and its iterator              *)
(* (cht/iter.rs).  A key is routed to a segment by the high bits of its    *)
(* hash.  What an operation does there takes place at one instant (Cht     *)
(* shows that); the length of the segment and that of the table follow,    *)
(* each in a step of its own.  HashBits stands for 64, LenMod for 2^64.    *)
(***************************************************************************)
EXTENDS Integers, FiniteSets, FiniteSetsExt

CONSTANTS Keys, Hash, HashBits, LenMod,
          SegmentChoices,    \* the num_segments to make a table with
          CapacityChoices,   \* and the capacity
          DefaultLength,     \* the length of the first array of a table made with capacity 0
          Threads, Calls, MaxOps, None

VARIABLES segments, num_segments, segment_shift, len, thr,
          capacity   \* what the table was made with

vars == <<segments, num_segments, segment_shift, len, thr, capacity>>

Idle == [pc |-> "idle", key |-> None, delta |-> 0, ops |-> 0,
         it |-> [keys |-> {}, seg_index |-> 0, out |-> {}, since |-> {}, twice |-> FALSE]]

next_power_of_two(n) == Min({m \in {2^i : i \in 0..2 * HashBits} : m >= n})
trailing_zeros(m) == CHOOSE i \in 0..HashBits : 2^i = m

with_num_segments_capacity_and_hasher(num, cap) ==
    LET actual_num_segments == next_power_of_two(num)
        actual_capacity == IF cap = 0 THEN 0 ELSE next_power_of_two((cap * 2) \div actual_num_segments)
    IN /\ num_segments = actual_num_segments
       /\ segment_shift = HashBits - trailing_zeros(actual_num_segments)
       /\ segments = [i \in 0..actual_num_segments - 1 |-> [map |-> {}, len |-> 0, length |-> actual_capacity]]
       /\ capacity = cap

Init ==
    /\ \E n \in SegmentChoices, c \in CapacityChoices : with_num_segments_capacity_and_hasher(n, c)
    /\ len = 0
    /\ thr = [t \in Threads |-> Idle]

segment_index_from_hash(hash) == IF segment_shift = HashBits THEN 0 ELSE hash \div 2^segment_shift
bucket_array_ref(k) == segment_index_from_hash(Hash[k])

Contents == UNION {segments[i].map : i \in DOMAIN segments}
Plus(n, d) == (n + d + LenMod) % LenMod
-----------------------------------------------------------------------------
MayCall(t, call) == thr[t].pc = "idle" /\ call \in Calls[t] /\ thr[t].ops < MaxOps
Return(t) == [thr EXCEPT ![t].pc = "idle", ![t].ops = @ + 1]
Observed(th) == [u \in Threads |-> [th[u] EXCEPT !.it.since = @ \cap UNION {segments'[i].map : i \in DOMAIN segments}]]

(* Reading changes nothing.                                                *)
get_key_value_and_then(t) ==
    /\ MayCall(t, "get")
    /\ thr' = Return(t)
    /\ UNCHANGED <<segments, num_segments, segment_shift, len, capacity>>

contains_key(t) == get_key_value_and_then(t)
get(t) == get_key_value_and_then(t)
get_key_value_and(t) == get_key_value_and_then(t)
scanning_get(t) == get_key_value_and_then(t)

(* The array of the segment is made, or made longer, before an insertion.  *)
grown(s) ==
    IF s.length = 0 THEN DefaultLength
    ELSE IF 10 * s.len > 7 * s.length THEN 2 * s.length ELSE s.length

insert_with_or_modify_entry_and(t) ==
    /\ MayCall(t, "insert")
    /\ \E k \in Keys : LET i == bucket_array_ref(k) IN
          /\ segments' = [segments EXCEPT ![i] = [@ EXCEPT !.map = @ \cup {k}, !.length = grown(segments[i])]]
          /\ thr' = IF k \in segments[i].map THEN Return(t)
                    ELSE [thr EXCEPT ![t].pc = "segment_len", ![t].key = k, ![t].delta = 1]
    /\ UNCHANGED <<num_segments, segment_shift, len, capacity>>

insert_entry_and(t) == insert_with_or_modify_entry_and(t)
insert_with_or_modify(t) == insert_with_or_modify_entry_and(t)
insert_if_not_present(t) == insert_with_or_modify_entry_and(t)

(* The condition holds of an entry that is there.                          *)
remove_entry_if_and(t) ==
    /\ MayCall(t, "remove")
    /\ \E k \in Keys : LET i == bucket_array_ref(k) IN
          /\ k \in segments[i].map
          /\ segments' = [segments EXCEPT ![i].map = @ \ {k}]
          /\ thr' = Observed([thr EXCEPT ![t].pc = "segment_len", ![t].key = k, ![t].delta = -1])
    /\ UNCHANGED <<num_segments, segment_shift, len, capacity>>

remove(t) == remove_entry_if_and(t)
remove_if(t) == remove_entry_if_and(t)

SegmentLen(t) ==
    /\ thr[t].pc = "segment_len"
    /\ segments' = [segments EXCEPT ![bucket_array_ref(thr[t].key)].len = Plus(@, thr[t].delta)]
    /\ thr' = [thr EXCEPT ![t].pc = "len"]
    /\ UNCHANGED <<num_segments, segment_shift, len, capacity>>

MapLen(t) ==
    /\ thr[t].pc = "len"
    /\ len' = Plus(len, thr[t].delta)
    /\ thr' = Return(t)
    /\ UNCHANGED <<segments, num_segments, segment_shift, capacity>>
-----------------------------------------------------------------------------
(* Iter::with_single_cache_segment                                         *)
iter(t) ==
    /\ MayCall(t, "iter")
    /\ thr' = [thr EXCEPT ![t] = [@ EXCEPT !.pc = "iter", !.it = [Idle.it EXCEPT !.since = Contents]]]
    /\ UNCHANGED <<segments, num_segments, segment_shift, len, capacity>>

(* None if there is no such segment.                                       *)
keys(i) == IF i >= num_segments THEN None ELSE segments[i].map

current_keys(t) ==
    LET it == thr[t].it IN
    /\ thr[t].pc = "iter"
    /\ it.keys = {}
    /\ thr' = IF it.seg_index >= num_segments THEN Return(t)
              ELSE [thr EXCEPT ![t].it = [@ EXCEPT !.keys = keys(it.seg_index), !.seg_index = @ + 1]]
    /\ UNCHANGED <<segments, num_segments, segment_shift, len, capacity>>

next(t) ==
    /\ thr[t].pc = "iter"
    /\ \E k \in thr[t].it.keys :
          thr' = IF k \in segments[bucket_array_ref(k)].map
                 THEN [thr EXCEPT ![t].it = [@ EXCEPT !.keys = @ \ {k}, !.out = @ \cup {k}, !.twice = @ \/ k \in thr[t].it.out]]
                 ELSE [thr EXCEPT ![t].it.keys = @ \ {k}]
    /\ UNCHANGED <<segments, num_segments, segment_shift, len, capacity>>

Next ==
    \E t \in Threads :
       \/ contains_key(t) \/ get(t) \/ get_key_value_and(t) \/ scanning_get(t)
       \/ insert_entry_and(t) \/ insert_with_or_modify(t) \/ insert_if_not_present(t)
       \/ remove(t) \/ remove_if(t) \/ SegmentLen(t) \/ MapLen(t)
       \/ iter(t) \/ current_keys(t) \/ next(t)

Spec == Init /\ [][Next]_vars
-----------------------------------------------------------------------------
InFlight(pcs) == MapThenSumSet(LAMBDA t : IF thr[t].pc \in pcs THEN thr[t].delta ELSE 0, Threads)

(* len and the lengths of the segments differ from the number of entries   *)
(* only by the operations that have not been counted yet: they agree with  *)
(* it whenever no insertion or removal is under way.                       *)
LenAccounts ==
    /\ Plus(len, InFlight({"segment_len", "len"})) = Cardinality(Contents)
    /\ Plus(MapThenSumSet(LAMBDA i : segments[i].len, DOMAIN segments) % LenMod, InFlight({"segment_len"})) = Cardinality(Contents)

(* An iterator that has ended returned every key that was there all the    *)
(* time, whichever segment it is in.                                       *)
IterComplete == \A t \in Threads : thr[t].pc = "idle" => thr[t].it.since \subseteq thr[t].it.out

(* "The hash map will be able to hold at least `capacity` elements without *)
(* reallocating any bucket pointer arrays", as the comment on              *)
(* with_num_segments_capacity_and_hasher says.                             *)
CapacityHolds ==
    [][capacity > 0 /\ Cardinality(Contents') <= capacity
       => \A i \in DOMAIN segments : segments'[i].length = segments[i].length]_vars
=============================================================================

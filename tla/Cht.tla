--------------------------------- MODULE Cht ---------------------------------
(***************************************************************************)
(* A segment of the concurrent hash table: cht/map/bucket.rs and           *)
(* cht/map/bucket_array_ref.rs.  A bucket array is probed linearly and     *)
(* changed by compare-and-swap; a rehash copies it, bucket by bucket, to   *)
(* the next array while the other threads go on, and leaves sentinels.     *)
(*                                                                         *)
(* The next array belongs to the holder of the rehash lock until all       *)
(* buckets are sentinels, so that a search in it is one step.  Memory is   *)
(* freed when the threads that are in the table have left it; what has     *)
(* been handed over for that is in mem.                                    *)
(***************************************************************************)
EXTENDS Naturals, Integers, Sequences, FiniteSetsExt

CONSTANTS Threads, Keys, None,
          Hash,           \* the hash of a key
          InitLen,        \* the length of the first bucket array
          Filled,         \* the keys that are in it, by bucket
          DefaultLength,  \* BUCKET_ARRAY_DEFAULT_LENGTH
          LenMod,         \* 2^64, the modulus of the segment's len
          MaxLength,      \* bound: an array of this length is not expanded
          MaxOps,         \* bound: operations of a thread
          Ops             \* the operations in use

VARIABLES
    arrays,    \* the bucket arrays, by epoch
    current,   \* the one bucket_array points to, 0 if it is null
    len,
    thr,
    mem        \* what was made, and what was handed over to be freed

vars == <<arrays, current, len, thr, mem>>

NullPtr == [b |-> None, tags |-> {}]
SentinelPtr == [b |-> None, tags |-> {"SENTINEL"}]
is_sentinel(p) == "SENTINEL" \in p.tags
is_tombstone(p) == "TOMBSTONE" \in p.tags
is_borrowed(p) == "BORROWED" \in p.tags
with_tag(p, tag) == [p EXCEPT !.tags = @ \cup {tag}]
Untagged(b) == [b |-> b, tags |-> {}]

with_length(n) == [buckets |-> [i \in 0..n - 1 |-> NullPtr], tombs |-> 0, lock |-> None]
Length(a) == Cardinality(DOMAIN a.buckets)

Idle == [pc |-> "idle", op |-> None, key |-> None, cur |-> 0, ref |-> 0, i |-> 0, seen |-> NullPtr,
         rehash_op |-> None, copied |-> None, keys |-> <<>>, res |-> None, n |-> 0]

(* The table is empty, or has got the keys in Filled.                      *)
Initial == {[key |-> Filled[i], val |-> <<None, 0>>] : i \in DOMAIN Filled}

Init ==
    /\ arrays = IF Filled = <<>> THEN <<>>
                ELSE <<[with_length(InitLen) EXCEPT !.buckets = [i \in 0..InitLen - 1 |->
                           IF i \in DOMAIN Filled THEN Untagged([key |-> Filled[i], val |-> <<None, 0>>]) ELSE NullPtr]]>>
    /\ current = Len(arrays)
    /\ len = Cardinality(DOMAIN Filled)
    /\ thr = [t \in Threads |-> Idle]
    /\ mem = [made |-> Initial, freed |-> {}, values |-> {}, arrays |-> {}, twice |-> FALSE, dropped |-> FALSE,
              since |-> [t \in Threads |-> {}]]

(* The value a thread's insertion makes, and the bucket it is in.          *)
NewBucket(t) == [key |-> thr[t].key, val |-> <<t, thr[t].n>>]

free_bucket(m, b) == [m EXCEPT !.freed = @ \cup {b}, !.twice = @ \/ b \in m.freed]
free_value(m, b) == [m EXCEPT !.values = @ \cup {b}, !.twice = @ \/ b \in m.values]

(* The value of a tombstone was destroyed when it was made one.            *)
defer_destroy_bucket(m, p) ==
    IF is_tombstone(p) THEN free_bucket(m, p.b) ELSE free_value(free_bucket(m, p.b), p.b)
defer_destroy_tombstone(m, p) == free_value(m, p.b)
-----------------------------------------------------------------------------
(* The value of a pointer, and of a key: that of the first array that has  *)
(* not relocated the key.                                                  *)
Live(p) == IF p.b = None \/ is_tombstone(p) THEN None ELSE p.b.val

Value(k) ==
    LET at(e) == {i \in DOMAIN arrays[e].buckets : arrays[e].buckets[i].b # None /\ arrays[e].buckets[i].b.key = k}
        holders == {e \in DOMAIN arrays : at(e) # {}}
    IN IF holders = {} THEN None ELSE Live(arrays[Min(holders)].buckets[CHOOSE i \in at(Min(holders)) : TRUE])

(* RehashOp::new, with its fractions of 1/10, 1/4 and 7/10.                *)
RehashOp(a) ==
    LET real_cap == Length(a) IN
    IF a.tombs >= 25000 \/ 10 * a.tombs >= real_cap
    THEN IF 4 * (len - a.tombs) < real_cap /\ real_cap \div 4 >= DefaultLength THEN "Shrink" ELSE "GcOnly"
    ELSE IF 10 * len > 7 * real_cap /\ 2 * real_cap <= MaxLength THEN "Expand" ELSE "Skip"

new_len(op, n) ==
    CASE op = "Expand" -> n * 2 [] op = "Shrink" -> n \div 2 [] op = "GcOnly" -> n

(* The index of the i-th bucket a search for key k looks at.               *)
probe(a, k, i) == (Hash[k] + i) % Length(a)

(* Where a thread goes on after a rehash, of which only updates ask first  *)
(* whether one is due.                                                     *)
Resume(t, r) == [thr EXCEPT ![t] = [r EXCEPT !.pc = IF r.op \in {"get", "keys"} THEN "probe" ELSE "check",
                                             !.i = 0, !.keys = <<>>, !.copied = None, !.seen = NullPtr]]
Goto(t, pc) == thr' = [thr EXCEPT ![t].pc = pc]
Finish(t, res) == thr' = [thr EXCEPT ![t].pc = "swing", ![t].res = res]
Array(t) == arrays[thr[t].ref]
At(t) == probe(Array(t), thr[t].key, thr[t].i)

(* An operation begins with BucketArrayRef::get.                           *)
Begin(t, op, k) ==
    /\ thr[t].pc = "idle"
    /\ thr[t].n < MaxOps[t]
    /\ arrays' = IF current = 0 THEN <<with_length(InitLen)>> ELSE arrays
    /\ current' = IF current = 0 THEN 1 ELSE current
    /\ thr' = Resume(t, [Idle EXCEPT !.op = op, !.key = k, !.n = thr[t].n, !.cur = current', !.ref = current'])
    /\ mem' = [mem EXCEPT !.since[t] = IF op = "keys" THEN {j \in Keys : Value(j) # None} ELSE {}]
    /\ UNCHANGED len

Check(t) ==
    /\ thr[t].pc = "check"
    /\ LET op == RehashOp(Array(t)) IN
       thr' = [thr EXCEPT ![t].pc = IF op = "Skip" THEN "probe" ELSE "rehash", ![t].rehash_op = op]
    /\ UNCHANGED <<arrays, current, len, mem>>
-----------------------------------------------------------------------------
(* The arrays, with one more if this is the last.                          *)
next_array(t) ==
    IF thr[t].ref < Len(arrays) THEN arrays
    ELSE Append(arrays, with_length(new_len(thr[t].rehash_op, Length(Array(t)))))

(* rehash: a thread that finds the lock taken waits for it and looks again.*)
RehashLock(t) ==
    /\ thr[t].pc = "rehash"
    /\ IF Array(t).lock # None THEN Goto(t, "wait") /\ UNCHANGED arrays
       ELSE /\ arrays' = [next_array(t) EXCEPT ![thr[t].ref].lock = t]
            /\ thr' = [thr EXCEPT ![t].pc = "copy", ![t].i = 0, ![t].copied = None]
    /\ UNCHANGED <<current, len, mem>>

RehashWait(t) ==
    /\ thr[t].pc = "wait"
    /\ Array(t).lock = None
    /\ thr' = Resume(t, thr[t])
    /\ UNCHANGED <<arrays, current, len, mem>>

(* The bucket insert_for_grow puts p in, or None.                          *)
insert_for_grow(a, p) ==
    LET k == p.b.key
        hits == {i \in 0..Length(a) - 1 : LET q == a.buckets[probe(a, k, i)] IN q.b = None \/ q.b.key = k}
    IN IF hits = {} THEN None
       ELSE LET i == probe(a, k, Min(hits))
                q == a.buckets[i]
            IN IF q = p \/ (q.b # None /\ ~is_borrowed(q)) \/ (q.b = None /\ is_tombstone(p)) THEN None ELSE i

(* A bucket is loaded and put into the next array.  If it changed after it *)
(* was put there it is put in the same place again.                        *)
CopyLoad(t) == LET p == Array(t).buckets[thr[t].i]
                   to_put == with_tag(p, "BORROWED")
                   r == thr[t]
                   next == arrays[r.ref + 1]
               IN
    /\ r.pc = "copy"
    /\ r.i < Length(Array(t))
    /\ IF is_sentinel(p) THEN thr' = [thr EXCEPT ![t].i = @ + 1] /\ UNCHANGED arrays
       ELSE IF r.copied # None
       THEN /\ arrays' = IF is_borrowed(next.buckets[r.copied]) THEN [arrays EXCEPT ![r.ref + 1].buckets[r.copied] = to_put] ELSE arrays
            /\ thr' = [thr EXCEPT ![t].pc = "seal", ![t].seen = p]
       ELSE LET i == IF p.b = None THEN None ELSE insert_for_grow(next, to_put) IN
            /\ arrays' = IF i = None THEN arrays ELSE [arrays EXCEPT ![r.ref + 1].buckets[i] = to_put]
            /\ thr' = [thr EXCEPT ![t].pc = "seal", ![t].seen = p, ![t].copied = i]
    /\ UNCHANGED <<current, len, mem>>

CopySeal_unchecked(t) == LET r == thr[t] IN
    /\ r.pc = "seal"
    /\ arrays' = [arrays EXCEPT ![r.ref].buckets[r.i] = SentinelPtr]
    /\ mem' = IF r.seen.b # None /\ is_tombstone(r.seen) /\ r.copied = None THEN defer_destroy_bucket(mem, r.seen) ELSE mem
    /\ thr' = [thr EXCEPT ![t].pc = "copy", ![t].i = @ + 1, ![t].copied = None, ![t].seen = NullPtr]
    /\ UNCHANGED <<current, len>>

CopySeal_copied(t) == LET r == thr[t] IN
    /\ r.pc = "seal"
    /\ IF Array(t).buckets[r.i] = r.seen
       THEN /\ arrays' = [arrays EXCEPT ![r.ref].buckets[r.i] = SentinelPtr]
            /\ mem' = IF r.seen.b # None /\ is_tombstone(r.seen) THEN defer_destroy_bucket(mem, r.seen) ELSE mem
            /\ thr' = [thr EXCEPT ![t].pc = "copy", ![t].i = @ + 1, ![t].copied = None, ![t].seen = NullPtr]
       ELSE thr' = [thr EXCEPT ![t].pc = "copy", ![t].seen = NullPtr] /\ UNCHANGED <<arrays, mem>>
    /\ UNCHANGED <<current, len>>

(* The bucket becomes a sentinel if it is still what was copied.           *)
CopySeal(t) == LET r == thr[t] IN
    /\ r.pc = "seal"
    /\ IF Array(t).buckets[r.i] = r.seen
       THEN /\ arrays' = [arrays EXCEPT ![r.ref].buckets[r.i] = SentinelPtr]
            /\ mem' = IF r.seen.b # None /\ is_tombstone(r.seen) /\ r.copied = None THEN defer_destroy_bucket(mem, r.seen) ELSE mem
            /\ thr' = [thr EXCEPT ![t].pc = "copy", ![t].i = @ + 1, ![t].copied = None, ![t].seen = NullPtr]
       ELSE thr' = [thr EXCEPT ![t].pc = "copy", ![t].seen = NullPtr] /\ UNCHANGED <<arrays, mem>>
    /\ UNCHANGED <<current, len>>

RehashDone(t) ==
    /\ thr[t].pc = "copy"
    /\ thr[t].i = Length(Array(t))
    /\ arrays' = [arrays EXCEPT ![thr[t].ref].lock = None]
    /\ thr' = Resume(t, [thr[t] EXCEPT !.ref = @ + 1])
    /\ UNCHANGED <<current, len, mem>>

rehash(t) == RehashLock(t) \/ RehashWait(t) \/ CopyLoad(t) \/ CopySeal(t) \/ RehashDone(t)
-----------------------------------------------------------------------------
Relocated(t) == thr' = [thr EXCEPT ![t].pc = "rehash", ![t].rehash_op = "Expand"]

(* The search went past all buckets.                                       *)
Exhausted(t) ==
    IF thr[t].op \in {"insert", "insert_if_not_present"} THEN Relocated(t) ELSE Finish(t, None)

Try(t, p) == thr' = [thr EXCEPT ![t].pc = "cas", ![t].seen = p]

(* What each operation does when it found the bucket of its key, or the    *)
(* first that is empty, with p in it.                                      *)
get(t, p) ==
    /\ thr[t].op = "get"
    /\ Finish(t, Live(p))

(* The condition is false of the value, or it is true of it.               *)
remove_if(t, p) ==
    /\ thr[t].op = "remove_if"
    /\ \/ Finish(t, None)
       \/ Live(p) # None /\ Try(t, p)

insert_if_not_present(t, p) ==
    /\ thr[t].op = "insert_if_not_present"
    /\ IF Live(p) # None THEN Finish(t, Live(p)) ELSE Try(t, p)

insert_or_modify(t, p) ==
    /\ thr[t].op = "insert"
    /\ Try(t, p)

Probe(t) == LET p == Array(t).buckets[At(t)] IN
    /\ thr[t].pc = "probe"
    /\ thr[t].op # "keys"
    /\ IF is_sentinel(p) THEN Relocated(t)
       ELSE IF p.b = None \/ p.b.key = thr[t].key THEN get(t, p) \/ remove_if(t, p) \/ insert_if_not_present(t, p) \/ insert_or_modify(t, p)
       ELSE IF thr[t].i + 1 < Length(Array(t)) THEN thr' = [thr EXCEPT ![t].i = @ + 1]
       ELSE Exhausted(t)
    /\ UNCHANGED <<arrays, current, len, mem>>

(* The compare-and-swap of remove_if and of the insertions.                *)
Cas(t) == LET r == thr[t] IN
    /\ r.pc = "cas"
    /\ IF Array(t).buckets[At(t)] # r.seen THEN Goto(t, "probe") /\ UNCHANGED <<arrays, mem>>
       ELSE /\ arrays' = [arrays EXCEPT ![r.ref].buckets[At(t)] =
                            IF r.op = "remove_if" THEN [r.seen EXCEPT !.tags = {"TOMBSTONE"}] ELSE Untagged(NewBucket(t))]
            /\ thr' = [thr EXCEPT ![t].pc = "count", ![t].res = Live(r.seen)]
            /\ mem' = IF r.op = "remove_if" THEN [mem EXCEPT !.since = [u \in Threads |-> @[u] \ {r.key}]]
                      ELSE [mem EXCEPT !.made = @ \cup {NewBucket(t)}]
    /\ UNCHANGED <<current, len>>

Add(n) == len' = (len + n + LenMod) % LenMod

(* What remove_entry_if_and and the insertions do once they succeeded.     *)
Count(t) == LET r == thr[t] IN
    /\ r.pc = "count"
    /\ IF r.op = "remove_if"
       THEN /\ Add(-1)
            /\ arrays' = [arrays EXCEPT ![r.ref].tombs = @ + 1]
            /\ mem' = defer_destroy_tombstone(mem, r.seen)
       ELSE /\ Add(IF r.res = None THEN 1 ELSE 0)
            /\ mem' = IF r.seen.b = None THEN mem ELSE defer_destroy_bucket(mem, r.seen)
            /\ UNCHANGED arrays
    /\ Goto(t, "swing")
    /\ UNCHANGED current

get_key_value_and_then(t) == \E k \in Keys : Begin(t, "get", k)
remove_entry_if_and(t) == \E k \in Keys : Begin(t, "remove_if", k)
insert_if_not_present_and(t) == \E k \in Keys : Begin(t, "insert_if_not_present", k)
insert_with_or_modify_entry_and(t) == \E k \in Keys : Begin(t, "insert", k)

keys_restarted_late(t) == LET r == thr[t] IN
    /\ r.pc = "probe"
    /\ r.op = "keys"
    /\ IF r.i = Length(Array(t)) THEN Finish(t, r.keys)
       ELSE LET p == Array(t).buckets[r.i] IN
            IF is_sentinel(p) THEN thr' = [thr EXCEPT ![t].i = @ + 1]
            ELSE thr' = [thr EXCEPT ![t].i = @ + 1, ![t].keys = IF Live(p) = None THEN @ ELSE Append(@, p.b.key)]
    /\ UNCHANGED <<arrays, current, len, mem>>

(* keys: a scan that meets a sentinel starts over in the next array.       *)
keys(t) == LET r == thr[t] IN
    /\ r.pc = "probe"
    /\ r.op = "keys"
    /\ IF r.i = Length(Array(t)) THEN Finish(t, r.keys)
       ELSE LET p == Array(t).buckets[r.i] IN
            IF is_sentinel(p) THEN Relocated(t)
            ELSE thr' = [thr EXCEPT ![t].i = @ + 1, ![t].keys = IF Live(p) = None THEN @ ELSE Append(@, p.b.key)]
    /\ UNCHANGED <<arrays, current, len, mem>>

(* The pointer to the current array is moved on, and what it pointed to is *)
(* destroyed, until it is at least at the array the operation ended in.    *)
swing(t) == LET r == thr[t] IN
    /\ r.pc = "swing"
    /\ IF r.cur >= r.ref
       THEN thr' = [thr EXCEPT ![t] = [Idle EXCEPT !.n = r.n + 1]] /\ UNCHANGED <<current, mem>>
       ELSE IF current = r.cur
       THEN /\ current' = r.ref
            /\ mem' = [mem EXCEPT !.arrays = @ \cup {r.cur}, !.twice = @ \/ r.cur \in mem.arrays]
            /\ UNCHANGED thr
       ELSE thr' = [thr EXCEPT ![t].cur = current] /\ UNCHANGED <<current, mem>>
    /\ UNCHANGED <<arrays, len>>

Pointers(e) == {arrays[e].buckets[i] : i \in DOMAIN arrays[e].buckets} \ {NullPtr, SentinelPtr}

(* HashMap::drop, when no other thread can use the table.                  *)
Dropped(m) ==
    LET live == {p.b : p \in {q \in UNION {Pointers(e) : e \in current..Len(arrays)} : ~is_tombstone(q)}}
        dead == {p.b : p \in {q \in Pointers(Len(arrays)) : is_tombstone(q)}}
    IN [m EXCEPT !.freed = @ \cup live \cup dead, !.values = @ \cup live, !.dropped = TRUE,
                 !.twice = @ \/ (live \cup dead) \cap m.freed # {} \/ live \cap m.values # {}]

drop ==
    /\ \A t \in Threads : thr[t].pc = "idle" /\ thr[t].n = MaxOps[t]
    /\ ~mem.dropped
    /\ mem' = Dropped(mem)
    /\ UNCHANGED <<arrays, current, len, thr>>

Step(t) ==
    \/ "get" \in Ops /\ get_key_value_and_then(t)
    \/ "remove_if" \in Ops /\ remove_entry_if_and(t)
    \/ "insert_if_not_present" \in Ops /\ insert_if_not_present_and(t)
    \/ "insert" \in Ops /\ insert_with_or_modify_entry_and(t)
    \/ "keys" \in Ops /\ Begin(t, "keys", None)
    \/ Check(t) \/ rehash(t) \/ Probe(t) \/ Cas(t) \/ Count(t) \/ keys(t) \/ swing(t)

Finished == mem.dropped /\ UNCHANGED vars

Next == (\E t \in Threads : Step(t)) \/ drop \/ Finished

Spec == Init /\ [][Next]_vars
FairSpec == Spec /\ \A t \in Threads : WF_vars(Step(t))
-----------------------------------------------------------------------------
(* The arrays that may be searched: all before the last of them consist of *)
(* sentinels.                                                              *)
Open(e) == \A f \in 1..e - 1 : \A i \in DOMAIN arrays[f].buckets : is_sentinel(arrays[f].buckets[i])

(* No thread is in an array into which another one is still copying.       *)
NextIsPrivate == \A t \in Threads : thr[t].pc # "idle" => Open(thr[t].ref)

(* What a thread can reach has not been handed over to be freed.           *)
NoFreedBucket ==
    \A e \in DOMAIN arrays : Open(e) /\ ~mem.dropped => \A p \in Pointers(e) :
      /\ p.b \notin mem.freed
      /\ Live(p) # None => p.b \notin mem.values

(* Nothing is freed twice: no bucket, no value, no array.                  *)
NoDoubleFree == ~mem.twice

(* When the table is dropped all buckets and values have been freed.       *)
AllFreed == mem.dropped => mem.freed = mem.made /\ mem.values = mem.made

(* keys gives every key that was there all the time, and none twice.       *)
KeysComplete ==
    \A t \in Threads : thr[t].op = "keys" /\ thr[t].pc = "swing" =>
      /\ mem.since[t] \subseteq {thr[t].res[i] : i \in DOMAIN thr[t].res}
      /\ \A i, j \in DOMAIN thr[t].res : thr[t].res[i] = thr[t].res[j] => i = j

(* len is the number of elements, give or take those being inserted or     *)
(* removed ("Returns the number of elements in the map").                  *)
LenIsCount == len <= Cardinality(Keys)

Busy(t) == thr[t].pc # "idle"

(* Every operation ends.                                                   *)
OpsFinish == \A t \in Threads : Busy(t) ~> ~Busy(t)
=============================================================================

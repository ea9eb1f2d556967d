--------------------------- MODULE InsertOrModify ---------------------------
(***************************************************************************)
(* insert_or_modify (cht/map/bucket.rs) on the bucket of one key, and the  *)
(* closures do_insert_with_hash gives to it (sync/base_cache.rs).          *)
(*                                                                         *)
(* A new value is made by on_insert or on_modify before the                *)
(* compare-and-swap; when that fails, the bucket and the value that was    *)
(* made are kept in an InsertOrModifyState for the next attempt.  The      *)
(* values are MaybeUninit: the code drops each of them by hand.            *)
(***************************************************************************)
EXTENDS Naturals, FiniteSets

CONSTANTS
    Inserters, Removers, \* threads
    None,
    CntMod,           \* modulus of the serial numbers of the closures' calls (2^8)
    MaxOps,           \* bound: operations of a thread
    MaxCalls          \* bound: calls of closures in one insertion

VARIABLES
    bucket,           \* the pointer in the bucket of the key
    thr,              \* thread -> its locals
    values,           \* the values that were made
    dropped,          \* those that were dropped
    twice             \* whether one was dropped twice

vars == <<bucket, thr, values, dropped, twice>>

Threads == Inserters \cup Removers

(* A bucket pointer: the value, and whether it is tagged as a tombstone.   *)
Null == [val |-> None, tomb |-> FALSE]
is_tombstone(p) == p.tomb
Live(p) == p.val # None /\ ~is_tombstone(p)

(* InsertOrModifyState.  spare is a ValueOrFunction: a value on_insert has *)
(* made, or None while it has not been called.                             *)
New == [state |-> "New", val |-> None, spare |-> None]
AttemptedInsertion(v) == [state |-> "AttemptedInsertion", val |-> v, spare |-> None]
AttemptedModification(v, s) == [state |-> "AttemptedModification", val |-> v, spare |-> s]

Idle == [pc |-> "idle", st |-> New, seen |-> Null, calls |-> 0, op1 |-> None, op2 |-> None,
         sent |-> None, n |-> 0]

Init ==
    /\ bucket = Null
    /\ thr = [t \in Threads |-> Idle]
    /\ values = {}
    /\ dropped = {}
    /\ twice = FALSE

Drop(vs) ==
    /\ dropped' = dropped \cup vs
    /\ twice' = (twice \/ vs \cap dropped # {})
-----------------------------------------------------------------------------
(* The closures: the value they make, for the value on that is replaced,   *)
(* and the WriteOp they leave with its serial number.                      *)
MadeValue(t, on) == [id |-> <<t, thr[t].n, thr[t].calls>>, on |-> on]
Op(t, v) == [cnt |-> thr[t].calls % CntMod, val |-> v]

on_insert(t) == MadeValue(t, None)
on_modify(t, old) == MadeValue(t, old.id)

(* What an attempt makes of the state: the value it puts in its bucket,    *)
(* the ValueOrFunction it keeps, what it drops, and which closure it has   *)
(* called.                                                                 *)
Attempt(val, spare, drops, call) == [val |-> val, spare |-> spare, drops |-> drops, call |-> call]

into_value(t, spare) ==
    IF spare # None THEN [val |-> spare, call |-> None]
                    ELSE [val |-> on_insert(t), call |-> "on_insert"]

into_insert_bucket(t, st) ==
    CASE st.state = "New" -> Attempt(on_insert(t), None, {}, "on_insert")
      [] st.state = "AttemptedInsertion" -> Attempt(st.val, None, {}, None)
      [] st.state = "AttemptedModification" ->
           Attempt(into_value(t, st.spare).val, None, {st.val}, into_value(t, st.spare).call)

into_modify_bucket(t, st, old) ==
    CASE st.state = "New" -> Attempt(on_modify(t, old), None, {}, "on_modify")
      [] st.state = "AttemptedInsertion" -> Attempt(on_modify(t, old), st.val, {}, "on_modify")
      [] st.state = "AttemptedModification" ->
           Attempt(on_modify(t, old), st.spare, {st.val}, "on_modify")

insert_with_or_modify(t) ==
    /\ thr[t].pc = "idle"
    /\ thr[t].n < MaxOps
    /\ thr' = [thr EXCEPT ![t] = [Idle EXCEPT !.pc = "probe", !.n = thr[t].n + 1]]
    /\ UNCHANGED <<bucket, values, dropped, twice>>

(* The bucket is loaded, and the new one is made.  A pair with a           *)
(* ValueOrFunction is kept only if there is a value to modify.             *)
Probe(t) ==
    LET p == bucket
        a == IF Live(p) THEN into_modify_bucket(t, thr[t].st, p.val)
                        ELSE into_insert_bucket(t, thr[t].st)
    IN
    /\ thr[t].pc = "probe"
    /\ thr[t].calls < MaxCalls
    /\ thr' = [thr EXCEPT ![t].pc = "cas", ![t].seen = p,
                          ![t].st = [state |-> IF Live(p) THEN "modify" ELSE "insert",
                                     val |-> a.val, spare |-> a.spare],
                          ![t].calls = IF a.call = None THEN @ ELSE @ + 1,
                          ![t].op1 = IF a.call = "on_insert" THEN Op(t, a.val) ELSE @,
                          ![t].op2 = IF a.call = "on_modify" THEN Op(t, a.val) ELSE @]
    /\ values' = values \cup {a.val}
    /\ Drop(a.drops)
    /\ UNCHANGED bucket

from_bucket_value(st) ==
    IF st.state = "modify" THEN AttemptedModification(st.val, st.spare)
                           ELSE AttemptedInsertion(st.val)

(* The compare-and-swap succeeds, and the value it replaces and the spare  *)
(* one are dropped; or it fails, as the weak exchange may at any time.     *)
compare_exchange_weak(t) ==
    /\ thr[t].pc = "cas"
    /\ \/ /\ bucket = thr[t].seen
          /\ bucket' = [val |-> thr[t].st.val, tomb |-> FALSE]
          /\ Drop(({thr[t].st.spare} \ {None}) \cup
                  (IF Live(thr[t].seen) THEN {thr[t].seen.val} ELSE {}))
          /\ thr' = [thr EXCEPT ![t].pc = "send", ![t].st = New]
       \/ /\ thr' = [thr EXCEPT ![t].pc = "probe", ![t].st = from_bucket_value(@),
                                ![t].seen = Null]
          /\ UNCHANGED <<bucket, dropped, twice>>
    /\ UNCHANGED values

insert_or_modify(t) == Probe(t) \/ compare_exchange_weak(t)

Chosen_first(r) == IF r.op1 # None THEN r.op1.val ELSE r.op2.val

(* The WriteOp with the larger serial number.                              *)
Chosen(r) ==
    IF r.op1 # None /\ (r.op2 # None => r.op1.cnt > r.op2.cnt) THEN r.op1.val ELSE r.op2.val

do_insert_with_hash(t) ==
    /\ thr[t].pc = "send"
    /\ thr' = [thr EXCEPT ![t].pc = "idle", ![t].sent = Chosen(thr[t])]
    /\ UNCHANGED <<bucket, values, dropped, twice>>

(* remove_if, of whatever is there: the value is dropped, and the bucket   *)
(* stays as a tombstone.                                                   *)
remove_if(t) ==
    /\ thr[t].n < MaxOps
    /\ Live(bucket)
    /\ bucket' = [bucket EXCEPT !.tomb = TRUE]
    /\ Drop({bucket.val})
    /\ thr' = [thr EXCEPT ![t].n = @ + 1]
    /\ UNCHANGED values

Next ==
    \/ \E t \in Inserters :
         insert_with_or_modify(t) \/ insert_or_modify(t) \/ do_insert_with_hash(t)
    \/ \E t \in Removers : remove_if(t)

Spec == Init /\ [][Next]_vars
-----------------------------------------------------------------------------
Held(t) == {thr[t].st.val, thr[t].st.spare} \ {None}

(* Each value that was made is in the table, kept by the insertion that    *)
(* made it, or dropped: none is lost, none dropped twice or while it is    *)
(* still in use.                                                           *)
ValuesAccounted ==
    LET table == IF Live(bucket) THEN {bucket.val} ELSE {}
        held == UNION {Held(t) : t \in Threads}
    IN /\ ~twice
       /\ values = table \cup held \cup dropped
       /\ (table \cup held) \cap dropped = {} /\ table \cap held = {}

ReplaceOwn ==
    \A t \in Inserters : thr[t].pc = "cas" /\ thr'[t].pc = "send" =>
        bucket'.val.on = IF Live(bucket) THEN bucket.val.id ELSE None

(* A value that on_modify made takes the place of the one it was made      *)
(* from, and one that on_insert made the place of none.  The EntryInfo in  *)
(* it is that of the entry it replaces.                                    *)
ReplacesItsSource == [][ReplaceOwn]_vars

(* The WriteOp that is sent is that of the last call of the closures ("the *)
(* WriteOp with the largest serial number is the one made by the last call *)
(* of the closures").                                                      *)
LastCallSent ==
    \A t \in Inserters : thr[t].sent # None => thr[t].sent.id[3] = thr[t].calls - 1
=============================================================================

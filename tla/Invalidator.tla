---------------------------- MODULE Invalidator ----------------------------
(***************************************************************************)
(* invalidate_entries_if: the registry of predicates, the scan of the      *)
(* write-order deque by maintenance and the cursor of that deque           *)
(* (sync/invalidator.rs, invalidate_entries of sync/base_cache.rs,         *)
(* common/deque.rs).                                                       *)
(*                                                                         *)
(* A predicate is the value it matches.  Entries leave the cache only by   *)
(* being invalidated; there is no capacity and no expiration.              *)
(***************************************************************************)
EXTENDS Naturals, Sequences, FiniteSets

CONSTANTS
    Keys, Values, Threads, None, Done,
    BatchSize,        \* eviction_batch_size
    Serial,           \* whether one call, or maintenance, runs at a time
    MaxInserts, MaxPredicates, MaxGets   \* bounds: calls

VARIABLES
    now,
    bucket,           \* key -> value, EntryInfo, version and time of its ValueEntry
    info,             \* the EntryInfos: key, last_modified, generations, retired
    write_op_ch,      \* Upserts on their way: EntryInfo and generation
    write_order,      \* the write-order deque: EntryInfos
    cursor,           \* its cursor: None, Done or an EntryInfo in the deque
    predicates,       \* the registry
    is_empty,         \* the flag that stands for predicates = {}
    scan_context,     \* the predicates being scanned
    thr,              \* thread -> local state of its call
    left,             \* calls left, by method
    mpc, m,           \* maintenance
    returned,         \* history: the versions of keys whose insert has returned
    gone              \* history: the last value the scan has removed

vars == <<now, bucket, info, write_op_ch, write_order, cursor, predicates, is_empty,
          scan_context, thr, left, mpc, m, returned, gone>>
userVars == <<thr, left, returned>>
maintVars == <<scan_context, mpc, m, gone>>
deqVars == <<write_order, cursor>>

Absent == [val |-> None, info |-> None, ver |-> 0, ts |-> 0]
IdleThread == [pc |-> "idle", key |-> None, val |-> None, ts |-> 0, seen |-> Absent, gen |-> 0,
               before |-> {}, applied |-> {}]
IdleMaint == [found |-> <<>>, len |-> 0, has_next |-> FALSE, newest |-> None, invalidated |-> {},
              is_done |-> FALSE, back |-> None]

(* Invalidator::new.                                                       *)
Invalidator_new ==
    /\ predicates = {}
    /\ is_empty = TRUE
    /\ scan_context = {}

Init ==
    /\ Invalidator_new
    /\ now = 1
    /\ bucket = [k \in Keys |-> Absent]
    /\ info = <<>>
    /\ write_op_ch = <<>>
    /\ write_order = <<>>
    /\ cursor = None
    /\ thr = [t \in Threads |-> IdleThread]
    /\ left = [insert |-> MaxInserts, invalidate |-> MaxPredicates, get |-> MaxGets]
    /\ mpc = "idle"
    /\ m = IdleMaint
    /\ returned = {}
    /\ gone = None
-----------------------------------------------------------------------------
(* The deque and its cursor *)

In(seq, i) == \E p \in 1..Len(seq) : seq[p] = i
Without(seq, i) == SelectSeq(seq, LAMBDA j : j # i)

NextNode(i) ==
    LET p == CHOOSE p \in 1..Len(write_order) : write_order[p] = i IN
    IF p < Len(write_order) THEN write_order[p + 1] ELSE Done

advance_cursor(c) ==
    CASE c = None -> None
      [] c = Done -> None
      [] OTHER -> NextNode(c)

(* Iterator::next: the element, or None, and where the cursor is then.     *)
Started == IF cursor = None /\ write_order # <<>> THEN Head(write_order) ELSE cursor
next_elem == IF Started \in {None, Done} THEN None ELSE Started
next_cursor == advance_cursor(Started)

unlink_dangling(i) ==
    /\ write_order' = Without(write_order, i)
    /\ UNCHANGED cursor

unlink(i) ==
    /\ write_order' = Without(write_order, i)
    /\ cursor' = IF cursor = i THEN advance_cursor(cursor) ELSE cursor

move_to_back(i) ==
    IF write_order[Len(write_order)] = i THEN UNCHANGED deqVars
    ELSE /\ write_order' = Append(Without(write_order, i), i)
         /\ cursor' = IF cursor = i THEN advance_cursor(cursor) ELSE cursor
-----------------------------------------------------------------------------
(* Calls *)

is_dirty(i) == info[i].entry_gen # info[i].policy_gen
is_applicable(p, ts) == ts <= p.registered_at
Predicate_apply(p, val) == p.f = val
do_apply_predicates(ps, val, ts) == \E p \in ps : is_applicable(p, ts) /\ Predicate_apply(p, val)

MayCall(t, call) ==
    /\ thr[t].pc = "idle"
    /\ left[call] > 0
    /\ Serial => (mpc = "idle" /\ \A u \in Threads : thr[u].pc = "idle")

(* The clock moves with every write, so that no two have the same time.    *)
BeginInsert(t, k, v) ==
    /\ MayCall(t, "insert")
    /\ now' = now + 1
    /\ thr' = [thr EXCEPT ![t] = [IdleThread EXCEPT !.pc = "write", !.key = k, !.val = v, !.ts = now']]
    /\ left' = [left EXCEPT !.insert = @ - 1]
    /\ UNCHANGED <<bucket, info, write_op_ch, deqVars, predicates, is_empty, maintVars, returned>>

on_insert(t) ==
    LET k == thr[t].key IN
    /\ thr[t].pc = "write"
    /\ bucket[k].info = None
    /\ info' = Append(info, [key |-> k, last_modified |-> thr[t].ts, entry_gen |-> 1,
                             policy_gen |-> 0, retired |-> FALSE])
    /\ bucket' = [bucket EXCEPT ![k] = [val |-> thr[t].val, info |-> Len(info'), ver |-> @.ver + 1,
                                        ts |-> thr[t].ts]]
    /\ thr' = [thr EXCEPT ![t].pc = "send", ![t].seen = bucket'[k], ![t].gen = 1]
    /\ UNCHANGED <<now, write_op_ch, deqVars, predicates, is_empty, maintVars, left, returned>>

(* The EntryInfo, shared with the old ValueEntry, is changed first.        *)
on_modify(t) ==
    LET b == bucket[thr[t].key] IN
    /\ thr[t].pc = "write"
    /\ b.info # None
    /\ info' = [info EXCEPT ![b.info].last_modified = thr[t].ts, ![b.info].entry_gen = @ + 1]
    /\ thr' = [thr EXCEPT ![t].pc = "swap", ![t].seen = b, ![t].gen = info'[b.info].entry_gen]
    /\ UNCHANGED <<now, bucket, write_op_ch, deqVars, predicates, is_empty, maintVars, left, returned>>

do_insert_with_hash(t) ==
    LET k == thr[t].key IN
    /\ thr[t].pc = "swap"
    /\ IF bucket[k].ver = thr[t].seen.ver
       THEN /\ bucket' = [bucket EXCEPT ![k].val = thr[t].val, ![k].ver = @ + 1, ![k].ts = thr[t].ts]
            /\ thr' = [thr EXCEPT ![t].pc = "send", ![t].seen = bucket'[k]]
       ELSE /\ thr' = [thr EXCEPT ![t].pc = "write"]
            /\ UNCHANGED bucket
    /\ UNCHANGED <<now, info, write_op_ch, deqVars, predicates, is_empty, maintVars, left, returned>>

schedule_write_op(t) ==
    /\ thr[t].pc = "send"
    /\ write_op_ch' = Append(write_op_ch, [info |-> thr[t].seen.info, gen |-> thr[t].gen])
    /\ returned' = returned \cup {<<thr[t].key, thr[t].seen.ver>>}
    /\ thr' = [thr EXCEPT ![t] = IdleThread]
    /\ UNCHANGED <<now, bucket, info, deqVars, predicates, is_empty, maintVars, left>>

Clean(k) == \E p \in 1..Len(write_order) : write_order[p] = bucket[k].info /\ ~is_dirty(write_order[p])

(* invalidate_entries_if reads the time, registers the predicate and then  *)
(* clears the flag.                                                        *)
invalidate_entries_if(t, v) ==
    /\ MayCall(t, "invalidate")
    /\ thr' = [thr EXCEPT ![t] = [IdleThread EXCEPT
                   !.pc = "register", !.val = v, !.ts = now, !.gen = left.invalidate,
                   !.before = returned,
                   !.applied = {<<k, bucket[k].ver>> : k \in {k \in Keys : Clean(k)}}]]
    /\ left' = [left EXCEPT !.invalidate = @ - 1]
    /\ UNCHANGED <<now, bucket, info, write_op_ch, deqVars, predicates, is_empty, maintVars, returned>>

Predicate(t) == [id |-> thr[t].gen, f |-> thr[t].val, registered_at |-> thr[t].ts]

register_predicate(t) ==
    /\ thr[t].pc = "register"
    /\ predicates' = predicates \cup {Predicate(t)}
    /\ thr' = [thr EXCEPT ![t].pc = "registered"]
    /\ UNCHANGED <<now, bucket, info, write_op_ch, deqVars, is_empty, maintVars, left, returned>>

(* A thread's later gets must not return what it has invalidated.          *)
Registered(t) ==
    /\ thr[t].pc = "registered"
    /\ is_empty' = FALSE
    /\ thr' = [thr EXCEPT ![t].pc = "idle"]
    /\ UNCHANGED <<now, bucket, info, write_op_ch, deqVars, predicates, maintVars, left, returned>>

(* apply_predicates, in a get: only if the flag is not set.                *)
apply_predicates(k) ==
    /\ ~is_empty
    /\ do_apply_predicates(predicates, bucket[k].val, info[bucket[k].info].last_modified)

is_invalidated_entry(k) == apply_predicates(k)

(* seen: the value that is returned.                                       *)
get_with_hash(t, k) ==
    /\ MayCall(t, "get")
    /\ bucket[k].info # None
    /\ ~is_invalidated_entry(k)
    /\ left' = [left EXCEPT !.get = @ - 1]
    /\ thr' = [thr EXCEPT ![t].seen = bucket[k], ![t].key = k]
    /\ UNCHANGED <<now, bucket, info, write_op_ch, deqVars, predicates, is_empty, maintVars, returned>>
-----------------------------------------------------------------------------
(* Maintenance *)

MaintStart ==
    /\ mpc = "idle"
    /\ Serial => \A t \in Threads : thr[t].pc = "idle"
    /\ mpc' = "writes"
    /\ m' = [IdleMaint EXCEPT !.len = Len(write_op_ch)]
    /\ gone' = None
    /\ UNCHANGED <<now, bucket, info, write_op_ch, deqVars, predicates, is_empty, scan_context, userVars>>

handle_upsert ==
    LET op == Head(write_op_ch)
        i == op.info
    IN
    /\ mpc = "writes"
    /\ m.len > 0
    /\ m' = [m EXCEPT !.len = @ - 1]
    /\ write_op_ch' = Tail(write_op_ch)
    /\ info' = [info EXCEPT ![i].policy_gen = IF @ < op.gen THEN op.gen ELSE @]
    /\ CASE info[i].retired -> UNCHANGED deqVars
         [] ~info[i].retired /\ In(write_order, i) -> move_to_back(i)
         [] OTHER -> write_order' = Append(write_order, i) /\ UNCHANGED cursor
    /\ UNCHANGED <<now, bucket, predicates, is_empty, scan_context, mpc, gone, userVars>>

(* invalidate_entries, unless the flag is set.  With an empty deque the    *)
(* predicates registered by now are done.                                  *)
invalidate_entries ==
    /\ mpc = "writes"
    /\ m.len = 0
    /\ is_empty \/ write_order # <<>>
    /\ mpc' = IF is_empty THEN "idle" ELSE "collect"
    /\ m' = IdleMaint
    /\ UNCHANGED <<now, bucket, info, write_op_ch, deqVars, predicates, is_empty, scan_context, gone,
                   userVars>>

remove_predicates_registered_before_any ==
    /\ mpc = "writes"
    /\ m.len = 0
    /\ ~is_empty
    /\ predicates' = {p \in predicates : p.registered_at > now}
    /\ mpc' = "removed"
    /\ m' = [IdleMaint EXCEPT !.back = "idle"]
    /\ UNCHANGED <<now, bucket, info, write_op_ch, deqVars, is_empty, scan_context, gone, userVars>>

remove_predicates_registered_before ==
    /\ mpc = "writes"
    /\ m.len = 0
    /\ ~is_empty
    /\ write_order = <<>>
    /\ predicates' = {p \in predicates : p.registered_at > now}
    /\ mpc' = "removed"
    /\ m' = [IdleMaint EXCEPT !.back = "idle"]
    /\ UNCHANGED <<now, bucket, info, write_op_ch, deqVars, is_empty, scan_context, gone, userVars>>

KeyDateLite(i) == <<info[i].key, info[i].last_modified>>

(* A candidate from the cursor on; dirty entries are passed over.          *)
Collect ==
    LET i == next_elem IN
    /\ mpc = "collect"
    /\ m.len < BatchSize
    /\ cursor' = next_cursor
    /\ IF i = None THEN mpc' = "peek" /\ UNCHANGED m
       ELSE /\ m' = IF is_dirty(i) THEN m
                    ELSE [m EXCEPT !.len = @ + 1, !.found = Append(@, KeyDateLite(i))]
            /\ UNCHANGED mpc
    /\ UNCHANGED <<now, bucket, info, write_op_ch, write_order, predicates, is_empty, scan_context,
                   gone, userVars>>

(* Peekable::peek is a next of the deque whose element is lost when the    *)
(* Peekable is.                                                            *)
Peek ==
    /\ mpc = "peek" \/ (mpc = "collect" /\ m.len = BatchSize)
    /\ cursor' = next_cursor
    /\ m' = IF m.len = 0 THEN IdleMaint ELSE [m EXCEPT !.has_next = next_elem # None]
    /\ mpc' = IF m.len = 0 THEN "idle" ELSE "scan"
    /\ scan_context' = IF m.len # 0 /\ scan_context = {} THEN predicates ELSE scan_context
    /\ UNCHANGED <<now, bucket, info, write_op_ch, write_order, predicates, is_empty, gone, userVars>>

(* apply: the current entry of the key, if it is the one that was found.   *)
apply ==
    LET k == Head(m.found)[1]
        b == bucket[k]
        same == b.info # None /\ (b.info # None => info[b.info].last_modified = Head(m.found)[2])
    IN
    /\ mpc = "scan"
    /\ m.found # <<>>
    /\ mpc' = IF same /\ do_apply_predicates(scan_context, b.val, Head(m.found)[2])
                THEN "remove" ELSE "scanned"
    /\ UNCHANGED <<now, bucket, info, write_op_ch, deqVars, predicates, is_empty, scan_context, m, gone,
                   userVars>>

(* invalidate: the entry is removed if it still is the one that was found. *)
invalidate ==
    LET k == Head(m.found)[1]
        b == bucket[k]
    IN
    /\ mpc = "remove"
    /\ mpc' = "scanned"
    /\ IF b.info # None /\ (b.info # None => info[b.info].last_modified = Head(m.found)[2])
       THEN /\ bucket' = [bucket EXCEPT ![k] = [Absent EXCEPT !.ver = b.ver + 1]]
            /\ info' = [info EXCEPT ![b.info].retired = TRUE]
            /\ m' = [m EXCEPT !.invalidated = @ \cup {b.info}]
            /\ gone' = [val |-> b.val, ts |-> b.ts]
       ELSE UNCHANGED <<bucket, info, m, gone>>
    /\ UNCHANGED <<now, write_op_ch, deqVars, predicates, is_empty, scan_context, userVars>>

NextCandidate ==
    /\ mpc = "scanned"
    /\ mpc' = "scan"
    /\ m' = [m EXCEPT !.found = Tail(@), !.newest = Head(m.found)[2]]
    /\ UNCHANGED <<now, bucket, info, write_op_ch, deqVars, predicates, is_empty, scan_context, gone,
                   userVars>>

(* remove_finished_predicates: if the deque goes on, only those that are   *)
(* older than the entries to come.                                         *)
remove_finished_predicates ==
    LET truncated == m.len = BatchSize /\ m.has_next
        finished == IF truncated THEN {p \in scan_context : ~is_applicable(p, m.newest)}
                                 ELSE scan_context
    IN
    /\ mpc = "scan"
    /\ m.found = <<>>
    /\ predicates' = predicates \ finished
    /\ scan_context' = scan_context \ finished
    /\ mpc' = "removed"
    /\ m' = [m EXCEPT !.back = "is_done"]
    /\ gone' = None
    /\ UNCHANGED <<now, bucket, info, write_op_ch, deqVars, is_empty, userVars>>

(* remove_predicates, and remove_predicates_registered_before: the flag is *)
(* set if the registry was found empty.                                    *)
RegistryEmpty ==
    /\ mpc = "removed"
    /\ mpc' = IF predicates = {} THEN "set_flag" ELSE m.back
    /\ UNCHANGED <<now, bucket, info, write_op_ch, deqVars, predicates, is_empty, scan_context, m, gone,
                   userVars>>

SetFlag ==
    /\ mpc = "set_flag"
    /\ is_empty' = TRUE
    /\ mpc' = m.back
    /\ UNCHANGED <<now, bucket, info, write_op_ch, deqVars, predicates, scan_context, m, gone, userVars>>

IsDone ==
    /\ mpc = "is_done"
    /\ m' = [m EXCEPT !.is_done = predicates = {}]
    /\ mpc' = "unlink"
    /\ UNCHANGED <<now, bucket, info, write_op_ch, deqVars, predicates, is_empty, scan_context, gone,
                   userVars>>

(* handle_remove for each removed entry.                                   *)
handle_remove ==
    /\ mpc = "unlink"
    /\ \E i \in m.invalidated :
         /\ IF In(write_order, i) THEN unlink(i) ELSE UNCHANGED deqVars
         /\ m' = [m EXCEPT !.invalidated = @ \ {i}]
    /\ UNCHANGED <<now, bucket, info, write_op_ch, predicates, is_empty, scan_context, mpc, gone, userVars>>

(* The cursor is reset if the registry was found empty.                    *)
reset_cursor ==
    /\ mpc = "unlink"
    /\ m.invalidated = {}
    /\ cursor' = IF m.is_done THEN None ELSE cursor
    /\ mpc' = "idle"
    /\ m' = IdleMaint
    /\ UNCHANGED <<now, bucket, info, write_op_ch, write_order, predicates, is_empty, scan_context, gone,
                   userVars>>

scan_and_invalidate ==
    apply \/ invalidate \/ NextCandidate \/ remove_finished_predicates \/ RegistryEmpty \/ SetFlag
    \/ IsDone

Maintenance ==
    \/ MaintStart \/ handle_upsert \/ invalidate_entries \/ remove_predicates_registered_before
    \/ Collect \/ Peek \/ scan_and_invalidate \/ handle_remove \/ reset_cursor

Step(t) ==
    \/ on_insert(t) \/ on_modify(t) \/ do_insert_with_hash(t) \/ schedule_write_op(t)
    \/ register_predicate(t) \/ Registered(t)

Call(t) ==
    \/ \E k \in Keys, v \in Values : BeginInsert(t, k, v)
    \/ \E v \in Values : invalidate_entries_if(t, v)
    \/ \E k \in Keys : get_with_hash(t, k)

Next == Maintenance \/ \E t \in Threads : Step(t) \/ Call(t)

Spec == Init /\ [][Next]_vars

(* Maintenance keeps being run and calls return.                           *)
FairSpec == Spec /\ WF_vars(Maintenance) /\ \A t \in Threads : WF_vars(Step(t))
-----------------------------------------------------------------------------
(* get does not return a value that invalidate_entries_if, called before   *)
(* by the same thread, has invalidated, if its insert had returned by      *)
(* then: "it is guaranteed that these methods must not return invalidated  *)
(* values".                                                                *)
NoInvalidatedHit ==
    \A t \in Threads :
        thr[t].pc = "idle" /\ thr[t].seen # Absent =>
            ~(thr[t].seen.val = thr[t].val /\ <<thr[t].key, thr[t].seen.ver>> \in thr[t].before)

(* The same of a value whose Upsert maintenance had applied by then.       *)
NoAppliedHit ==
    \A t \in Threads :
        thr[t].pc = "idle" /\ thr[t].seen # Absent =>
            ~(thr[t].seen.val = thr[t].val /\ <<thr[t].key, thr[t].seen.ver>> \in thr[t].applied)

(* What the scan removes is a value that some predicate matches which was  *)
(* registered after the value was written, and not the value of a later    *)
(* insert that has taken its place.                                        *)
RemovedWasMatched ==
    gone # None => \E p \in scan_context \cup predicates : p.f = gone.val /\ gone.ts <= p.registered_at

(* The cursor never points at a node that is not in the deque: such nodes  *)
(* are freed.                                                              *)
CursorValid == cursor \in {None, Done} \/ In(write_order, cursor)

Matched(k, ver) ==
    /\ bucket[k].ver = ver
    /\ bucket[k].info # None /\ do_apply_predicates(predicates, bucket[k].val, bucket[k].ts)

(* An entry that a registered predicate matches is evicted, or replaced:   *)
(* "If the closure returns true that entry will be evicted from the cache".*)
MatchedAreEvicted ==
    \A k \in Keys, ver \in 1..MaxInserts :
        Matched(k, ver) ~> bucket[k].ver # ver

(* Predicates do not stay in the registry for ever.                        *)
PredicatesFinish == predicates # {} ~> predicates = {}

(* While the flag shows maintenance that there are predicates, it gets     *)
(* them done: "The closure is called against each cached entry".           *)
ScansFinish == (predicates # {} /\ ~is_empty) ~> (predicates = {} \/ is_empty)
=============================================================================

-------------------------- MODULE ValueInitializer --------------------------
(***************************************************************************)
(* sync/value_initializer.rs: how concurrent callers of get_with and of    *)
(* the entry API share one evaluation of their closures.                   *)
(*                                                                         *)
(* A caller registers a waiter, a write-locked cell, under its key and the *)
(* type of its error.  A caller that finds a waiter there waits for the    *)
(* lock and reads the cell.  The cache is seen through its atomic          *)
(* operations (BaseCache has the rest); evictions and calls that use no    *)
(* waiter change it at any time (Outside).                                 *)
(*                                                                         *)
(* A waiter, and the value or error its closure returns, are named by the  *)
(* call they belong to: a thread and a number.                             *)
(***************************************************************************)
EXTENDS Naturals, FiniteSets

CONSTANTS
    Threads,
    Keys,
    None,             \* no value, no waiter; the author of outside changes
    Apis,             \* the methods that are called
    MaxCalls,         \* bound: calls per thread
    MAX_RETRIES,      \* limit of retries after the panics of others
    MayPanic,         \* whether closures may panic
    MaxOutside,       \* bound: values inserted from outside
    is_map_disabled   \* max_capacity is 0

ASSUME KeysAssumption == Keys # {}
(* The types of the waiters tell the methods with waiters apart, except    *)
(* for the two whose error is `()`: OptionallyNone and ComputeNone are     *)
(* private to the crate.  Only the methods without a waiter look up first  *)
(* and then insert directly.                                               *)
ASSUME ApisAssumption ==
    \A a \in Apis :
        /\ a.fun \in {"init", "compute", "insert"}
        /\ a.get_key \in BOOLEAN /\ a.need_key \in BOOLEAN
        /\ a.fun = "insert" => a.lookup /\ a.outs = {"Ok"}
        /\ \A b \in Apis : a.type = b.type /\ a.fun # "insert" /\ b.fun # "insert"
                             => a.fun = b.fun /\ a.err = b.err
ASSUME BoundsAssumption == MaxCalls \in Nat /\ MAX_RETRIES \in Nat /\ MaxOutside \in Nat

-----------------------------------------------------------------------------
(***************************************************************************)
(* The methods of sync::Cache and of its entry selectors that get a value  *)
(* or else compute it (sync/cache.rs, sync/entry_selector.rs), by the      *)
(* arguments with which they reach the value initializer:                  *)
(*                                                                         *)
(*   fun         the function of the initializer, or "insert" for none     *)
(*   type        the TypeId that is part of the waiter's key               *)
(*   err         the type to which an error is cast back                   *)
(*   outs        what the caller's closure may return                      *)
(*   replace_if  whether a closure may ask to ignore the cached value      *)
(*   lookup      whether the cache is looked up first                      *)
(*   get_key     whether that lookup returns an Entry with its key         *)
(*   need_key    whether the other results are Entries with their key      *)
(*   allow_nop   whether Op::Nop may return the value that was there       *)
(***************************************************************************)

(* Types of errors.  "unit" is the type `()`, which a caller may use too.  *)
UnitType == "unit"
OptionallyNone == "OptionallyNone"
ComputeNone == "ComputeNone"

type_id_for_get_with == UnitType
type_id_for_optionally_get_with == OptionallyNone
type_id_for_try_get_with(E) == E

Api(fun, type, err, outs, need_key) ==
    [fun |-> fun, type |-> type, err |-> err, outs |-> outs, replace_if |-> FALSE,
     lookup |-> FALSE, get_key |-> need_key, need_key |-> need_key, allow_nop |-> FALSE]

(* A lookup before anything else, that returns on a hit.                   *)
LookupFirst(api, key) == [api EXCEPT !.lookup = TRUE, !.get_key = key]

insert_with_hash_and_fun(replace_if, need_key) ==
    [Api("init", type_id_for_get_with, UnitType, {"Ok"}, need_key) EXCEPT !.replace_if = replace_if]

get_or_insert_with_hash_and_fun(replace_if, need_key) ==
    LookupFirst(insert_with_hash_and_fun(replace_if, need_key), need_key)

get_or_insert_with_hash_by_ref_and_fun(replace_if, need_key) ==
    LookupFirst(insert_with_hash_and_fun(replace_if, need_key), need_key)

(* Looks up, then evaluates and inserts without a waiter.                  *)
get_or_insert_with_hash ==
    LookupFirst(Api("insert", UnitType, UnitType, {"Ok"}, TRUE), TRUE)

get_or_insert_with_hash_by_ref ==
    LookupFirst(Api("insert", UnitType, UnitType, {"Ok"}, TRUE), TRUE)

(* Err stands for the closure's None.                                      *)
optionally_insert_with_hash_and_fun(need_key) ==
    Api("init", type_id_for_optionally_get_with, OptionallyNone, {"Ok", "Err"}, need_key)

get_or_optionally_insert_with_hash_and_fun(need_key) ==
    LookupFirst(optionally_insert_with_hash_and_fun(need_key), need_key)

get_or_optionally_insert_with_hash_by_ref_and_fun(need_key) ==
    LookupFirst(optionally_insert_with_hash_and_fun(need_key), need_key)

try_insert_with_hash_and_fun(E, need_key) ==
    Api("init", type_id_for_try_get_with(E), E, {"Ok", "Err"}, need_key)

get_or_try_insert_with_hash_and_fun(E, need_key) ==
    LookupFirst(try_insert_with_hash_and_fun(E, need_key), need_key)

(* Here the lookup is asked for no key, whatever need_key is.              *)
get_or_try_insert_with_hash_by_ref_and_fun(E, need_key) ==
    LookupFirst(try_insert_with_hash_and_fun(E, need_key), FALSE)

try_compute(outs, allow_nop) ==
    [Api("compute", ComputeNone, ComputeNone, outs, TRUE) EXCEPT !.allow_nop = allow_nop]

compute_with_hash_and_fun == try_compute({"Nop", "Put", "Remove"}, TRUE)

try_compute_with_hash_and_fun == try_compute({"Nop", "Put", "Remove", "Err"}, TRUE)

upsert_with_hash_and_fun == try_compute({"Put"}, FALSE)

-----------------------------------------------------------------------------
(* Methods of Cache.                                                       *)
get_with == get_or_insert_with_hash_and_fun(FALSE, FALSE)
get_with_by_ref == get_or_insert_with_hash_by_ref_and_fun(FALSE, FALSE)
get_with_if == get_or_insert_with_hash_and_fun(TRUE, FALSE)
optionally_get_with == get_or_optionally_insert_with_hash_and_fun(FALSE)
optionally_get_with_by_ref == get_or_optionally_insert_with_hash_by_ref_and_fun(FALSE)
try_get_with(E) == get_or_try_insert_with_hash_and_fun(E, FALSE)
try_get_with_by_ref(E) == get_or_try_insert_with_hash_by_ref_and_fun(E, FALSE)

(* Methods of OwnedKeyEntrySelector.                                       *)
and_compute_with == compute_with_hash_and_fun
and_try_compute_with == try_compute_with_hash_and_fun
and_upsert_with == upsert_with_hash_and_fun
or_default == get_or_insert_with_hash
or_insert == get_or_insert_with_hash
or_insert_with == get_or_insert_with_hash_and_fun(FALSE, TRUE)
or_insert_with_if == get_or_insert_with_hash_and_fun(TRUE, TRUE)
or_optionally_insert_with == get_or_optionally_insert_with_hash_and_fun(TRUE)
or_try_insert_with(E) == get_or_try_insert_with_hash_and_fun(E, TRUE)

(* Methods of RefKeyEntrySelector.                                         *)
and_compute_with_by_ref == compute_with_hash_and_fun
and_try_compute_with_by_ref == try_compute_with_hash_and_fun
and_upsert_with_by_ref == upsert_with_hash_and_fun
or_default_by_ref == get_or_insert_with_hash_by_ref
or_insert_by_ref == get_or_insert_with_hash_by_ref
or_insert_with_by_ref == get_or_insert_with_hash_by_ref_and_fun(FALSE, TRUE)
or_insert_with_if_by_ref == get_or_insert_with_hash_by_ref_and_fun(TRUE, TRUE)
or_optionally_insert_with_by_ref == get_or_optionally_insert_with_hash_by_ref_and_fun(TRUE)
or_try_insert_with_by_ref(E) == get_or_try_insert_with_hash_by_ref_and_fun(E, TRUE)

(* The methods of the entry selectors, for errors of types Es.             *)
SelectorApis(Es) ==
    {or_default, or_insert, or_insert_with, or_insert_with_if, or_optionally_insert_with,
     or_default_by_ref, or_insert_by_ref, or_insert_with_by_ref, or_insert_with_if_by_ref,
     or_optionally_insert_with_by_ref, and_compute_with, and_try_compute_with,
     and_upsert_with, and_compute_with_by_ref, and_try_compute_with_by_ref,
     and_upsert_with_by_ref}
    \cup {or_try_insert_with(E) : E \in Es}
    \cup {or_try_insert_with_by_ref(E) : E \in Es}
-----------------------------------------------------------------------------
Calls == Threads \X (1 .. MaxCalls)
Values == Calls \cup ({None} \X (1 .. MaxOutside))

VARIABLES
    cache,     \* the value of a key, or None
    waiters,   \* <<key, type>> -> the call that registered a waiter
    wval,      \* WaiterValue of the waiters
    wlock,     \* the waiters that are write-locked
    call,      \* the current or last call of each thread
    outside,   \* number of values inserted from outside
    seen       \* history: results that were in the cache, or in a registered
               \* waiter, at some time of the call

vars == <<cache, waiters, wval, wlock, call, outside, seen>>

Computing == [state |-> "Computing", val |-> None, type |-> UnitType]
Ready(v) == [state |-> "Ready", val |-> v, type |-> UnitType]
ReadyErr(c, type) == [state |-> "ReadyErr", val |-> c, type |-> type]
ReadyNone == [Computing EXCEPT !.state = "ReadyNone"]
InitClosurePanicked == [Computing EXCEPT !.state = "InitClosurePanicked"]

(* What a call returns: InitResult or CompResult, a panic, or an Err.      *)
Result(kind, val, key) == [kind |-> kind, val |-> val, key |-> key]
NoResult == Result("none", None, FALSE)

AnyKey == CHOOSE k \in Keys : TRUE
Idle == [pc |-> "idle", n |-> 0, key |-> AnyKey,
         api |-> get_with, retries |-> 0, existing |-> None, old |-> None, res |-> NoResult]

Init ==
    /\ cache = [k \in Keys |-> None]
    /\ waiters = << >>
    /\ wval = << >>
    /\ wlock = {}
    /\ call = [t \in Threads |-> Idle]
    /\ outside = 0
    /\ seen = [t \in Threads |-> {}]

Id(t) == <<t, call[t].n>>
WKey(t) == <<call[t].key, call[t].api.type>>
Active(t) == call[t].pc # "idle"

Goto(t, pc) == call' = [call EXCEPT ![t].pc = pc]
Finish(t, pc, res) == call' = [call EXCEPT ![t].pc = pc, ![t].res = res]

(* The history of the calls in progress sees a result in the cache or in a *)
(* waiter.                                                                 *)
Publish(k, where, r) ==
    seen' = [t \in Threads |->
                IF Active(t) /\ call[t].key = k THEN seen[t] \cup {<<where, r>>} ELSE seen[t]]

-----------------------------------------------------------------------------
(* A call starts; its history starts with the cached value.                *)
Begin(t, k, api) ==
    /\ ~Active(t)
    /\ call[t].n < MaxCalls
    /\ call' = [call EXCEPT ![t] = [Idle EXCEPT
                   !.pc = IF api.lookup THEN "lookup" ELSE "register",
                   !.n = call[t].n + 1, !.key = k, !.api = api]]
    /\ seen' = [seen EXCEPT ![t] = {<<"cache", cache[k]>>}]
    /\ UNCHANGED <<cache, waiters, wval, wlock, outside>>

(* A lookup, which treats a value as absent when replace_if says so.       *)
Lookups(t) ==
    {cache[call[t].key]} \cup (IF call[t].api.replace_if THEN {None} ELSE {})

(* The lookup before anything is registered.                               *)
Lookup(t) ==
    /\ call[t].pc = "lookup"
    /\ \E v \in Lookups(t) :
           IF v # None
           THEN Finish(t, "idle", Result("ReadExisting", v, call[t].api.get_key))
           ELSE Goto(t, IF call[t].api.fun = "insert" THEN "evaluate" ELSE "register")
    /\ UNCHANGED <<cache, waiters, wval, wlock, outside, seen>>

try_insert_waiter_overwrites(t) ==
    /\ call[t].pc = "register"
    /\ waiters' = [w \in DOMAIN waiters \cup {WKey(t)} |->
                      IF w = WKey(t) THEN Id(t) ELSE waiters[w]]
    /\ wval' = [c \in DOMAIN wval \cup {Id(t)} |->
                      IF c = Id(t) THEN Computing ELSE wval[c]]
    /\ wlock' = wlock \cup {Id(t)}
    /\ Goto(t, "check")
    /\ UNCHANGED <<cache, outside, seen>>

try_insert_waiter_unlocked(t) ==
    /\ call[t].pc = "register"
    /\ IF WKey(t) \in DOMAIN waiters
       THEN /\ call' = [call EXCEPT ![t].pc = "wait", ![t].existing = waiters[WKey(t)]]
            /\ UNCHANGED <<waiters, wval>>
       ELSE /\ waiters' = [w \in DOMAIN waiters \cup {WKey(t)} |->
                              IF w = WKey(t) THEN Id(t) ELSE waiters[w]]
            /\ wval' = [c \in DOMAIN wval \cup {Id(t)} |->
                              IF c = Id(t) THEN Computing ELSE wval[c]]
            /\ Goto(t, "check")
    /\ UNCHANGED <<cache, outside, seen, wlock>>

(* The new waiter is write-locked before it is offered to others.          *)
try_insert_waiter(t) ==
    /\ call[t].pc = "register"
    /\ IF WKey(t) \in DOMAIN waiters
       THEN /\ call' = [call EXCEPT ![t].pc = "wait", ![t].existing = waiters[WKey(t)]]
            /\ UNCHANGED <<waiters, wval, wlock>>
       ELSE /\ waiters' = [w \in DOMAIN waiters \cup {WKey(t)} |->
                              IF w = WKey(t) THEN Id(t) ELSE waiters[w]]
            /\ wval' = [c \in DOMAIN wval \cup {Id(t)} |->
                              IF c = Id(t) THEN Computing ELSE wval[c]]
            /\ wlock' = wlock \cup {Id(t)}
            /\ Goto(t, "check")
    /\ UNCHANGED <<cache, outside, seen>>

(* try_init_or_read: the result of somebody else's waiter.                 *)
ReadWaiter(t) ==
    LET w == wval[call[t].existing]
        need_key == call[t].api.need_key
    IN  /\ call[t].pc = "wait"
        /\ call[t].api.fun = "init"
        /\ call[t].existing \notin wlock
        /\ CASE w.state = "Ready" ->
                  Finish(t, "idle", Result("ReadExisting", w.val, need_key))
             [] w.state = "ReadyErr" ->
                  Finish(t, "idle", IF w.type = call[t].api.err
                                    THEN Result("InitErr", w.val, FALSE)
                                    ELSE Result("downcast failed", None, FALSE))
             [] w.state = "InitClosurePanicked" ->
                  IF call[t].retries + 1 < MAX_RETRIES
                  THEN call' = [call EXCEPT ![t].pc = "register", ![t].retries = @ + 1]
                  ELSE Finish(t, "idle", Result("too many retries", None, FALSE))
             [] OTHER -> Finish(t, "idle", Result("unexpected", None, FALSE))
        /\ UNCHANGED <<cache, waiters, wval, wlock, outside, seen>>

(* try_compute: only waits for the other call to end.                      *)
WaitForOthers(t) ==
    /\ call[t].pc = "wait"
    /\ call[t].api.fun = "compute"
    /\ call[t].existing \notin wlock
    /\ IF wval[call[t].existing] = Computing
       THEN Finish(t, "idle", Result("unexpected", None, FALSE))
       ELSE Goto(t, "register")
    /\ UNCHANGED <<cache, waiters, wval, wlock, outside, seen>>

SetWaiter(t, v) == wval' = [wval EXCEPT ![Id(t)] = v]

(* try_init_or_read: has the value been inserted meanwhile?                *)
CheckAgain(t) ==
    /\ call[t].pc = "check"
    /\ call[t].api.fun = "init"
    /\ \E v \in Lookups(t) :
           IF v # None
           THEN /\ SetWaiter(t, Ready(v))
                /\ Finish(t, "unregister", Result("ReadExisting", v, call[t].api.need_key))
           ELSE Goto(t, "evaluate") /\ UNCHANGED wval
    /\ UNCHANGED <<cache, waiters, wlock, outside, seen>>

GetEntry_none(t) ==
    /\ call[t].pc = "check"
    /\ call[t].api.fun = "compute"
    /\ call' = [call EXCEPT ![t].pc = "evaluate", ![t].old = None]
    /\ UNCHANGED <<cache, waiters, wval, wlock, outside, seen>>

(* try_compute: the entry that is passed to the closure.                   *)
GetEntry(t) ==
    /\ call[t].pc = "check"
    /\ call[t].api.fun = "compute"
    /\ call' = [call EXCEPT ![t].pc = "evaluate", ![t].old = cache[call[t].key]]
    /\ UNCHANGED <<cache, waiters, wval, wlock, outside, seen>>

ClosurePanics_leaks(t) ==
    /\ MayPanic
    /\ call[t].pc = "evaluate"
    /\ IF call[t].api.fun = "insert"
       THEN Finish(t, "idle", Result("panic", None, FALSE)) /\ UNCHANGED wval
       ELSE /\ SetWaiter(t, InitClosurePanicked)
            /\ Finish(t, "unlock", Result("panic", None, FALSE))
    /\ UNCHANGED <<cache, waiters, wlock, outside, seen>>

(* The closure panics; the waiter, if there is one, lets others retry.     *)
ClosurePanics(t) ==
    /\ MayPanic
    /\ call[t].pc = "evaluate"
    /\ IF call[t].api.fun = "insert"
       THEN Finish(t, "idle", Result("panic", None, FALSE)) /\ UNCHANGED wval
       ELSE /\ SetWaiter(t, InitClosurePanicked)
            /\ Finish(t, "unregister", Result("panic", None, FALSE))
    /\ UNCHANGED <<cache, waiters, wlock, outside, seen>>

(* try_init_or_read: the closure returns a value or an error.              *)
EvaluateInit(t) ==
    /\ call[t].pc = "evaluate"
    /\ call[t].api.fun \in {"init", "insert"}
    /\ \/ /\ "Ok" \in call[t].api.outs
          /\ Goto(t, "insert")
          /\ UNCHANGED wval
       \/ /\ "Err" \in call[t].api.outs
          /\ SetWaiter(t, ReadyErr(Id(t), call[t].api.err))
          /\ Finish(t, "unregister", Result("InitErr", Id(t), FALSE))
    /\ UNCHANGED <<cache, waiters, wlock, outside, seen>>

(* The Entry that an operation without effect returns.                     *)
NopResult(t) ==
    IF call[t].api.allow_nop /\ call[t].old # None
    THEN Result("Unchanged", call[t].old, TRUE)
    ELSE Result("StillNone", None, TRUE)

(* try_compute: the closure returns an operation or an error.  Either way  *)
(* the waiter is done, but stays locked and registered until the end.      *)
EvaluateCompute(t) ==
    /\ call[t].pc = "evaluate"
    /\ call[t].api.fun = "compute"
    /\ SetWaiter(t, ReadyNone)
    /\ \E out \in call[t].api.outs :
           \/ out = "Nop" /\ Finish(t, "unregister", NopResult(t))
           \/ out = "Err" /\ Finish(t, "unregister", Result("Err", None, FALSE))
           \/ out = "Put" /\ Goto(t, "insert")
           \/ out = "Remove" /\ Goto(t, "remove")
    /\ UNCHANGED <<cache, waiters, wlock, outside, seen>>

(* An insertion; a cache with max_capacity 0 keeps nothing.                *)
Put(t) ==
    /\ cache' = IF is_map_disabled THEN cache ELSE [cache EXCEPT ![call[t].key] = Id(t)]
    /\ Publish(call[t].key, "cache", Id(t))

(* get_or_insert_with_hash: an insertion without a waiter.                 *)
InsertDirectly(t) ==
    /\ call[t].pc = "insert"
    /\ call[t].api.fun = "insert"
    /\ Put(t)
    /\ Finish(t, "idle", Result("Initialized", Id(t), TRUE))
    /\ UNCHANGED <<waiters, wval, wlock, outside>>

(* try_init_or_read: the value is inserted, then put into the waiter.      *)
InsertInit(t) ==
    /\ call[t].pc = "insert"
    /\ call[t].api.fun = "init"
    /\ Put(t)
    /\ SetWaiter(t, Ready(Id(t)))
    /\ Finish(t, "unregister", Result("Initialized", Id(t), call[t].api.need_key))
    /\ UNCHANGED <<waiters, wlock, outside>>

(* Op::Put of try_compute.                                                 *)
InsertCompute(t) ==
    /\ call[t].pc = "insert"
    /\ call[t].api.fun = "compute"
    /\ Put(t)
    /\ Finish(t, "unregister",
           Result(IF call[t].old # None THEN "ReplacedWith" ELSE "Inserted", Id(t), TRUE))
    /\ UNCHANGED <<waiters, wval, wlock, outside>>

(* Op::Remove of try_compute.                                              *)
Remove(t) ==
    LET k == call[t].key
    IN  /\ call[t].pc = "remove"
        /\ cache' = [cache EXCEPT ![k] = None]
        /\ Publish(k, "cache", None)
        /\ Finish(t, "unregister",
               IF cache[k] # None THEN Result("Removed", cache[k], TRUE)
                                  ELSE Result("StillNone", None, TRUE))
        /\ UNCHANGED <<waiters, wval, wlock, outside>>

(* The waiter is removed by its key.                                       *)
remove_waiter(t) ==
    /\ call[t].pc = "unregister"
    /\ waiters' = [w \in DOMAIN waiters \ {WKey(t)} |-> waiters[w]]
    /\ Publish(call[t].key, "waiter", wval[Id(t)].val)
    /\ Goto(t, "unlock")
    /\ UNCHANGED <<cache, wval, wlock, outside>>

(* The write lock is released when the function returns.                   *)
Unlock(t) ==
    /\ call[t].pc = "unlock"
    /\ wlock' = wlock \ {Id(t)}
    /\ Goto(t, "idle")
    /\ UNCHANGED <<cache, waiters, wval, outside, seen>>

(* Evictions, invalidations and insertions that use no waiter.             *)
Outside(k) ==
    /\ \/ /\ cache[k] # None
          /\ cache' = [cache EXCEPT ![k] = None]
          /\ Publish(k, "cache", None)
          /\ MaxOutside > 0
          /\ UNCHANGED outside
       \/ /\ outside < MaxOutside
          /\ ~is_map_disabled
          /\ outside' = outside + 1
          /\ cache' = [cache EXCEPT ![k] = <<None, outside'>>]
          /\ Publish(k, "cache", <<None, outside'>>)
    /\ UNCHANGED <<waiters, wval, wlock, call>>

Work(t) ==
    \/ Lookup(t)
    \/ try_insert_waiter(t)
    \/ ReadWaiter(t)
    \/ WaitForOthers(t)
    \/ CheckAgain(t)
    \/ GetEntry(t)
    \/ ClosurePanics(t)
    \/ EvaluateInit(t)
    \/ EvaluateCompute(t)
    \/ InsertDirectly(t)
    \/ InsertInit(t)
    \/ InsertCompute(t)
    \/ Remove(t)
    \/ remove_waiter(t)
    \/ Unlock(t)

(* Every thread has made its calls.                                        *)
Finished ==
    /\ \A t \in Threads : ~Active(t) /\ call[t].n = MaxCalls
    /\ UNCHANGED vars

Next ==
    \/ \E t \in Threads : Work(t) \/ \E k \in Keys, api \in Apis : Begin(t, k, api)
    \/ \E k \in Keys : Outside(k)
    \/ Finished

(* A thread inside a call goes on: closures return or panic.               *)
Spec == Init /\ [][Next]_vars /\ \A t \in Threads : WF_vars(Work(t))

-----------------------------------------------------------------------------
(* The calls between the registration of a waiter and its removal.         *)
Registered(t) ==
    /\ call[t].pc \in {"check", "evaluate", "insert", "remove", "unregister"}
    /\ call[t].api.fun # "insert"

(* Of the calls with the same key and type, one at a time evaluates its    *)
(* closure and changes the cache (the "key-level lock" of the entry API).  *)
OneEvaluation ==
    \A t, u \in Threads :
        Registered(t) /\ Registered(u) /\ WKey(t) = WKey(u) => t = u

(* The waiters in the map are those of calls in progress, so none is left  *)
(* behind by a call that returned or panicked.                             *)
WaitersAreOwned ==
    \A w \in DOMAIN waiters :
        \E t \in Threads : Registered(t) /\ waiters[w] = Id(t) /\ w = WKey(t)

(* The panics that "might be a bug in Moka" and the unwrapped downcast of  *)
(* an error are never reached: a reader gets the lock of a waiter only     *)
(* after its result was set, and only one meant for its type.              *)
NoInternalPanic ==
    \A t \in Threads : call[t].res.kind \notin {"unexpected", "downcast failed"}

(* A result is not older than the call: it was in the cache, or in a       *)
(* waiter that was still registered, at some time between the call's start *)
(* and its end.                                                            *)
NoStaleResult ==
    \A t \in Threads :
        ~Active(t) /\ call[t].res.val # None
            => call[t].res.val \in {s[2] : s \in seen[t]}

(* "Discards any cached value for the key" (sync/cache.rs:1547): a value   *)
(* that get_with returns was in the cache at some time of the call, so it  *)
(* is not one that was discarded before the call.                          *)
NoDiscardedResult ==
    \A t \in Threads :
        ~Active(t) /\ call[t].res.kind \in {"ReadExisting", "Initialized"}
            => <<"cache", call[t].res.val>> \in seen[t]

(* Without outside changes, what a call with a waiter saw in the cache is  *)
(* still true when its closure has run: get_with does not overwrite a      *)
(* value, and and_compute_with loses no update.                            *)
NoLostUpdate ==
    \A t \in Threads :
        Registered(t) /\ call[t].pc \in {"evaluate", "insert", "remove"}
            => cache[call[t].key] = call[t].old

(* Every call returns, as long as closures do.                             *)
EveryCallReturns == \A t \in Threads : Active(t) ~> ~Active(t)

(* "unreachable!()" in insert_with_hash_and_fun (sync/cache.rs:1053):      *)
(* get_with never gets an error from the initializer.                      *)
GetWithNeverErrs ==
    \A t \in Threads :
        call[t].api = get_with => call[t].res.kind # "InitErr"

(* Entry::key (common/entry.rs) "Returns a reference to the wrapped key":  *)
(* the Entries that entry selectors return have their key.                 *)
EntriesHaveKeys ==
    \A t \in Threads :
        /\ call[t].api.need_key
        /\ call[t].res.kind \in {"ReadExisting", "Initialized", "Unchanged", "Inserted",
                                 "ReplacedWith", "Removed"}
        => call[t].res.key
=============================================================================

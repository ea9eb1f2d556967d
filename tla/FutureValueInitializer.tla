----------------------- MODULE FutureValueInitializer -----------------------
(***************************************************************************)
(* future/value_initializer.rs: how the tasks that call get_with or the    *)
(* entry API share one evaluation of their futures.                        *)
(*                                                                         *)
(* As in ValueInitializer, a call registers a write-locked waiter under    *)
(* its key and the type of its error.  But a call may be dropped at any    *)
(* await: the WaiterGuard then marks the waiter EnclosingFutureAborted and *)
(* removes it.  The awaits of insert_with_hash and invalidate_with_hash    *)
(* come before and after the cache is changed.                             *)
(***************************************************************************)
EXTENDS FutureEntryApi, Naturals, FiniteSets

CONSTANTS
    Tasks,
    Keys,
    None,             \* no value, no waiter; the author of outside changes
    Apis,             \* the methods that are called
    MaxCalls,         \* bound: calls per task
    MAX_RETRIES,      \* limit of retries after panics and aborts of others
    MayPanic,         \* whether futures may panic
    MayCancel,        \* whether calls may be dropped
    MaxOutside,       \* bound: values inserted from outside
    is_map_disabled   \* max_capacity is 0

KeysAssumption == Keys # {}
BoundsAssumption == MaxCalls \in Nat /\ MAX_RETRIES \in Nat /\ MaxOutside \in Nat

VARIABLES
    cache,     \* the value of a key, or None
    waiters,   \* <<key, type>> -> the call that registered a waiter
    wval,      \* WaiterValue of the waiters
    wlock,     \* the waiters that are write-locked
    call,      \* the current or last call of each task
    outside,   \* number of values inserted from outside
    seen       \* history: results that were in the cache, or in a registered
               \* waiter, at some time of the call

vars == <<cache, waiters, wval, wlock, call, outside, seen>>

WaiterValue(state, val) == [state |-> state, val |-> val, type |-> UnitType]
Computing == WaiterValue("Computing", None)
Ready(v) == WaiterValue("Ready", v)
ReadyErr(c, type) == [WaiterValue("ReadyErr", c) EXCEPT !.type = type]
ReadyNone == WaiterValue("ReadyNone", None)
InitFuturePanicked == WaiterValue("InitFuturePanicked", None)
EnclosingFutureAborted == WaiterValue("EnclosingFutureAborted", None)

(* What a call returns: InitResult or CompResult, a panic, or an Err.      *)
Result(kind, val, key) == [kind |-> kind, val |-> val, key |-> key]
NoResult == Result("none", None, FALSE)

AnyKey == CHOOSE k \in Keys : TRUE
Idle == [pc |-> "idle", n |-> 0, key |-> AnyKey, api |-> get_with, retries |-> 0,
         existing |-> None, old |-> None, set |-> Computing, res |-> NoResult]

Init ==
    /\ cache = [k \in Keys |-> None]
    /\ waiters = << >>
    /\ wval = << >>
    /\ wlock = {}
    /\ call = [t \in Tasks |-> Idle]
    /\ outside = 0
    /\ seen = [t \in Tasks |-> {}]

Id(t) == <<t, call[t].n>>
WKey(t) == <<call[t].key, call[t].api.type>>
Active(t) == call[t].pc # "idle"

Goto(t, pc) == call' = [call EXCEPT ![t].pc = pc]
Finish(t, res) == call' = [call EXCEPT ![t].pc = "idle", ![t].res = res]

(* The waiter's result is decided; set_waiter_value comes next.            *)
Settle(t, w, res) == call' = [call EXCEPT ![t].pc = "set", ![t].set = w, ![t].res = res]

(* The history of the calls in progress sees a result in the cache or in a *)
(* waiter.                                                                 *)
Publish(k, where, r) ==
    seen' = [t \in Tasks |->
                IF Active(t) /\ call[t].key = k THEN seen[t] \cup {<<where, r>>} ELSE seen[t]]

(* Between the registration of its waiter and its removal.                 *)
Registered(t) ==
    /\ call[t].pc \in {"check", "evaluate", "insert", "inserted", "remove", "removed",
                       "set", "unregister"}
    /\ call[t].api.fun # "insert"
-----------------------------------------------------------------------------
(* A call starts; its history starts with the cached value.                *)
Begin(t, k, api) ==
    /\ ~Active(t)
    /\ call[t].n < MaxCalls
    /\ call' = [call EXCEPT ![t] = [Idle EXCEPT
                   !.pc = IF api.lookup THEN "lookup" ELSE "register",
                   !.n = call[t].n + 1, !.key = k, !.api = api]]
    /\ seen' = [seen EXCEPT ![t] = {<<"cache", cache[k]>>}]
    /\ UNCHANGED <<cache, waiters, wval, wlock, outside>>

(* get_with_hash, which ignores the value when replace_if says so.         *)
get_with_hash(t) ==
    {cache[call[t].key]} \cup (IF call[t].api.replace_if THEN {None} ELSE {})

(* The lookup before anything is registered.                               *)
Lookup(t) ==
    /\ call[t].pc = "lookup"
    /\ \E v \in get_with_hash(t) :
           IF v # None
           THEN Finish(t, Result("ReadExisting", v, call[t].api.get_key))
           ELSE Goto(t, IF call[t].api.fun = "insert" THEN "evaluate" ELSE "register")
    /\ UNCHANGED <<cache, waiters, wval, wlock, outside, seen>>

(* The new waiter is write-locked before it is offered to others.          *)
try_insert_waiter(t) ==
    /\ call[t].pc = "register"
    /\ IF WKey(t) \in DOMAIN waiters
       THEN /\ call' = [call EXCEPT ![t].existing = waiters[WKey(t)],
                                    ![t].pc = IF call[t].api.fun = "compute_if_nobody_else"
                                              THEN "busy" ELSE "wait"]
            /\ UNCHANGED <<waiters, wval, wlock>>
       ELSE /\ waiters' = [w \in DOMAIN waiters \cup {WKey(t)} |->
                              IF w = WKey(t) THEN Id(t) ELSE waiters[w]]
            /\ wval' = [c \in DOMAIN wval \cup {Id(t)} |->
                              IF c = Id(t) THEN Computing ELSE wval[c]]
            /\ wlock' = wlock \cup {Id(t)}
            /\ Goto(t, "check")
    /\ UNCHANGED <<cache, outside, seen>>

(* try_init_or_read: the result of somebody else's waiter.                 *)
ReadWaiter(t) ==
    LET w == wval[call[t].existing]
    IN  /\ call[t].pc = "wait"
        /\ call[t].api.fun = "init"
        /\ call[t].existing \notin wlock
        /\ CASE w.state = "Ready" ->
                  Finish(t, Result("ReadExisting", w.val, call[t].api.need_key))
             [] w.state = "ReadyErr" ->
                  Finish(t, IF w.type = call[t].api.err
                            THEN Result("InitErr", w.val, FALSE)
                            ELSE Result("downcast failed", None, FALSE))
             [] w.state \in {"InitFuturePanicked", "EnclosingFutureAborted"} ->
                  IF call[t].retries + 1 < MAX_RETRIES
                  THEN call' = [call EXCEPT ![t].pc = "register", ![t].retries = @ + 1]
                  ELSE Finish(t, Result("too many retries", None, FALSE))
             [] OTHER -> Finish(t, Result("unexpected", None, FALSE))
        /\ UNCHANGED <<cache, waiters, wval, wlock, outside, seen>>

(* try_compute: only waits for the other call to end.                      *)
WaitForOthers(t) ==
    /\ call[t].pc = "wait"
    /\ call[t].existing \notin wlock
    /\ IF wval[call[t].existing] = Computing
       THEN Finish(t, Result("unexpected", None, FALSE))
       ELSE Goto(t, "register")
    /\ UNCHANGED <<cache, waiters, wval, wlock, outside, seen>>

(* try_compute_if_nobody_else: returns the value of the moment.            *)
GiveUp(t) ==
    LET v == cache[call[t].key]
    IN  /\ call[t].pc = "busy"
        /\ Finish(t, IF v # None THEN Result("Unchanged", v, TRUE)
                                 ELSE Result("StillNone", None, TRUE))
        /\ UNCHANGED <<cache, waiters, wval, wlock, outside, seen>>

(* try_init_or_read: has the value been inserted meanwhile?                *)
CheckAgain(t) ==
    /\ call[t].pc = "check"
    /\ \E v \in get_with_hash(t) :
           IF v # None
           THEN Settle(t, Ready(v), Result("ReadExisting", v, call[t].api.need_key))
           ELSE Goto(t, "evaluate")
    /\ UNCHANGED <<cache, waiters, wval, wlock, outside, seen>>

(* try_compute: the entry that is passed to the closure.                   *)
GetEntry(t) ==
    /\ call[t].pc = "check"
    /\ call' = [call EXCEPT ![t].pc = "evaluate", ![t].old = cache[call[t].key]]
    /\ UNCHANGED <<cache, waiters, wval, wlock, outside, seen>>

(* The future, or the closure that makes it, panics.                       *)
FuturePanics(t) ==
    /\ MayPanic
    /\ call[t].pc = "evaluate"
    /\ IF call[t].api.fun = "insert"
       THEN Finish(t, Result("panic", None, FALSE))
       ELSE Settle(t, InitFuturePanicked, Result("panic", None, FALSE))
    /\ UNCHANGED <<cache, waiters, wval, wlock, outside, seen>>

(* try_init_or_read: the future resolves to a value or an error.           *)
ResolveInit(t) ==
    /\ call[t].pc = "evaluate"
    /\ \/ /\ "Ok" \in call[t].api.outs
          /\ Goto(t, "insert")
       \/ /\ "Err" \in call[t].api.outs
          /\ Settle(t, ReadyErr(Id(t), call[t].api.err), Result("InitErr", Id(t), FALSE))
    /\ UNCHANGED <<cache, waiters, wval, wlock, outside, seen>>

(* try_compute: the future resolves to an operation or an error.           *)
ResolveCompute(t) ==
    /\ call[t].pc = "evaluate"
    /\ \E out \in call[t].api.outs :
           \/ /\ out = "Nop"
              /\ Settle(t, ReadyNone, IF call[t].api.allow_nop /\ call[t].old # None
                                      THEN Result("Unchanged", call[t].old, TRUE)
                                      ELSE Result("StillNone", None, TRUE))
           \/ out = "Err" /\ Settle(t, ReadyNone, Result("Err", None, FALSE))
           \/ out = "Put" /\ Goto(t, "insert")
           \/ out = "Remove" /\ Goto(t, "remove")
    /\ UNCHANGED <<cache, waiters, wval, wlock, outside, seen>>

(* insert_with_hash changes the cache, unless max_capacity is 0, and then  *)
(* waits until its write operation is queued.                              *)
insert_with_hash(t) ==
    /\ call[t].pc = "insert"
    /\ cache' = IF is_map_disabled THEN cache ELSE [cache EXCEPT ![call[t].key] = Id(t)]
    /\ Publish(call[t].key, "cache", Id(t))
    /\ Goto(t, "inserted")
    /\ UNCHANGED <<waiters, wval, wlock, outside>>

(* It has returned.                                                        *)
AfterInsert(t) ==
    /\ call[t].pc = "inserted"
    /\ CASE call[t].api.fun = "insert" -> Finish(t, Result("Initialized", Id(t), TRUE))
         [] call[t].api.fun = "init" ->
              Settle(t, Ready(Id(t)), Result("Initialized", Id(t), call[t].api.need_key))
         [] OTHER ->
              Settle(t, ReadyNone,
                  Result(IF call[t].old # None THEN "ReplacedWith" ELSE "Inserted", Id(t), TRUE))
    /\ UNCHANGED <<cache, waiters, wval, wlock, outside, seen>>

(* invalidate_with_hash removes the entry and then waits likewise.         *)
invalidate_with_hash(t) ==
    LET k == call[t].key
    IN  /\ call[t].pc = "remove"
        /\ cache' = [cache EXCEPT ![k] = None]
        /\ Publish(k, "cache", None)
        /\ call' = [call EXCEPT ![t].pc = "removed", ![t].res =
               IF cache[k] # None THEN Result("Removed", cache[k], TRUE)
                                  ELSE Result("StillNone", None, TRUE)]
        /\ UNCHANGED <<waiters, wval, wlock, outside>>

AfterRemove(t) ==
    /\ call[t].pc = "removed"
    /\ Settle(t, ReadyNone, call[t].res)
    /\ UNCHANGED <<cache, waiters, wval, wlock, outside, seen>>

(* WaiterGuard::set_waiter_value, followed by the removal of the waiter.   *)
set_waiter_value(t) ==
    /\ call[t].pc = "set"
    /\ wval' = [wval EXCEPT ![Id(t)] = call[t].set]
    /\ Goto(t, "unregister")
    /\ UNCHANGED <<cache, waiters, wlock, outside, seen>>

(* The waiter is removed by its key.                                       *)
remove_waiter(t) ==
    /\ call[t].pc = "unregister"
    /\ waiters' = [w \in DOMAIN waiters \ {WKey(t)} |-> waiters[w]]
    /\ Publish(call[t].key, "waiter", wval[Id(t)].val)
    /\ Goto(t, "unlock")
    /\ UNCHANGED <<cache, wval, wlock, outside>>

(* The write lock is released when the guard is gone.                      *)
Unlock(t) ==
    /\ call[t].pc = "unlock"
    /\ wlock' = wlock \ {Id(t)}
    /\ Goto(t, "idle")
    /\ UNCHANGED <<cache, waiters, wval, outside, seen>>

Cancelled == Result("cancelled", None, FALSE)

(* The places where a call can be suspended, and so dropped.               *)
AwaitPoints ==
    {"lookup", "wait", "busy", "check", "evaluate", "insert", "inserted", "remove", "removed"}

Drop_leaks(t) ==
    /\ MayCancel
    /\ call[t].pc \in AwaitPoints
    /\ call' = [call EXCEPT ![t].pc = IF Registered(t) THEN "unlock" ELSE "idle",
                            ![t].res = Cancelled]
    /\ wval' = [c \in DOMAIN wval |->
                   IF Registered(t) /\ c = Id(t) THEN EnclosingFutureAborted ELSE wval[c]]
    /\ UNCHANGED <<cache, waiters, wlock, outside, seen>>

(* The call is dropped at an await.  If there is a WaiterGuard, its Drop   *)
(* marks the waiter and removes it.                                        *)
Drop(t) ==
    /\ MayCancel
    /\ call[t].pc \in AwaitPoints
    /\ IF Registered(t)
       THEN /\ wval' = [wval EXCEPT ![Id(t)] = EnclosingFutureAborted]
            /\ call' = [call EXCEPT ![t].pc = "unregister", ![t].res = Cancelled]
       ELSE Finish(t, Cancelled) /\ UNCHANGED wval
    /\ UNCHANGED <<cache, waiters, wlock, outside, seen>>

(* Evictions, invalidations and insertions that use no waiter.             *)
Outside(k) ==
    /\ \/ /\ cache[k] # None
          /\ cache' = [cache EXCEPT ![k] = None]
          /\ Publish(k, "cache", None)
          /\ MaxOutside > 0
          /\ UNCHANGED outside
       \/ /\ outside < MaxOutside
          /\ ~is_map_disabled
          /\ outside' = outside + 1
          /\ cache' = [cache EXCEPT ![k] = <<None, outside'>>]
          /\ Publish(k, "cache", <<None, outside'>>)
    /\ UNCHANGED <<waiters, wval, wlock, call>>

(* The steps of the functions of ValueInitializer.                         *)
try_init_or_read(t) ==
    /\ call[t].api.fun = "init"
    /\ \/ try_insert_waiter(t)
       \/ ReadWaiter(t)
       \/ CheckAgain(t)
       \/ FuturePanics(t)
       \/ ResolveInit(t)
       \/ insert_with_hash(t)
       \/ AfterInsert(t)
       \/ set_waiter_value(t)

ComputeSteps(t) ==
    \/ try_insert_waiter(t)
    \/ GetEntry(t)
    \/ FuturePanics(t)
    \/ ResolveCompute(t)
    \/ insert_with_hash(t)
    \/ AfterInsert(t)
    \/ invalidate_with_hash(t)
    \/ AfterRemove(t)
    \/ set_waiter_value(t)

try_compute(t) ==
    /\ call[t].api.fun = "compute"
    /\ WaitForOthers(t) \/ ComputeSteps(t)

try_compute_if_nobody_else(t) ==
    /\ call[t].api.fun = "compute_if_nobody_else"
    /\ GiveUp(t) \/ ComputeSteps(t)

(* or_insert uses no waiter.                                               *)
get_or_insert(t) ==
    /\ call[t].api.fun = "insert"
    /\ \/ FuturePanics(t)
       \/ ResolveInit(t)
       \/ insert_with_hash(t)
       \/ AfterInsert(t)

Work(t) ==
    \/ Lookup(t)
    \/ try_init_or_read(t)
    \/ try_compute(t)
    \/ try_compute_if_nobody_else(t)
    \/ get_or_insert(t)
    \/ remove_waiter(t)
    \/ Unlock(t)
    \/ Drop(t)

(* Every task has made its calls.                                          *)
Finished ==
    /\ \A t \in Tasks : ~Active(t) /\ call[t].n = MaxCalls
    /\ UNCHANGED vars

Next ==
    \/ \E t \in Tasks : Work(t) \/ \E k \in Keys, api \in Apis : Begin(t, k, api)
    \/ \E k \in Keys : Outside(k)
    \/ Finished

(* A call goes on or is dropped: its task is polled, its future resolves.  *)
Spec == Init /\ [][Next]_vars /\ \A t \in Tasks : WF_vars(Work(t))
-----------------------------------------------------------------------------
(* Of the calls with the same key and type, one at a time evaluates its    *)
(* future and changes the cache, cancelled calls included.                 *)
OneEvaluation ==
    \A t, u \in Tasks : Registered(t) /\ Registered(u) /\ WKey(t) = WKey(u) => t = u

(* A call that returned, panicked or was dropped leaves no waiter behind   *)
(* ("Remove our waiter to prevent the issue", WaiterGuard::drop).          *)
WaitersAreOwned ==
    \A w \in DOMAIN waiters :
        \E t \in Tasks : Registered(t) /\ waiters[w] = Id(t) /\ w = WKey(t)

(* The panics that "might be a bug in Moka" and the failure of the         *)
(* downcast are unreachable, whenever calls are dropped.                   *)
NoInternalPanic ==
    \A t \in Tasks : call[t].res.kind \notin {"unexpected", "downcast failed"}

(* A result is not older than the call: it was in the cache, or in a       *)
(* waiter that was still registered, at some time of the call.             *)
NoStaleResult ==
    \A t \in Tasks :
        ~Active(t) /\ call[t].res.val # None
            => call[t].res.val \in {s[2] : s \in seen[t]}

(* "concurrent callers cannot insert their own waiter and observe stale    *)
(* cache state" (try_compute): without outside changes, what a call saw is *)
(* still in the cache when it writes, dropped calls in between or not.     *)
NoLostUpdate ==
    \A t \in Tasks :
        Registered(t) /\ call[t].pc \in {"evaluate", "insert", "remove"}
            => cache[call[t].key] = call[t].old

(* Every call returns, however many others are dropped or panic.           *)
EveryCallReturns == \A t \in Tasks : Active(t) ~> ~Active(t)

(* "unreachable!()" in insert_with_hash_and_fun (future/cache.rs:1597):    *)
(* get_with never gets an error from the initializer.                      *)
GetWithNeverErrs ==
    \A t \in Tasks : call[t].api = get_with => call[t].res.kind # "InitErr"

(* Entry::key: the Entries that entry selectors return have their key.     *)
EntriesHaveKeys ==
    \A t \in Tasks :
        /\ ~Active(t)
        /\ call[t].api.need_key
        /\ call[t].res.kind \in {"ReadExisting", "Initialized", "Unchanged", "Inserted",
                                 "ReplacedWith", "Removed"}
        => call[t].res.key
=============================================================================

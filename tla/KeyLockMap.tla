----------------------------- MODULE KeyLockMap -----------------------------
(***************************************************************************)
(* The key-level locks of a cache with an eviction listener                *)
(* (sync/key_lock.rs; future/key_lock.rs differs only in that a task       *)
(* waiting for the mutex may be cancelled).                                *)
(*                                                                         *)
(* A lock is a reference-counted mutex kept in a concurrent hash table     *)
(* under its key.  Whoever drops a KeyLock and finds that only the table   *)
(* and itself refer to the mutex removes it from the table.  The table     *)
(* evaluates the condition of a conditional removal before the CAS that    *)
(* removes, and a lookup loads the bucket before it clones the reference,  *)
(* so these are steps of their own.  The table frees what it removed only  *)
(* when no thread that was pinned at the removal still is.                 *)
(***************************************************************************)
EXTENDS Naturals, FiniteSets, TLC

CONSTANTS
    Threads,   \* callers of the cache
    Tasks,     \* those of them that are futures and may be cancelled
    Keys,
    None,      \* no mutex, no thread
    MaxCalls   \* bound: lock requests per thread

KeyLockAssumption == Tasks \subseteq Threads /\ MaxCalls \in Nat

(* A mutex is identified by who allocated it and in which call.            *)
Locks == Threads \X (1 .. MaxCalls)

VARIABLES
    locks,    \* KeyLockMap::locks: the mutex of a key, None when absent or a tombstone
    owner,    \* the thread holding a mutex, or None
    count,    \* MiniArc::count of a mutex; 0 when freed or not allocated
    pinned,   \* threads inside a crossbeam epoch guard
    limbo,    \* removed mutexes, with the guards their destruction waits for
    th        \* the calls: pc, key, the KeyLock's mutex, the mutex seen in the table

vars == <<locks, owner, count, pinned, limbo, th>>

(* A call that has no KeyLock.                                             *)
NoKeyLock == [pc |-> "idle", key |-> CHOOSE k \in Keys : TRUE,
              lock |-> None, seen |-> None, calls |-> 0]

Init ==
    /\ locks = [k \in Keys |-> None]
    /\ owner = [l \in Locks |-> None]
    /\ count = [l \in Locks |-> 0]
    /\ pinned = {}
    /\ limbo = <<>>
    /\ th = [t \in Threads |-> NoKeyLock]

Step(t, pc) == th' = [th EXCEPT ![t].pc = pc]

(* Dropping the epoch guard lets destructions that wait for it go on.      *)
Unpin(t) ==
    /\ pinned' = pinned \ {t}
    /\ limbo' = [l \in DOMAIN limbo |-> limbo[l] \ {t}]

-----------------------------------------------------------------------------
(* key_lock: allocates a mutex and probes the table.  When the key has     *)
(* none, the CAS that inserts it follows; otherwise the bucket holds a     *)
(* pointer to the existing one, which is cloned next.                      *)
NewLock(t, k) ==
    LET kl == <<t, th[t].calls + 1>>
    IN  /\ th[t].pc = "idle"
        /\ th[t].calls < MaxCalls
        /\ count' = [count EXCEPT ![kl] = 2]      \* kl and its clone
        /\ pinned' = pinned \cup {t}
        /\ th' = [th EXCEPT ![t] =
                     [pc |-> IF locks[k] = None THEN "insert" ELSE "clone",
                      key |-> k, lock |-> kl, seen |-> locks[k], calls |-> kl[2]]]
        /\ UNCHANGED <<locks, owner, limbo>>

(* insert_if_not_present: the CAS on an empty bucket or a tombstone, or a  *)
(* reload when another thread has inserted.                                *)
InsertLock(t) ==
    /\ th[t].pc = "insert"
    /\ LET k == th[t].key
       IN  IF locks[k] = None
           THEN /\ locks' = [locks EXCEPT ![k] = th[t].lock]
                /\ Step(t, "lock")
                /\ Unpin(t)
                /\ UNCHANGED <<owner, count>>
           ELSE /\ th' = [th EXCEPT ![t].pc = "clone", ![t].seen = locks[k]]
                /\ UNCHANGED <<locks, owner, count, pinned, limbo>>

(* Already present: the existing reference is cloned, the new mutex freed. *)
CloneExisting(t) ==
    /\ th[t].pc = "clone"
    /\ count' = [count EXCEPT ![th[t].seen] = @ + 1, ![th[t].lock] = 0]
    /\ th' = [th EXCEPT ![t].pc = "lock", ![t].lock = th[t].seen]
    /\ Unpin(t)
    /\ UNCHANGED <<locks, owner>>

(* KeyLock::lock: blocks until the mutex is free.                          *)
Lock(t) ==
    /\ th[t].pc = "lock"
    /\ owner[th[t].lock] = None
    /\ owner' = [owner EXCEPT ![th[t].lock] = t]
    /\ Step(t, "locked")
    /\ UNCHANGED <<locks, count, pinned, limbo>>

(* The future waiting in lock().await is dropped, and the KeyLock with it. *)
CancelLock(t) ==
    /\ t \in Tasks
    /\ th[t].pc = "lock"
    /\ Step(t, "drop")
    /\ UNCHANGED <<locks, owner, count, pinned, limbo>>

(* The guard of the mutex is dropped before the KeyLock.  A task may also  *)
(* be cancelled while it holds the mutex, with the same effect.            *)
Unlock(t) ==
    /\ th[t].pc = "locked"
    /\ owner' = [owner EXCEPT ![th[t].lock] = None]
    /\ Step(t, "drop")
    /\ UNCHANGED <<locks, count, pinned, limbo>>

(* KeyLock::drop: nobody else seems to use the mutex.                      *)
Unused(l) == count[l] <= 2

DropKeyLock(t) ==
    /\ th[t].pc = "drop"
    /\ IF Unused(th[t].lock)
       THEN Step(t, "remove") /\ pinned' = pinned \cup {t}
       ELSE Step(t, "release") /\ UNCHANGED pinned
    /\ UNCHANGED <<locks, owner, count, limbo>>

(* remove_if: loads the bucket of the key, whichever mutex it holds now,   *)
(* and evaluates the condition on it.                                      *)
RemoveIfLoad(t) ==
    /\ th[t].pc = "remove"
    /\ LET v == locks[th[t].key]
       IN  IF v # None /\ Unused(v)
           THEN /\ th' = [th EXCEPT ![t].pc = "cas", ![t].seen = v]
                /\ UNCHANGED <<pinned, limbo>>
           ELSE Step(t, "release") /\ Unpin(t)
    /\ UNCHANGED <<locks, owner, count>>

(* The CAS that leaves a tombstone, or a reload.  The destruction of the   *)
(* removed value waits for the guards that exist now.                      *)
RemoveIfCas(t) ==
    /\ th[t].pc = "cas"
    /\ LET k == th[t].key
           v == th[t].seen
       IN  IF locks[k] = v
           THEN /\ locks' = [locks EXCEPT ![k] = None]
                /\ pinned' = pinned \ {t}
                /\ limbo' = [l \in DOMAIN limbo \cup {v} |->
                                (IF l = v THEN pinned ELSE limbo[l]) \ {t}]
                /\ Step(t, "release")
           ELSE /\ Step(t, "remove")
                /\ UNCHANGED <<locks, pinned, limbo>>
    /\ UNCHANGED <<owner, count>>

(* The field `lock` of the KeyLock is dropped.                             *)
Release(t) ==
    /\ th[t].pc = "release"
    /\ count' = [count EXCEPT ![th[t].lock] = @ - 1]
    /\ th' = [th EXCEPT ![t].pc = "idle", ![t].lock = None, ![t].seen = None]
    /\ UNCHANGED <<locks, owner, pinned, limbo>>

(* crossbeam destroys a removed value: the reference of the table goes.    *)
DestroyWaits_not(l) == FALSE

DestroyWaits(l) == limbo[l] # {}

Destroy(l) ==
    /\ l \in DOMAIN limbo
    /\ ~DestroyWaits(l)
    /\ count' = [count EXCEPT ![l] = @ - 1]
    /\ limbo' = [m \in DOMAIN limbo \ {l} |-> limbo[m]]
    /\ UNCHANGED <<locks, owner, pinned, th>>

Work(t) ==
    \/ InsertLock(t)
    \/ CloneExisting(t)
    \/ Lock(t)
    \/ Unlock(t)
    \/ DropKeyLock(t)
    \/ RemoveIfLoad(t)
    \/ RemoveIfCas(t)
    \/ Release(t)

(* Threads are interchangeable when all of them may be cancelled.          *)
ThreadSymmetry == Permutations(Threads)

(* All calls are made and all garbage is collected.                        *)
Finished ==
    /\ \A t \in Threads : th[t].pc = "idle" /\ th[t].calls = MaxCalls
    /\ DOMAIN limbo = {}
    /\ UNCHANGED vars

Next ==
    \/ \E t \in Threads : Work(t) \/ CancelLock(t) \/ \E k \in Keys : NewLock(t, k)
    \/ \E l \in Locks : Destroy(l)
    \/ Finished

(* Threads inside a call go on; the mutexes hand themselves over to every  *)
(* waiter eventually (parking_lot and async_lock are eventually fair).     *)
Spec ==
    /\ Init
    /\ [][Next]_vars
    /\ \A t \in Threads : WF_vars(Work(t)) /\ SF_vars(Lock(t))

-----------------------------------------------------------------------------
(* The mutexes a thread is about to read or write through a pointer.       *)
Reachable(t) ==
    (IF th[t].pc \in {"clone", "cas"} THEN {th[t].seen} ELSE {}) \cup
    (IF th[t].pc = "idle" THEN {} ELSE {th[t].lock})

(* No thread can reach a mutex that has been freed: neither through its    *)
(* KeyLock, nor through a bucket it loaded from the table and has not      *)
(* cloned from yet (the window that the epoch guard covers).               *)
NoUseAfterFree == \A t \in Threads : \A l \in Reachable(t) : count[l] > 0

(* The reference count that KeyLock::drop compares with 2 counts exactly   *)
(* the table (until the destruction of what it removed) and the KeyLocks.  *)
CountIsReferences ==
    \A l \in Locks :
        count[l] > 0 =>
            count[l] = Cardinality({t \in Threads :
                           /\ th[t].lock = l
                           /\ th[t].pc \notin {"idle", "insert", "clone"}})
                     + 2 * Cardinality({t \in Threads :
                           th[t].lock = l /\ th[t].pc \in {"insert", "clone"}})
                     + (IF \E k \in Keys : locks[k] = l THEN 1 ELSE 0)
                     + (IF l \in DOMAIN limbo THEN 1 ELSE 0)

Busy(t) == th[t].pc # "idle"

(* Every request for a key lock is served and its KeyLock dropped, however *)
(* removals of the mutex from the table race with other requests.          *)
EveryRequestEnds == \A t \in Threads : Busy(t) ~> ~Busy(t)

(* What the key-level lock is for (sync/cache.rs:4839, "so that the        *)
(* notifications for a given key should always be ordered"): two threads   *)
(* never hold the lock of one key at a time.                               *)
KeyLockExclusive ==
    \A t, u \in Threads :
        t # u /\ th[t].pc = "locked" /\ th[u].pc = "locked" => th[t].key # th[u].key

(* What the tests assert at their end (sync/cache.rs:4836,                 *)
(* key_locks_map_is_empty): no mutex stays behind when no one uses one.    *)
UnusedLocksRemoved ==
    (\A t \in Threads : th[t].pc = "idle") => \A k \in Keys : locks[k] = None

=============================================================================

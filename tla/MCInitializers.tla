-------------------------- MODULE MCInitializers ----------------------------
(***************************************************************************)
(* The value initializers and the methods that use them, of the sync cache *)
(* (ValueInitializer) and of the future cache (FutureValueInitializer, its *)
(* variables with the prefix f_). A behaviour is of one part; the methods  *)
(* called differ from part to part.                                        *)
(***************************************************************************)
EXTENDS ValueInitializer, TLC

CONSTANTS t1, t2

VARIABLES
    part,      \* the part this behaviour is of
    f_cache, f_waiters, f_wval, f_wlock, f_call, f_outside, f_seen

(* Methods whose waiters must be kept apart.                               *)
TypedApis == {get_with, optionally_get_with, try_get_with("E1"), and_try_compute_with}

Methods == INSTANCE FutureEntryApi
FutureTypedApis == {Methods!get_with, Methods!optionally_get_with, Methods!try_get_with("E1"),
                    Methods!and_try_compute_with, Methods!and_try_compute_if_nobody_else}

Symmetry == Permutations({t1, t2})

-----------------------------------------------------------------------------
(* Closures with replace_if, while others change the cache.                *)
Get == INSTANCE ValueInitializer WITH
    Threads <- {t1, t2}, Keys <- {"k"}, Apis <- {get_with_if},
    MaxCalls <- 2, MAX_RETRIES <- 2, MayPanic <- FALSE, MaxOutside <- 1,
    is_map_disabled <- FALSE

(* Threads that replace the value by one computed from it.                 *)
Compute == INSTANCE ValueInitializer WITH
    Threads <- {t1, t2}, Keys <- {"k"},
    Apis <- {and_try_compute_with, and_upsert_with}, MaxCalls <- 2,
    MAX_RETRIES <- 2, MayPanic <- TRUE, MaxOutside <- 0,
    is_map_disabled <- FALSE

(* Futures whose waiters must be kept apart, any of which may be dropped.  *)
FutureTypes == INSTANCE FutureValueInitializer WITH
    Tasks <- {t1, t2}, Keys <- {"k"}, Apis <- FutureTypedApis,
    MaxCalls <- 1, MAX_RETRIES <- 2, MayPanic <- TRUE, MayCancel <- TRUE,
    MaxOutside <- 0, is_map_disabled <- FALSE, cache <- f_cache,
    waiters <- f_waiters, wval <- f_wval, wlock <- f_wlock, call <- f_call,
    outside <- f_outside, seen <- f_seen
ASSUME FutureTypes!KeysAssumption
ASSUME FutureTypes!BoundsAssumption

(* Futures with replace_if, while others change the cache.                 *)
FutureGet == INSTANCE FutureValueInitializer WITH
    Tasks <- {t1, t2}, Keys <- {"k"}, Apis <- {Methods!get_with_if},
    MaxCalls <- 2, MAX_RETRIES <- 2, MayPanic <- FALSE, MayCancel <- FALSE,
    MaxOutside <- 1, is_map_disabled <- FALSE, cache <- f_cache,
    waiters <- f_waiters, wval <- f_wval, wlock <- f_wlock, call <- f_call,
    outside <- f_outside, seen <- f_seen

(* Tasks that replace the value by one computed from it.                   *)
FutureCompute == INSTANCE FutureValueInitializer WITH
    Tasks <- {t1, t2}, Keys <- {"k"},
    Apis <- {Methods!and_try_compute_with}, MaxCalls <- 2, MAX_RETRIES <- 2,
    MayPanic <- TRUE, MayCancel <- TRUE, MaxOutside <- 0,
    is_map_disabled <- FALSE, cache <- f_cache, waiters <- f_waiters,
    wval <- f_wval, wlock <- f_wlock, call <- f_call, outside <- f_outside,
    seen <- f_seen

(* Every method of the entry selectors.                                    *)
FutureSelectors == INSTANCE FutureValueInitializer WITH
    Tasks <- {t1, t2}, Keys <- {"k"}, Apis <- Methods!SelectorApis({"E1"}),
    MaxCalls <- 1, MAX_RETRIES <- 2, MayPanic <- FALSE, MayCancel <- FALSE,
    MaxOutside <- 0, is_map_disabled <- FALSE, cache <- f_cache,
    waiters <- f_waiters, wval <- f_wval, wlock <- f_wlock, call <- f_call,
    outside <- f_outside, seen <- f_seen

-----------------------------------------------------------------------------
MCInit ==
    \/ /\ \/ part = "types" /\ Init
          \/ part = "get" /\ Get!Init
          \/ part = "compute" /\ Compute!Init
       /\ f_cache = None /\ f_waiters = None /\ f_wval = None
       /\ f_wlock = None /\ f_call = None /\ f_outside = None
       /\ f_seen = None
    \/ /\ \/ part = "future_types" /\ FutureTypes!Init
          \/ part = "future_get" /\ FutureGet!Init
          \/ part = "future_compute" /\ FutureCompute!Init
          \/ part = "future_selectors" /\ FutureSelectors!Init
       /\ Init

MCNext ==
    \/ /\ \/ part = "types" /\ Next
          \/ part = "get" /\ Get!Next
          \/ part = "compute" /\ Compute!Next
       /\ UNCHANGED <<part, f_cache, f_waiters, f_wval, f_wlock, f_call,
                   f_outside, f_seen>>
    \/ /\ \/ part = "future_types" /\ FutureTypes!Next
          \/ part = "future_get" /\ FutureGet!Next
          \/ part = "future_compute" /\ FutureCompute!Next
          \/ part = "future_selectors" /\ FutureSelectors!Next
       /\ UNCHANGED <<part, vars>>

mcvars == <<part, vars, f_cache, f_waiters, f_wval, f_wlock, f_call, f_outside, f_seen>>

MCSpec == MCInit /\ [][MCNext]_mcvars
-----------------------------------------------------------------------------
(* A call does not return a value that was removed before it began,        *)
(* although it may take its result from the waiter of another call; and of *)
(* the computations of a key each sees the value that the one before it    *)
(* left, although panics and dropped futures come in between.              *)
ReadsAreCurrent ==
    /\ part = "get" => Get!NoStaleResult
    /\ part = "future_get" => FutureGet!NoStaleResult
    /\ part = "compute" => Compute!NoLostUpdate
    /\ part = "future_compute" => FutureCompute!NoLostUpdate

(* In the future cache too the closures of a key are evaluated one at a    *)
(* time, a waiter is registered only while a call owns it, no call reads a *)
(* result of another type or a waiter that is not ready, and an Entry has  *)
(* the key that was asked for, whichever futures are dropped.              *)
FutureInitSafe ==
    /\ part = "future_types" => /\ FutureTypes!OneEvaluation
                                /\ FutureTypes!WaitersAreOwned
                                /\ FutureTypes!NoInternalPanic
    /\ part = "future_get" => /\ FutureGet!OneEvaluation
                              /\ FutureGet!WaitersAreOwned
    /\ part = "future_compute" => /\ FutureCompute!OneEvaluation
                                  /\ FutureCompute!WaitersAreOwned
    /\ part = "future_selectors" => FutureSelectors!EntriesHaveKeys
=============================================================================

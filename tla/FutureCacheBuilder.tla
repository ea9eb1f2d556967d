------------------------- MODULE FutureCacheBuilder -------------------------
(***************************************************************************)
(* The builder of a future cache (src/future/builder.rs).  It is that of   *)
(* the sync cache without segments(), and with two kinds of listeners: an  *)
(* async one is kept as it is, a plain one is wrapped in a closure whose   *)
(* future is ready when the listener returns.                              *)
(***************************************************************************)
EXTENDS Naturals, Sequences

CONSTANTS
    None,
    Names, Capacities, InitialCapacities, Weighers, Listeners, Expiries,
    Durations, MaxDuration, LogSize, TaskTimeout

VARIABLES builder, cache_type, asked, cache, panicked

vars == <<builder, cache_type, asked, cache, panicked>>

S == INSTANCE CacheBuilder WITH NumSegments <- {}

default == S!default
Init == S!Init
-----------------------------------------------------------------------------
Housekeeper_new(is_eviction_listener_enabled, config) ==
    S!Housekeeper_new(is_eviction_listener_enabled, config)

Inner_new(b) == S!Inner_new(b)

(* The operations of dropped tasks have a channel of their own, unbounded. *)
BaseCache_new(b) ==
    LET size == IF b.max_capacity = 0 THEN 0 ELSE LogSize IN
    [inner |-> Inner_new(b), read_op_ch |-> size, write_op_ch |-> size,
     interrupted_op_ch |-> <<>>,
     housekeeper |-> Housekeeper_new(b.eviction_listener # None, b.housekeeper_config)]

with_everything(b) == BaseCache_new(b)
Inner_policy(i) == S!Inner_policy(i)
-----------------------------------------------------------------------------
Cache_builder == S!Cache_builder
new(n) == S!new(n)
name(s) == S!name(s)
max_capacity(n) == S!max_capacity(n)
initial_capacity(n) == S!initial_capacity(n)
eviction_policy(p) == S!eviction_policy(p)
weigher(w) == S!weigher(w)

async_eviction_listener(l) ==
    S!Configure([builder EXCEPT !.eviction_listener = l]) /\ S!Ask("eviction_listener", l)

eviction_listener(l) == async_eviction_listener([then_ready |-> l])

time_to_live(d) == S!time_to_live(d)
time_to_idle(d) == S!time_to_idle(d)
expire_after(e) == S!expire_after(e)

support_invalidation_closures == S!support_invalidation_closures

ensure_expirations(exp) == S!ensure_expirations(exp)

build ==
    /\ S!Ready
    /\ builder' = None
    /\ IF ensure_expirations(builder.expiration_policy)
       THEN cache' = with_everything(builder) /\ UNCHANGED panicked
       ELSE panicked' = TRUE /\ UNCHANGED cache
    /\ UNCHANGED <<cache_type, asked>>

build_with_hasher == build

Cache_new(n) ==
    /\ builder = None /\ cache = None /\ ~panicked
    /\ cache' = with_everything([default EXCEPT !.max_capacity = n])
    /\ S!Ask("max_capacity", n)
    /\ UNCHANGED <<builder, cache_type, panicked>>

Next ==
    \/ Cache_builder
    \/ \E n \in Capacities : new(n) \/ Cache_new(n) \/ max_capacity(n)
    \/ \E s \in Names : name(s)
    \/ \E n \in InitialCapacities : initial_capacity(n)
    \/ \E p \in S!EvictionPolicies : eviction_policy(p)
    \/ \E w \in Weighers : weigher(w)
    \/ \E l \in Listeners : eviction_listener(l) \/ async_eviction_listener(l)
    \/ \E d \in Durations : time_to_live(d) \/ time_to_idle(d)
    \/ \E e \in Expiries : expire_after(e)
    \/ support_invalidation_closures
    \/ build \/ build_with_hasher

Spec == Init /\ [][Next]_vars
-----------------------------------------------------------------------------
(* Whatever the order of the settings, the cache that is built and the     *)
(* policy it reports have the last value of each; a listener of either     *)
(* kind comes with key locks and a time limit for maintenance.             *)
SettingsReachCache ==
    cache # None =>
        LET i == cache.inner
            p == Inner_policy(i)
            listening == asked.eviction_listener # None IN
        /\ i.name = asked.name /\ i.weigher = asked.weigher
        /\ i.eviction_policy = asked.eviction_policy
        /\ p.max_capacity = asked.max_capacity
        /\ p.time_to_live = asked.time_to_live /\ p.time_to_idle = asked.time_to_idle
        /\ i.expiration_policy.expiry = asked.expiry
        /\ i.removal_notifier = asked.eviction_listener
        /\ (i.key_locks # None) = listening
        /\ (cache.housekeeper.maintenance_task_timeout # None) = listening
        /\ (i.invalidator # None) = asked.invalidator

(* No cache is built with a lifetime of more than a thousand years.        *)
NoOverlongLife ==
    cache # None => \A d \in {asked.time_to_live, asked.time_to_idle} : d # None => d <= MaxDuration
=============================================================================

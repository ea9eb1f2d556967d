---------------------------- MODULE CacheBuilder ----------------------------
(***************************************************************************)
(* The builder of a sync cache (src/sync/builder.rs) and the constructors  *)
(* it ends in.  The settings are made in any order, some of them twice;    *)
(* segments() moves all of them to a builder of another type; build()      *)
(* refuses a lifetime of more than a thousand years and passes the rest    *)
(* down to every part of the cache, for a segmented cache once for each    *)
(* segment.  `asked` remembers what was asked for, independently of how    *)
(* the builder is moved about.                                             *)
(***************************************************************************)
EXTENDS Naturals, Sequences

CONSTANTS
    None,
    Names, Capacities, InitialCapacities, Weighers, Listeners, Expiries,   \* what may be asked for
    Durations,          \* lifetimes, some of them longer than MaxDuration
    MaxDuration,        \* a thousand years
    NumSegments,
    LogSize,            \* READ_LOG_CH_SIZE and WRITE_LOG_CH_SIZE
    TaskTimeout         \* DEFAULT_MAINTENANCE_TASK_TIMEOUT_MILLIS

VARIABLES
    builder,            \* the builder, or None before new() and after build()
    cache_type,
    asked,
    cache,              \* the cache that was built, or None
    panicked

vars == <<builder, cache_type, asked, cache, panicked>>

EvictionPolicies == {"TinyLfu", "Lru"}

tiny_lfu == "TinyLfu"
lru == "Lru"
ExpirationPolicy_default == [time_to_live |-> None, time_to_idle |-> None, expiry |-> None]
set_time_to_live(exp, d) == [exp EXCEPT !.time_to_live = d]
set_time_to_idle(exp, d) == [exp EXCEPT !.time_to_idle = d]
set_expiry(exp, e) == [exp EXCEPT !.expiry = e]
HousekeeperConfig_default == [maintenance_task_timeout |-> TaskTimeout, eviction_batch_size |-> LogSize]

default ==
    [name |-> None, max_capacity |-> None, initial_capacity |-> None, num_segments |-> None,
     weigher |-> None, eviction_listener |-> None, eviction_policy |-> tiny_lfu,
     expiration_policy |-> ExpirationPolicy_default,
     housekeeper_config |-> HousekeeperConfig_default, invalidator_enabled |-> FALSE]

Nothing ==
    [name |-> None, max_capacity |-> None, initial_capacity |-> None, num_segments |-> 1,
     weigher |-> None, eviction_listener |-> None, eviction_policy |-> "TinyLfu",
     time_to_live |-> None, time_to_idle |-> None, expiry |-> None, invalidator |-> FALSE]

Init ==
    /\ builder = None
    /\ cache_type = None
    /\ asked = Nothing
    /\ cache = None
    /\ panicked = FALSE
-----------------------------------------------------------------------------
(* The constructors.                                                       *)
Housekeeper_new(is_eviction_listener_enabled, config) ==
    [more_entries_to_evict |-> IF is_eviction_listener_enabled THEN FALSE ELSE None,
     maintenance_task_timeout |-> IF is_eviction_listener_enabled
                                  THEN config.maintenance_task_timeout ELSE None,
     eviction_batch_size |-> config.eviction_batch_size]

(* The hash table of a cache that holds nothing has one segment.           *)
Inner_new(b) ==
    [name |-> b.name, max_capacity |-> b.max_capacity,
     num_cht_segments |-> IF b.max_capacity = 0 THEN 1 ELSE 64,
     cht_capacity |-> IF b.max_capacity = 0 \/ b.initial_capacity = None THEN 0
                      ELSE b.initial_capacity + LogSize,
     weigher |-> b.weigher, eviction_policy |-> b.eviction_policy,
     expiration_policy |-> b.expiration_policy,
     removal_notifier |-> b.eviction_listener,
     key_locks |-> IF b.eviction_listener # None THEN {} ELSE None,
     invalidator |-> IF b.invalidator_enabled THEN {} ELSE None]

BaseCache_new(b) ==
    LET size == IF b.max_capacity = 0 THEN 0 ELSE LogSize IN
    [inner |-> Inner_new(b), read_op_ch |-> size, write_op_ch |-> size,
     housekeeper |-> Housekeeper_new(b.eviction_listener # None, b.housekeeper_config)]

with_everything(b) == BaseCache_new(b)

next_power_of_two(n) == CHOOSE p \in {1, 2, 4, 8, 16} : n <= p /\ \A q \in {1, 2, 4, 8, 16} : n <= q => p <= q

(* The share of a segment, rounded up.                                     *)
SegmentCapacity(n, segs) == IF n = None THEN None ELSE (n + segs - 1) \div segs

Segmented_with_everything(b) ==
    LET segs == next_power_of_two(b.num_segments)
        seg == [b EXCEPT !.max_capacity = SegmentCapacity(@, segs),
                         !.initial_capacity = SegmentCapacity(@, segs)] IN
    [type |-> "SegmentedCache", desired_capacity |-> b.max_capacity,
     segments |-> [i \in 1..segs |-> with_everything(seg)]]

(* Cache::policy, and the policy of a segmented cache.                     *)
Inner_policy(i) ==
    [max_capacity |-> i.max_capacity, num_segments |-> 1,
     time_to_live |-> i.expiration_policy.time_to_live,
     time_to_idle |-> i.expiration_policy.time_to_idle]

policy(c) ==
    IF c.type = "Cache" THEN Inner_policy(c.segments[1].inner)
    ELSE [Inner_policy(c.segments[1].inner) EXCEPT !.max_capacity = c.desired_capacity,
                                                   !.num_segments = Len(c.segments)]

(* The two kinds of caches under one type: a plain cache is its one part.  *)
Single(base) == [type |-> "Cache", segments |-> <<base>>]
-----------------------------------------------------------------------------
Ready == builder # None
Ask(option, value) == asked' = [asked EXCEPT ![option] = value]
Configure(b) == Ready /\ builder' = b /\ UNCHANGED <<cache_type, cache, panicked>>

Start(b, type) ==
    /\ builder = None /\ cache = None /\ ~panicked
    /\ builder' = b
    /\ cache_type' = type
    /\ UNCHANGED <<cache, panicked>>

(* Cache::builder, CacheBuilder::new and SegmentedCache::builder.          *)
Cache_builder == Start(default, "Cache") /\ UNCHANGED asked

new(n) == Start([default EXCEPT !.max_capacity = n], "Cache") /\ Ask("max_capacity", n)

SegmentedCache_builder(n) ==
    Start([default EXCEPT !.num_segments = n], "SegmentedCache") /\ Ask("num_segments", n)

segments_forgetful(n) ==
    /\ Ready /\ cache_type = "Cache"
    /\ builder' = [default EXCEPT !.num_segments = n, !.max_capacity = builder.max_capacity,
                                  !.expiration_policy = builder.expiration_policy]
    /\ cache_type' = "SegmentedCache"
    /\ Ask("num_segments", n)
    /\ UNCHANGED <<cache, panicked>>

segments(n) ==
    /\ Ready /\ cache_type = "Cache"
    /\ builder' = [name |-> builder.name, max_capacity |-> builder.max_capacity,
                   initial_capacity |-> builder.initial_capacity, num_segments |-> n,
                   weigher |-> builder.weigher, eviction_policy |-> builder.eviction_policy,
                   eviction_listener |-> builder.eviction_listener,
                   expiration_policy |-> builder.expiration_policy,
                   housekeeper_config |-> builder.housekeeper_config,
                   invalidator_enabled |-> builder.invalidator_enabled]
    /\ cache_type' = "SegmentedCache"
    /\ Ask("num_segments", n)
    /\ UNCHANGED <<cache, panicked>>

name(s) == Configure([builder EXCEPT !.name = s]) /\ Ask("name", s)
max_capacity(n) == Configure([builder EXCEPT !.max_capacity = n]) /\ Ask("max_capacity", n)
initial_capacity(n) == Configure([builder EXCEPT !.initial_capacity = n]) /\ Ask("initial_capacity", n)
eviction_policy(p) == Configure([builder EXCEPT !.eviction_policy = p]) /\ Ask("eviction_policy", p)
weigher(w) == Configure([builder EXCEPT !.weigher = w]) /\ Ask("weigher", w)
eviction_listener(l) == Configure([builder EXCEPT !.eviction_listener = l]) /\ Ask("eviction_listener", l)

time_to_live(d) ==
    /\ Configure([builder EXCEPT !.expiration_policy = set_time_to_live(@, d)])
    /\ Ask("time_to_live", d)

time_to_idle(d) ==
    /\ Configure([builder EXCEPT !.expiration_policy = set_time_to_idle(@, d)])
    /\ Ask("time_to_idle", d)

expire_after(e) ==
    /\ Configure([builder EXCEPT !.expiration_policy = set_expiry(@, e)])
    /\ Ask("expiry", e)

support_invalidation_closures ==
    Configure([builder EXCEPT !.invalidator_enabled = TRUE]) /\ Ask("invalidator", TRUE)

(* ensure_expirations_or_panic                                             *)
ensure_expirations(exp) ==
    /\ exp.time_to_live # None => exp.time_to_live <= MaxDuration
    /\ exp.time_to_idle # None => exp.time_to_idle <= MaxDuration

Finish(made) ==
    /\ builder' = None
    /\ IF ensure_expirations(builder.expiration_policy)
       THEN cache' = made /\ UNCHANGED panicked
       ELSE panicked' = TRUE /\ UNCHANGED cache
    /\ UNCHANGED <<cache_type, asked>>

(* build; build_with_hasher differs from it in the hasher alone.           *)
build == Ready /\ cache_type = "Cache" /\ Finish(Single(with_everything(builder)))
build_with_hasher == build

Segmented_build ==
    Ready /\ cache_type = "SegmentedCache" /\ Finish(Segmented_with_everything(builder))
Segmented_build_with_hasher == Segmented_build

(* Cache::new and SegmentedCache::new make no use of a builder.            *)
Cache_new(n) ==
    /\ builder = None /\ cache = None /\ ~panicked
    /\ cache' = Single(with_everything([default EXCEPT !.max_capacity = n]))
    /\ Ask("max_capacity", n)
    /\ UNCHANGED <<builder, cache_type, panicked>>

SegmentedCache_new(n, segs) ==
    /\ builder = None /\ cache = None /\ ~panicked
    /\ cache' = Segmented_with_everything([default EXCEPT !.max_capacity = n, !.num_segments = segs])
    /\ asked' = [asked EXCEPT !.max_capacity = n, !.num_segments = segs]
    /\ UNCHANGED <<builder, cache_type, panicked>>

Begin ==
    \/ Cache_builder
    \/ \E n \in Capacities : new(n) \/ Cache_new(n)
    \/ \E s \in NumSegments : SegmentedCache_builder(s)
    \/ \E n \in Capacities, s \in NumSegments : SegmentedCache_new(n, s)

Set ==
    \/ \E s \in Names : name(s)
    \/ \E n \in Capacities : max_capacity(n)
    \/ \E n \in InitialCapacities : initial_capacity(n)
    \/ \E p \in EvictionPolicies : eviction_policy(p)
    \/ \E w \in Weighers : weigher(w)
    \/ \E l \in Listeners : eviction_listener(l)
    \/ \E d \in Durations : time_to_live(d) \/ time_to_idle(d)
    \/ \E e \in Expiries : expire_after(e)
    \/ support_invalidation_closures
    \/ \E n \in NumSegments : segments(n)

Next ==
    \/ Begin \/ Set
    \/ build \/ build_with_hasher \/ Segmented_build \/ Segmented_build_with_hasher

Spec == Init /\ [][Next]_vars
-----------------------------------------------------------------------------
Built == cache # None
Parts == {cache.segments[i] : i \in 1..Len(cache.segments)}

(* Whatever the order of the settings, and wherever segments() was called  *)
(* among them, each part of the cache has the last value of every setting, *)
(* and a listener comes with key locks and a time limit for maintenance.   *)
SettingsReachCache ==
    Built => \A part \in Parts :
        LET i == part.inner
            listening == asked.eviction_listener # None IN
        /\ i.name = asked.name /\ i.weigher = asked.weigher
        /\ i.eviction_policy = asked.eviction_policy
        /\ i.expiration_policy.time_to_live = asked.time_to_live
        /\ i.expiration_policy.time_to_idle = asked.time_to_idle
        /\ i.expiration_policy.expiry = asked.expiry
        /\ i.removal_notifier = asked.eviction_listener
        /\ (i.key_locks # None) = listening
        /\ (part.housekeeper.maintenance_task_timeout # None) = listening
        /\ (part.housekeeper.more_entries_to_evict # None) = listening
        /\ (i.invalidator # None) = asked.invalidator

(* policy() reports the capacity of the whole cache and the number of its  *)
(* segments, not those of the segment it asks.                             *)
PolicyReports ==
    Built => LET p == policy(cache) IN
             /\ p.max_capacity = asked.max_capacity
             /\ asked.num_segments <= p.num_segments /\ p.num_segments = Len(cache.segments)
             /\ p.time_to_live = asked.time_to_live /\ p.time_to_idle = asked.time_to_idle

(* Only a capacity of zero makes a part that stores nothing and whose log  *)
(* channels hold nothing, however many segments share the capacity; the    *)
(* parts together have room for all of it.                                 *)
DisabledOnlyIfZero ==
    Built /\ asked.max_capacity # None =>
        /\ \A part \in Parts : /\ (part.inner.max_capacity = 0) = (asked.max_capacity = 0)
                               /\ (part.write_op_ch = 0) = (asked.max_capacity = 0)
        /\ \A part \in Parts : part.inner.max_capacity * Len(cache.segments) >= asked.max_capacity

(* No cache is built with a lifetime of more than a thousand years.        *)
NoOverlongLife ==
    Built => \A d \in {asked.time_to_live, asked.time_to_idle} : d # None => d <= MaxDuration
=============================================================================

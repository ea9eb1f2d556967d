------------------------------ MODULE MCSizes -------------------------------
(***************************************************************************)
(* What a cache holds: the settings of the builders, the segments of the   *)
(* segmented cache and of the hash map, admission and eviction by size,    *)
(* the nodes of the deques, and the values an insertion leaves in a        *)
(* bucket. A behaviour is of one part.                                     *)
(***************************************************************************)
EXTENDS Integers, TLC

CONSTANTS None, k1, k2, k3, k4, h1, h2, h3, h4, h5, t1, t2, t3, i1, i2, n1,
          n2, n3, n4, w1, l1, e1, r1, r2

VARIABLES
    part,      \* the part this behaviour is of
    builder, cache_type, asked, cache, panicked, inner, now, segments, thr,
    cleared, settled, map_segments, num_segments, segment_shift, len,
    capacity, info, read_op_ch, write_op_ch, probation, published, counters,
    sketch, mpc, contest, ops, work, calm, cht, d, writes, reads, bucket,
    values, dropped, twice

(* Hashes of three bits.                                                   *)
SegmentHash == (h1 :> 0) @@ (h2 :> 1) @@ (h3 :> 4) @@ (h4 :> 6)
FullHash == (h1 :> 0) @@ (h2 :> 1) @@ (h3 :> 4) @@ (h4 :> 5) @@ (h5 :> 7)
PairHash == (h1 :> 0) @@ (h3 :> 4)
MapHash == (h1 :> 0) @@ (h2 :> 3) @@ (h3 :> 7)
PairMapHash == (h1 :> 0) @@ (h2 :> 5)

Iterates == (t1 :> {"iter"}) @@ (t2 :> {"insert", "invalidate", "invalidate_all"})
Clears == (t1 :> {"try_get_with", "get_with_if"}) @@ (t2 :> {"insert", "invalidate_all", "invalidate_entries_if"})
Fills == (t1 :> {"get", "get_with", "entry"}) @@ (t2 :> {"run_pending_tasks"})
OneTwo == (t1 :> 1) @@ (t2 :> 2)
ThreeThree == (t1 :> 3) @@ (t2 :> 3)
MapIterates == (t1 :> {"iter"}) @@ (t2 :> {"insert", "remove"})
Updates == [t \in {t1, t2, t3} |-> {"get", "insert", "remove"}]

Symmetry == Permutations({k1, k2, k3})

-----------------------------------------------------------------------------
(* The builder of the sync and segmented caches.                           *)
Builder == INSTANCE CacheBuilder WITH
    Names <- {n1}, Capacities <- {0, 1, 5}, InitialCapacities <- {3},
    Weighers <- {w1}, Listeners <- {l1}, Expiries <- {e1},
    Durations <- {2, 1001}, MaxDuration <- 1000, NumSegments <- {1, 3},
    LogSize <- 384, TaskTimeout <- 100

(* The builder of the future cache.                                        *)
FutureBuilder == INSTANCE FutureCacheBuilder WITH
    Names <- {n1}, Capacities <- {0, 1, 5}, InitialCapacities <- {3},
    Weighers <- {w1}, Listeners <- {l1}, Expiries <- {e1},
    Durations <- {2, 1001}, MaxDuration <- 1000, LogSize <- 384,
    TaskTimeout <- 100

(* An iteration over the segments while they change.                       *)
Iterate == INSTANCE SegmentedCache WITH
    Keys <- {h1, h2, h3, h4}, Hash <- SegmentHash, HashBits <- 3,
    SegmentChoices <- {1, 2}, CapacityChoices <- {None, 2},
    InvalidatorChoices <- {FALSE}, NumCht <- 4, Threads <- {t1, t2},
    Calls <- Iterates, MaxOps <- OneTwo, Filled <- {h1, h2, h3},
    PredKeys <- {h1}, MaxTime <- 1
ASSUME Iterate!HashFits

(* Invalidation, segment by segment.                                       *)
Clear == INSTANCE SegmentedCache WITH
    Keys <- {h1, h3}, Hash <- PairHash, HashBits <- 3,
    SegmentChoices <- {1, 3}, CapacityChoices <- {None, 0},
    InvalidatorChoices <- {FALSE, TRUE}, NumCht <- 2, Threads <- {t1, t2},
    Calls <- Clears, MaxOps <- OneTwo, Filled <- {h1, h3}, PredKeys <- {h1},
    MaxTime <- 2
ASSUME Clear!HashFits

(* Segments at their share of the capacity.                                *)
Full == INSTANCE SegmentedCache WITH
    Keys <- {h1, h2, h3, h4, h5}, Hash <- FullHash, HashBits <- 3,
    SegmentChoices <- {2}, CapacityChoices <- {1, 2, 3},
    InvalidatorChoices <- {FALSE}, NumCht <- 2, Threads <- {t1, t2},
    Calls <- Fills, MaxOps <- ThreeThree, Filled <- {h1, h3},
    PredKeys <- {}, MaxTime <- 0
ASSUME Full!HashFits

(* The lengths of the segments of the hash map.                            *)
MapLen == INSTANCE HashMap WITH
    Keys <- {h1, h2}, Hash <- PairMapHash, HashBits <- 3, LenMod <- 16,
    SegmentChoices <- {1, 2}, CapacityChoices <- {0}, DefaultLength <- 8,
    Threads <- {t1, t2, t3}, Calls <- Updates, MaxOps <- 2,
    segments <- map_segments

(* The iterator of the hash map.                                           *)
MapIter == INSTANCE HashMap WITH
    Keys <- {h1, h2, h3}, Hash <- MapHash, HashBits <- 3, LenMod <- 16,
    SegmentChoices <- {1, 2, 3}, CapacityChoices <- {0}, DefaultLength <- 8,
    Threads <- {t1, t2}, Calls <- MapIterates, MaxOps <- 3,
    segments <- map_segments

(* Weights, some of which do not fit.                                      *)
Lfu == INSTANCE TinyLfu WITH
    Keys <- {k1, k2, k3}, MaxCapacity <- 3, Weigher <- TRUE,
    Weights <- {1, 2, 4}, MinSketch <- 1, MaxSketch <- 8,
    MaxConsecutiveRetries <- 5, Calls <- {"insert", "get"}, MaxOps <- 4

(* Entries of weight one.                                                  *)
LfuUnits == INSTANCE TinyLfu WITH
    Keys <- {k1, k2, k3}, MaxCapacity <- 2, Weigher <- FALSE,
    Weights <- {1}, MinSketch <- 1, MaxSketch <- 8,
    MaxConsecutiveRetries <- 5, Calls <- {"insert", "get", "invalidate"},
    MaxOps <- 5

(* A contest of the future cache that is suspended at its awaits.          *)
FutureLfu == INSTANCE FutureTinyLfu WITH
    Keys <- {k1, k2, k3}, MaxCapacity <- 3, Weigher <- TRUE,
    Weights <- {1, 2}, MinSketch <- 1, MaxSketch <- 8,
    MaxConsecutiveRetries <- 5, BatchSize <- 1, Calls <- {"insert", "get"},
    MaxOps <- 4

(* The same with entries of weight one.                                    *)
FutureLfuUnits == INSTANCE FutureTinyLfu WITH
    Keys <- {k1, k2, k3}, MaxCapacity <- 1, Weigher <- FALSE,
    Weights <- {1}, MinSketch <- 1, MaxSketch <- 8,
    MaxConsecutiveRetries <- 5, BatchSize <- 1,
    Calls <- {"insert", "get", "invalidate"}, MaxOps <- 4

(* The nodes of the access-order and write-order deques.                   *)
Deques == INSTANCE Deques WITH
    Keys <- {k1, k2}, Infos <- {i1, i2}, Nodes <- {n1, n2, n3}, MaxGen <- 3

(* Two insertions and a removal that race for one bucket.                  *)
Modify == INSTANCE InsertOrModify WITH
    Inserters <- {t1, t2}, Removers <- {r1}, CntMod <- 256, MaxOps <- 2,
    MaxCalls <- 3

-----------------------------------------------------------------------------
MCInit ==
    \/ /\ part = "builder" /\ Builder!Init
       /\ inner = None /\ now = None /\ segments = None /\ thr = None
       /\ cleared = None /\ settled = None /\ map_segments = None
       /\ num_segments = None /\ segment_shift = None /\ len = None
       /\ capacity = None /\ info = None /\ read_op_ch = None
       /\ write_op_ch = None /\ probation = None /\ published = None
       /\ counters = None /\ sketch = None /\ mpc = None /\ contest = None
       /\ ops = None /\ work = None /\ calm = None /\ cht = None
       /\ d = None /\ writes = None /\ reads = None /\ bucket = None
       /\ values = None /\ dropped = None /\ twice = None
    \/ /\ part = "future_builder" /\ FutureBuilder!Init
       /\ inner = None /\ now = None /\ segments = None /\ thr = None
       /\ cleared = None /\ settled = None /\ map_segments = None
       /\ num_segments = None /\ segment_shift = None /\ len = None
       /\ capacity = None /\ info = None /\ read_op_ch = None
       /\ write_op_ch = None /\ probation = None /\ published = None
       /\ counters = None /\ sketch = None /\ mpc = None /\ contest = None
       /\ ops = None /\ work = None /\ calm = None /\ cht = None
       /\ d = None /\ writes = None /\ reads = None /\ bucket = None
       /\ values = None /\ dropped = None /\ twice = None
    \/ /\ \/ part = "iterate" /\ Iterate!Init
          \/ part = "clear" /\ Clear!Init
          \/ part = "full" /\ Full!Init
       /\ builder = None /\ cache_type = None /\ asked = None /\ cache = None
       /\ panicked = None /\ map_segments = None /\ num_segments = None
       /\ segment_shift = None /\ len = None /\ capacity = None
       /\ info = None /\ read_op_ch = None /\ write_op_ch = None
       /\ probation = None /\ published = None /\ counters = None
       /\ sketch = None /\ mpc = None /\ contest = None /\ ops = None
       /\ work = None /\ calm = None /\ cht = None /\ d = None
       /\ writes = None /\ reads = None /\ bucket = None /\ values = None
       /\ dropped = None /\ twice = None
    \/ /\ \/ part = "map_len" /\ MapLen!Init
          \/ part = "map_iter" /\ MapIter!Init
       /\ builder = None /\ cache_type = None /\ asked = None /\ cache = None
       /\ panicked = None /\ inner = None /\ now = None /\ segments = None
       /\ cleared = None /\ settled = None /\ info = None
       /\ read_op_ch = None /\ write_op_ch = None /\ probation = None
       /\ published = None /\ counters = None /\ sketch = None
       /\ mpc = None /\ contest = None /\ ops = None /\ work = None
       /\ calm = None /\ cht = None /\ d = None /\ writes = None
       /\ reads = None /\ bucket = None /\ values = None /\ dropped = None
       /\ twice = None
    \/ /\ \/ part = "weights" /\ Lfu!Init
          \/ part = "units" /\ LfuUnits!Init
       /\ builder = None /\ cache_type = None /\ asked = None
       /\ panicked = None /\ inner = None /\ now = None /\ segments = None
       /\ thr = None /\ cleared = None /\ settled = None
       /\ map_segments = None /\ num_segments = None
       /\ segment_shift = None /\ len = None /\ capacity = None
       /\ work = None /\ calm = None /\ cht = None /\ d = None
       /\ writes = None /\ reads = None /\ bucket = None /\ values = None
       /\ dropped = None /\ twice = None
    \/ /\ \/ part = "future_weights" /\ FutureLfu!Init
          \/ part = "future_units" /\ FutureLfuUnits!Init
       /\ builder = None /\ cache_type = None /\ asked = None
       /\ panicked = None /\ inner = None /\ now = None /\ segments = None
       /\ thr = None /\ cleared = None /\ settled = None
       /\ map_segments = None /\ num_segments = None
       /\ segment_shift = None /\ len = None /\ capacity = None
       /\ cht = None /\ d = None /\ writes = None /\ reads = None
       /\ bucket = None /\ values = None /\ dropped = None /\ twice = None
    \/ /\ part = "deques" /\ Deques!Init
       /\ builder = None /\ cache_type = None /\ asked = None /\ cache = None
       /\ panicked = None /\ inner = None /\ now = None /\ segments = None
       /\ thr = None /\ cleared = None /\ settled = None
       /\ map_segments = None /\ num_segments = None
       /\ segment_shift = None /\ len = None /\ capacity = None
       /\ read_op_ch = None /\ write_op_ch = None /\ probation = None
       /\ published = None /\ counters = None /\ sketch = None
       /\ mpc = None /\ contest = None /\ ops = None /\ work = None
       /\ calm = None /\ bucket = None /\ values = None /\ dropped = None
       /\ twice = None
    \/ /\ part = "modify" /\ Modify!Init
       /\ builder = None /\ cache_type = None /\ asked = None /\ cache = None
       /\ panicked = None /\ inner = None /\ now = None /\ segments = None
       /\ cleared = None /\ settled = None /\ map_segments = None
       /\ num_segments = None /\ segment_shift = None /\ len = None
       /\ capacity = None /\ info = None /\ read_op_ch = None
       /\ write_op_ch = None /\ probation = None /\ published = None
       /\ counters = None /\ sketch = None /\ mpc = None /\ contest = None
       /\ ops = None /\ work = None /\ calm = None /\ cht = None
       /\ d = None /\ writes = None /\ reads = None

MCNext ==
    \/ /\ part = "builder" /\ Builder!Next
       /\ UNCHANGED <<part, inner, now, segments, thr, cleared, settled,
                   map_segments, num_segments, segment_shift, len,
                   capacity, info, read_op_ch, write_op_ch, probation,
                   published, counters, sketch, mpc, contest, ops, work,
                   calm, cht, d, writes, reads, bucket, values, dropped,
                   twice>>
    \/ /\ part = "future_builder" /\ FutureBuilder!Next
       /\ UNCHANGED <<part, inner, now, segments, thr, cleared, settled,
                   map_segments, num_segments, segment_shift, len,
                   capacity, info, read_op_ch, write_op_ch, probation,
                   published, counters, sketch, mpc, contest, ops, work,
                   calm, cht, d, writes, reads, bucket, values, dropped,
                   twice>>
    \/ /\ \/ part = "iterate" /\ Iterate!Next
          \/ part = "clear" /\ Clear!Next
          \/ part = "full" /\ Full!Next
       /\ UNCHANGED <<part, builder, cache_type, asked, cache, panicked,
                   map_segments, num_segments, segment_shift, len,
                   capacity, info, read_op_ch, write_op_ch, probation,
                   published, counters, sketch, mpc, contest, ops, work,
                   calm, cht, d, writes, reads, bucket, values, dropped,
                   twice>>
    \/ /\ \/ part = "map_len" /\ MapLen!Next
          \/ part = "map_iter" /\ MapIter!Next
       /\ UNCHANGED <<part, builder, cache_type, asked, cache, panicked,
                   inner, now, segments, cleared, settled, info,
                   read_op_ch, write_op_ch, probation, published,
                   counters, sketch, mpc, contest, ops, work, calm, cht,
                   d, writes, reads, bucket, values, dropped, twice>>
    \/ /\ \/ part = "weights" /\ Lfu!Next
          \/ part = "units" /\ LfuUnits!Next
       /\ UNCHANGED <<part, builder, cache_type, asked, panicked, inner,
                   now, segments, thr, cleared, settled, map_segments,
                   num_segments, segment_shift, len, capacity, work,
                   calm, cht, d, writes, reads, bucket, values, dropped,
                   twice>>
    \/ /\ \/ part = "future_weights" /\ FutureLfu!Next
          \/ part = "future_units" /\ FutureLfuUnits!Next
       /\ UNCHANGED <<part, builder, cache_type, asked, panicked, inner,
                   now, segments, thr, cleared, settled, map_segments,
                   num_segments, segment_shift, len, capacity, cht, d,
                   writes, reads, bucket, values, dropped, twice>>
    \/ /\ part = "deques" /\ Deques!Next
       /\ UNCHANGED <<part, builder, cache_type, asked, cache, panicked,
                   inner, now, segments, thr, cleared, settled,
                   map_segments, num_segments, segment_shift, len,
                   capacity, read_op_ch, write_op_ch, probation,
                   published, counters, sketch, mpc, contest, ops, work,
                   calm, bucket, values, dropped, twice>>
    \/ /\ part = "modify" /\ Modify!Next
       /\ UNCHANGED <<part, builder, cache_type, asked, cache, panicked,
                   inner, now, segments, cleared, settled, map_segments,
                   num_segments, segment_shift, len, capacity, info,
                   read_op_ch, write_op_ch, probation, published,
                   counters, sketch, mpc, contest, ops, work, calm, cht,
                   d, writes, reads>>

mcvars == <<part, builder, cache_type, asked, cache, panicked, inner, now,
            segments, thr, cleared, settled, map_segments, num_segments,
            segment_shift, len, capacity, info, read_op_ch, write_op_ch,
            probation, published, counters, sketch, mpc, contest, ops,
            work, calm, cht, d, writes, reads, bucket, values, dropped,
            twice>>

MCSpec == MCInit /\ [][MCNext]_mcvars
-----------------------------------------------------------------------------
(* A cache has what its builder was told, in whatever order and through    *)
(* segments(): every setting reaches it, policy() reports it, only a       *)
(* capacity of zero makes a part that stores nothing, and no lifetime is   *)
(* over a thousand years.                                                  *)
SettingsReachCache ==
    /\ part = "builder" => /\ Builder!SettingsReachCache
                           /\ Builder!PolicyReports
                           /\ Builder!DisabledOnlyIfZero
                           /\ Builder!NoOverlongLife
    /\ part = "future_builder" => /\ FutureBuilder!SettingsReachCache
                                  /\ FutureBuilder!NoOverlongLife

(* An iteration over the segments of a cache or of a map shows every key   *)
(* that is there throughout, and none twice; no call picks a segment that  *)
(* is not there; and no value is returned that an invalidate_all or        *)
(* invalidate_entries_if which has ended had to invalidate, although both  *)
(* visit segment after segment.                                            *)
SegmentsAgree ==
    /\ part = "iterate" => Iterate!IterComplete /\ Iterate!IterOnce
    /\ part = "clear" => Clear!NoPanic /\ Clear!NoneStale
    /\ part = "map_iter" => MapIter!IterComplete

(* After a maintenance run entry_count and weighted_size are those of the  *)
(* entries a caller can find, which are within the capacity; no entry lost *)
(* its place to one that was read no more often, and the sketch is on from *)
(* the run that fills half of the cache; segments together stay within the *)
(* capacity but for the rounding of their shares; and the length of a map  *)
(* is the number of its entries but for the operations not counted yet.    *)
SizesExact ==
    /\ part = "full" => Full!WithinRounding
    /\ part = "map_len" => MapLen!LenAccounts
    /\ part = "weights" => /\ Lfu!SizesExact
                           /\ Lfu!WithinCapacity
                           /\ Lfu!NoPollution
                           /\ Lfu!SketchReady
    /\ part = "units" => LfuUnits!SizesExact /\ LfuUnits!NoPollution
    /\ part = "future_weights" => /\ FutureLfu!SizesExact
                                  /\ FutureLfu!WithinCapacity
                                  /\ FutureLfu!NoPollution
    /\ part = "future_units" => FutureLfuUnits!SizesExact

(* A pointer that an entry holds is to a node of this entry in the deque   *)
(* that the tag names, every node is in one deque and known to its entry,  *)
(* a retired entry that still has nodes has its Remove on the way, and no  *)
(* assertion of Deques fails.                                              *)
NodesMatchEntries == part = "deques" => /\ Deques!NoDanglingNode
                          /\ Deques!NoLostNode
                          /\ Deques!OrphansAreRemoved
                          /\ Deques!NoPanic

(* Each value that the closures of a racing insertion made is in the       *)
(* table, kept by the insertion, or dropped once; and the WriteOp that is  *)
(* sent is that of the last call of the closures.                          *)
OperationSent == part = "modify" => Modify!ValuesAccounted /\ Modify!LastCallSent

(* What a contest of the future cache removes from the table is what it    *)
(* looked at, although other calls touch entries at its awaits; and a      *)
(* value that on_modify made takes the place of the one it was made from,  *)
(* one that on_insert made the place of none.                              *)
NothingStaleReplaced ==
    [][/\ part = "future_weights" => FutureLfu!VictimsStay
       /\ part = "modify" => Modify!ReplaceOwn]_mcvars
=============================================================================

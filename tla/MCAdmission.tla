---------------------------- MODULE MCAdmission -----------------------------
(***************************************************************************)
(* The frequency sketch of TinyLFU, and BaseCache under the policies and   *)
(* settings that MCBaseCache does not have. A behaviour is of one part.    *)
(***************************************************************************)
EXTENDS FrequencySketch, TLC

CONSTANTS None, h1, h2, h3, k1, k2, t1, t2

VARIABLES
    part,      \* the part this behaviour is of
    bucket, lock, entry_gen, policy_gen, policy_weight, last_accessed,
    admitted, retired, allocs, read_op_ch, write_op_ch, probation, counters,
    published, thr, ops, now, mpc, m

(* Of two words: h1 and h2 share three counters, or four in one word.        *)
Start3 == [h \in Hashes |-> IF h = h3 THEN 1 ELSE 0]
Raw3 == [h \in Hashes |-> [i \in 0..3 |-> IF h = h2 /\ i = 3 THEN 2 ELSE i]]
NoStream == <<>>

Symmetry == Permutations({t1, t2}) \cup Permutations({k1, k2})

-----------------------------------------------------------------------------
(* No listener, hence no key locks: two threads, two keys.                 *)
Lfu == INSTANCE BaseCache WITH
    Keys <- {k1, k2}, Threads <- {t1, t2}, Weights <- {1}, Freqs <- {0, 1},
    MaxCapacity <- 1, Policy <- "TinyLfu", KeyLocks <- FALSE,
    WriteChSize <- 1, ReadChSize <- 1, FlushPoint <- 1,
    MaxLogSyncRepeats <- 0, BatchSize <- 1, MaxConsecutiveRetries <- 0,
    GenMod <- 16, Calls <- {"insert", "invalidate"}, MaxAllocs <- 4,
    MaxOps <- 4, MaxRetries <- 0, MaxTime <- 0

(* The LRU policy, which admits every entry and evicts the oldest.         *)
Lru == INSTANCE BaseCache WITH
    Keys <- {k1, k2}, Threads <- {t1, t2}, Weights <- {1}, Freqs <- {0, 1},
    MaxCapacity <- 1, Policy <- "Lru", KeyLocks <- TRUE, WriteChSize <- 1,
    ReadChSize <- 1, FlushPoint <- 1, MaxLogSyncRepeats <- 0,
    BatchSize <- 1, MaxConsecutiveRetries <- 0, GenMod <- 16,
    Calls <- {"insert", "invalidate", "get"}, MaxAllocs <- 4, MaxOps <- 4,
    MaxRetries <- 0, MaxTime <- 0

-----------------------------------------------------------------------------
MCInit ==
    \/ /\ part = "sketch" /\ Init
       /\ bucket = None /\ lock = None /\ entry_gen = None
       /\ policy_gen = None /\ policy_weight = None /\ last_accessed = None
       /\ admitted = None /\ retired = None /\ allocs = None
       /\ read_op_ch = None /\ write_op_ch = None /\ probation = None
       /\ counters = None /\ published = None /\ thr = None /\ ops = None
       /\ now = None /\ mpc = None /\ m = None
    \/ /\ \/ part = "tinylfu" /\ Lfu!Init
          \/ part = "lru" /\ Lru!Init
       /\ Init

MCNext ==
    \/ /\ part = "sketch" /\ Next
       /\ UNCHANGED <<part, bucket, lock, entry_gen, policy_gen,
                   policy_weight, last_accessed, admitted, retired,
                   allocs, read_op_ch, write_op_ch, probation, counters,
                   published, thr, ops, now, mpc, m>>
    \/ /\ \/ part = "tinylfu" /\ Lfu!Next
          \/ part = "lru" /\ Lru!Next
       /\ UNCHANGED <<part, vars>>

mcvars == <<part, vars, bucket, lock, entry_gen, policy_gen, policy_weight,
            last_accessed, admitted, retired, allocs, read_op_ch,
            write_op_ch, probation, counters, published, thr, ops, now,
            mpc, m>>

MCSpec == MCInit /\ [][MCNext]_mcvars
-----------------------------------------------------------------------------
(* Without key locks, where two insertions and a removal of one key        *)
(* interleave freely while maintenance rejects candidates and removes      *)
(* victims, and under LRU, maintenance leaves no orphan in the deque,      *)
(* retires an entry once, keeps the deque and the set of admitted entries  *)
(* in step and leaves no entry that eviction would skip for ever; with key *)
(* locks no linked entry is forgotten.                                     *)
PoliciesSafe ==
    /\ part = "tinylfu" => /\ Lfu!NoOrphan
                           /\ Lfu!RetireOnce
                           /\ Lfu!DequeMirrorsAdmitted
                           /\ Lfu!QuietEvictable
    /\ part = "lru" => /\ Lru!NoOrphan
                       /\ Lru!RetireOnce
                       /\ Lru!DequeMirrorsAdmitted
                       /\ Lru!QuietEvictable
                       /\ Lru!LinkedIsTracked
=============================================================================

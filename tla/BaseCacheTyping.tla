-------------------------- MODULE BaseCacheTyping --------------------------
(***************************************************************************)
(* Type correctness of BaseCache, for every value of the constants.  TypeOK *)
(* is not inductive alone: what a step stores has its type only because the *)
(* program counter says which locals are set, which is LocalsOK.            *)
(*                                                                          *)
(* The second half is about the values of one variable too: what each step *)
(* does to the access-order deque, the admission flags and entry_count.     *)
(***************************************************************************)
EXTENDS BaseCache, TLAPS

TypeInv == TypeOK /\ LocalsOK

-----------------------------------------------------------------------------
(* Values the actions store *)

(* The initial values of the locals have their types. *)
LEMMA Defaults ==
    /\ NoBucket \in Buckets /\ NoBucket.info = None
    /\ NoOp.info = None
    /\ NoOp \notin WriteOps
    /\ IdleThread \in ThreadStates /\ ThreadOK(IdleThread)
    /\ NoScan \in Scans
    /\ NoEvict \in Evicts
    /\ IdleMaint \in MaintStates
  <1>1. NoBucket \in Buckets /\ NoBucket.info = None
    BY DEF NoBucket, Buckets
  <1>2. NoOp.info = None /\ NoOp \notin WriteOps
    BY DEF NoOp, WriteOp, WriteOps
  <1>3. IdleThread \in ThreadStates
    BY <1>1 DEF IdleThread, ThreadStates, ThreadPCs
  <1>4. ThreadOK(IdleThread)
    BY DEF IdleThread, ThreadOK, Inserting
  <1>5. NoScan \in Scans /\ NoEvict \in Evicts
    BY DEF NoScan, Scans, NoEvict, Evicts
  <1>6. IdleMaint \in MaintStates
    BY <1>1, <1>2, <1>5 DEF IdleMaint, MaintStates
  <1> QED
    BY <1>1, <1>2, <1>3, <1>4, <1>5, <1>6

(* A WriteOp record made of values of the right types is a WriteOp. *)
LEMMA WriteOpType ==
    ASSUME NEW kind \in {"Upsert", "Remove"}, NEW i \in Infos, NEW g \in Gens,
           NEW o \in Nat, NEW n \in Nat
    PROVE  /\ WriteOp(kind, i, g, o, n) \in WriteOps
           /\ WriteOp(kind, i, g, o, n).kind = kind
           /\ WriteOp(kind, i, g, o, n).info = i
  BY DEF WriteOp, WriteOps

(* incr_entry_gen and set_policy_gen stay within the u16 generations. *)
LEMMA GenTypes ==
    ASSUME TypeOK, NEW i \in Infos
    PROVE  /\ incr_entry_gen(i) \in [Infos -> Gens]
           /\ \A g \in Gens : set_policy_gen(i, g) \in [Infos -> Gens]
  <1>1. \A x \in Gens : (x + 1) % GenMod \in Gens
    BY BoundsAssumption DEF Gens
  <1>2. incr_entry_gen(i) \in [Infos -> Gens]
    BY <1>1 DEF TypeOK, incr_entry_gen
  <1>3. ASSUME NEW g \in Gens PROVE set_policy_gen(i, g) \in [Infos -> Gens]
    BY DEF TypeOK, set_policy_gen
  <1> QED
    BY <1>2, <1>3

(* Releasing a key keeps the type of the lock table. *)
LEMMA ReleaseType ==
    ASSUME TypeOK, NEW k \in Keys, NEW t \in Threads
    PROVE  Release(k, t) \in [Keys -> Threads \cup {None}]
  BY DEF TypeOK, Release

(* A successful CAS on a bucket changes its entry and its version. *)
LEMMA BucketCas ==
    ASSUME TypeOK, NEW k \in Keys, NEW i \in Infos \cup {None},
           bucket' = [bucket EXCEPT ![k] = [info |-> i, ver |-> @.ver + 1]]
    PROVE  /\ bucket' \in [Keys -> Buckets]
           /\ bucket'[k].info = i
           /\ bucket'[k].ver = bucket[k].ver + 1
           /\ \A j \in Keys : j # k => bucket'[j] = bucket[j]
  <1>1. bucket[k].ver + 1 \in Nat
    BY DEF TypeOK, Buckets
  <1>2. [info |-> i, ver |-> bucket[k].ver + 1] \in Buckets
    BY <1>1 DEF Buckets
  <1>3. bucket' = [bucket EXCEPT ![k] = [info |-> i, ver |-> bucket[k].ver + 1]]
    OBVIOUS
  <1> QED
    BY <1>2, <1>3 DEF TypeOK

(* A key is the first half of an EntryInfo. *)
LEMMA KeyOfType ==
    ASSUME NEW i \in Infos
    PROVE  KeyOf(i) \in Keys
  BY DEF KeyOf, Infos

(* EvictionCounters::saturating_sub of a weight stays a natural number. *)
LEMMA SubType ==
    ASSUME NEW a \in Nat, NEW b \in Nat
    PROVE  saturating_sub(a, b) \in Nat
  BY DEF saturating_sub

-----------------------------------------------------------------------------
(* Deque operations *)

(* Deque::unlink leaves a deque of entries. *)
LEMMA UnlinkType ==
    ASSUME NEW q \in Seq(Infos), NEW i \in Infos
    PROVE  unlink(q, i) \in Seq(Infos)
  <1>1. CASE ~InDeque(q, i)
    BY <1>1 DEF unlink
  <1>2. CASE InDeque(q, i)
    <2>1. Position(q, i) \in 1..Len(q) /\ Len(q) >= 1
      BY <1>2 DEF InDeque, Position
    <2> DEFINE r == [p \in 1..(Len(q) - 1) |-> IF p < Position(q, i) THEN q[p] ELSE q[p + 1]]
    <2>2. Len(q) - 1 \in Nat
      BY <2>1
    <2>3. \A p \in 1..(Len(q) - 1) : r[p] \in Infos
      BY <2>1
    <2>4. r \in Seq(Infos)
      BY <2>2, <2>3
    <2> QED
      BY <1>2, <2>4 DEF unlink
  <1> QED
    BY <1>1, <1>2

(* So do the moves of Deque, and next_node is an entry or the end. *)
LEMMA DequeTypes ==
    ASSUME NEW q \in Seq(Infos)
    PROVE  /\ move_front_to_back(q) \in Seq(Infos)
           /\ \A i \in Infos : /\ move_to_back(q, i) \in Seq(Infos)
                               /\ next_node(q, i) \in Infos \cup {None}
  <1>1. move_front_to_back(q) \in Seq(Infos)
    BY DEF move_front_to_back
  <1>2. ASSUME NEW i \in Infos PROVE move_to_back(q, i) \in Seq(Infos)
    BY UnlinkType DEF move_to_back
  <1>3. ASSUME NEW i \in Infos PROVE next_node(q, i) \in Infos \cup {None}
    BY DEF next_node, InDeque, Position
  <1> QED
    BY <1>1, <1>2, <1>3

(* skip_updated_entry_ao leaves a deque of entries. *)
LEMMA SkipType ==
    ASSUME TypeOK, NEW k \in Keys
    PROVE  skip_updated_entry_ao(k) \in Seq(Infos)
  <1>1. bucket[k].info \in Infos \cup {None} /\ probation \in Seq(Infos)
    BY DEF TypeOK, Buckets
  <1> QED
    BY Zenon, <1>1, DequeTypes DEF skip_updated_entry_ao

-----------------------------------------------------------------------------
(* User threads *)

(* A thread that moves to a well-typed state leaves the others alone. *)
LEMMA ThreadMoves ==
    ASSUME TypeOK, LocalsOK, NEW t \in Threads, NEW x \in ThreadStates, ThreadOK(x),
           thr' = [thr EXCEPT ![t] = x]
    PROVE  thr' \in [Threads -> ThreadStates] /\ \A u \in Threads : ThreadOK(thr'[u])
  BY DEF TypeOK, LocalsOK

(* insert takes the key lock and builds its locals. *)
LEMMA InsertStartType ==
    ASSUME TypeInv, NEW t \in Threads, NEW k \in Keys, NEW w \in Weights, InsertStart(t, k, w)
    PROVE  TypeInv'
  <1> DEFINE x == [IdleThread EXCEPT !.pc = "load", !.key = k, !.weight = w, !.ts = now]
  <1>1. x \in ThreadStates
    BY Zenon, Defaults, WeightsAssumption DEF ThreadStates, ThreadPCs, TypeInv, TypeOK
  <1>2. ThreadOK(x)
    BY DEF ThreadOK, Inserting, IdleThread
  <1>3. thr' \in [Threads -> ThreadStates] /\ \A u \in Threads : ThreadOK(thr'[u])
    BY Zenon, <1>1, <1>2, ThreadMoves DEF InsertStart, TypeInv
  <1>4. lock' \in [Keys -> Threads \cup {None}] /\ ops' \in Nat
    BY DEF InsertStart, TypeInv, TypeOK
  <1> QED
    BY Zenon, <1>3, <1>4 DEF InsertStart, TypeInv, TypeOK, LocalsOK, storeVars, infoVars, flagVars,
                      chVars, policyVars, userVars, maintVars

(* invalidate starts with the locals of remove_entry. *)
LEMMA RemoveStartType ==
    ASSUME TypeInv, NEW t \in Threads, NEW k \in Keys, RemoveStart(t, k)
    PROVE  TypeInv'
  <1> DEFINE pc == IF KeyLocks /\ bucket[k].info # None THEN "lock" ELSE "remove"
             x == [IdleThread EXCEPT !.key = k, !.pc = pc]
  <1>0. pc \in {"lock", "remove"}
    OBVIOUS
  <1>1. x \in ThreadStates
    BY Zenon, <1>0, Defaults DEF ThreadStates, ThreadPCs
  <1>2. ThreadOK(x)
    BY <1>0 DEF ThreadOK, Inserting, IdleThread
  <1>3. thr' \in [Threads -> ThreadStates] /\ \A u \in Threads : ThreadOK(thr'[u])
    BY Zenon, <1>1, <1>2, ThreadMoves DEF RemoveStart, TypeInv
  <1>4. ops' \in Nat
    BY DEF RemoveStart, TypeInv, TypeOK
  <1> QED
    BY Zenon, <1>3, <1>4 DEF RemoveStart, TypeInv, TypeOK, LocalsOK, storeVars, infoVars, flagVars,
                      chVars, policyVars, maintVars

(* get remembers the bucket it has read. *)
LEMMA GetFoundType ==
    ASSUME TypeInv, NEW t \in Threads, NEW k \in Keys, NEW ts \in 0..now, GetFound(t, k, ts)
    PROVE  TypeInv'
  <1> DEFINE pc == IF bucket[k].info # None THEN "touch" ELSE "record"
             x == [IdleThread EXCEPT !.key = k, !.ts = ts, !.seen = bucket[k], !.pc = pc]
  <1>0. bucket[k] \in Buckets /\ ts \in Nat
    BY DEF TypeInv, TypeOK
  <1>p. pc = "record" \/ (pc = "touch" /\ bucket[k].info \in Infos)
    BY <1>0 DEF Buckets
  <1>1. x \in ThreadStates
    <2>1. pc \in ThreadPCs
      BY DEF ThreadPCs
    <2> HIDE DEF pc
    <2> QED BY Zenon, <1>0, <2>1, Defaults DEF ThreadStates
  <1>2. ThreadOK(x)
    <2> HIDE DEF pc
    <2> QED BY <1>p DEF ThreadOK, Inserting, IdleThread
  <1>3. thr' \in [Threads -> ThreadStates] /\ \A u \in Threads : ThreadOK(thr'[u])
    BY Zenon, <1>1, <1>2, ThreadMoves DEF GetFound, TypeInv
  <1>4. ops' \in Nat
    BY DEF GetFound, TypeInv, TypeOK
  <1> QED
    BY Zenon, <1>3, <1>4 DEF GetFound, TypeInv, TypeOK, LocalsOK, storeVars, infoVars, flagVars,
                      chVars, policyVars, maintVars

(* insert_with_or_modify_entry_and finds an entry to modify. *)
LEMMA InsertFoundType ==
    ASSUME TypeInv, NEW t \in Threads, InsertFound(t)
    PROVE  TypeInv'
  <1> DEFINE b == bucket[thr[t].key]
             x == [thr[t] EXCEPT !.pc = "modify", !.seen = b]
  <1>0. thr[t] \in ThreadStates /\ ThreadOK(thr[t]) /\ thr[t].pc = "load" /\ thr[t].key \in Keys
    BY Zenon DEF InsertFound, TypeInv, TypeOK, LocalsOK, ThreadOK
  <1>b. b \in Buckets /\ b.info \in Infos
    BY <1>0 DEF InsertFound, TypeInv, TypeOK, Buckets
  <1>1. x \in ThreadStates
    BY Zenon, <1>0, <1>b DEF ThreadStates, ThreadPCs
  <1>2. ThreadOK(x)
    BY <1>0, <1>b DEF ThreadOK, Inserting, ThreadStates
  <1>x. thr' = [thr EXCEPT ![t] = x]
    BY Zenon DEF InsertFound, TypeInv, TypeOK
  <1>3. thr' \in [Threads -> ThreadStates] /\ \A u \in Threads : ThreadOK(thr'[u])
    BY Zenon, <1>1, <1>2, <1>x, ThreadMoves DEF TypeInv
  <1> QED
    BY Zenon, <1>3 DEF InsertFound, TypeInv, TypeOK, LocalsOK, storeVars, infoVars, flagVars,
                chVars, policyVars, maintVars

(* on_insert creates the next EntryInfo of the key. *)
LEMMA OnInsertType ==
    ASSUME TypeInv, NEW t \in Threads, OnInsert(t)
    PROVE  TypeInv'
  <1> DEFINE k == thr[t].key
             i == <<k, allocs[k] + 1>>
             op == WriteOp("Upsert", i, entry_gen[i], 0, thr[t].weight)
             x == [thr[t] EXCEPT !.pc = "cas", !.seen = bucket[k], !.own = i, !.op = op]
  <1>0. thr[t] \in ThreadStates /\ ThreadOK(thr[t]) /\ thr[t].pc = "load" /\ k \in Keys
    BY Zenon DEF OnInsert, TypeInv, TypeOK, LocalsOK, ThreadOK
  <1>b. bucket[k] \in Buckets /\ bucket[k].info = None
    BY <1>0 DEF OnInsert, TypeInv, TypeOK
  <1>a. allocs[k] \in 0..MaxAllocs /\ allocs[k] < MaxAllocs
    BY <1>0 DEF OnInsert, TypeInv, TypeOK
  <1>c. allocs[k] + 1 \in 1..MaxAllocs /\ allocs[k] + 1 \in 0..MaxAllocs
    BY <1>a, BoundsAssumption
  <1>d. allocs' \in [Keys -> 0..MaxAllocs]
    BY Zenon, <1>c DEF OnInsert, TypeInv, TypeOK
  <1>e. i \in Infos
    BY <1>0, <1>c DEF Infos
  <1>i. i \in Infos /\ allocs' \in [Keys -> 0..MaxAllocs]
    BY <1>d, <1>e
  <1>w. thr[t].weight \in Nat /\ thr[t].ts \in Nat /\ entry_gen[i] \in Gens
    BY <1>0, <1>i DEF TypeInv, TypeOK, ThreadStates
  <1>o. op \in WriteOps /\ op.kind = "Upsert"
    <2> HIDE DEF i
    <2>1. WriteOp("Upsert", i, entry_gen[i], 0, thr[t].weight) \in WriteOps
      BY <1>i, <1>w, WriteOpType
    <2> QED BY <2>1 DEF WriteOp
  <1>1. x \in ThreadStates
    BY Zenon, <1>0, <1>b, <1>i, <1>o DEF ThreadStates, ThreadPCs
  <1>2. ThreadOK(x)
    <2> HIDE DEF op, i
    <2> QED BY <1>0, <1>b, <1>i, <1>o DEF ThreadOK, Inserting, ThreadStates
  <1>x. thr' = [thr EXCEPT ![t] = x]
    BY Zenon DEF OnInsert, TypeInv, TypeOK
  <1>3. thr' \in [Threads -> ThreadStates] /\ \A u \in Threads : ThreadOK(thr'[u])
    BY Zenon, <1>1, <1>2, <1>x, ThreadMoves DEF TypeInv
  <1>4. policy_weight' \in [Infos -> Nat] /\ last_accessed' \in [Infos -> Nat]
    BY Zenon, <1>i, <1>w DEF OnInsert, TypeInv, TypeOK
  <1> QED
    BY Zenon, <1>3, <1>4, <1>i DEF OnInsert, TypeInv, TypeOK, LocalsOK, storeVars, flagVars,
                            chVars, policyVars, maintVars

(* A retried insertion reuses the EntryInfo it has created. *)
LEMMA InsertAgainType ==
    ASSUME TypeInv, NEW t \in Threads, InsertAgain(t)
    PROVE  TypeInv'
  <1> DEFINE b == bucket[thr[t].key]
             x == [thr[t] EXCEPT !.pc = "cas", !.seen = b]
  <1>0. thr[t] \in ThreadStates /\ ThreadOK(thr[t]) /\ thr[t].pc = "load" /\ thr[t].key \in Keys
    BY Zenon DEF InsertAgain, TypeInv, TypeOK, LocalsOK, ThreadOK
  <1>b. b \in Buckets /\ b.info = None /\ thr[t].own \in Infos
    BY <1>0 DEF InsertAgain, TypeInv, TypeOK, ThreadStates
  <1>1. x \in ThreadStates
    BY Zenon, <1>0, <1>b DEF ThreadStates, ThreadPCs
  <1>2. ThreadOK(x)
    BY <1>0, <1>b, InfosAssumption DEF ThreadOK, Inserting, ThreadStates
  <1>x. thr' = [thr EXCEPT ![t] = x]
    BY Zenon DEF InsertAgain, TypeInv, TypeOK
  <1>3. thr' \in [Threads -> ThreadStates] /\ \A u \in Threads : ThreadOK(thr'[u])
    BY Zenon, <1>1, <1>2, <1>x, ThreadMoves DEF TypeInv
  <1> QED
    BY Zenon, <1>3 DEF InsertAgain, TypeInv, TypeOK, LocalsOK, storeVars, infoVars, flagVars,
                chVars, policyVars, maintVars

(* on_modify writes to the EntryInfo of the bucket. *)
LEMMA OnModifyType ==
    ASSUME TypeInv, NEW t \in Threads, OnModify(t)
    PROVE  TypeInv'
  <1> DEFINE i == thr[t].seen.info
             op == WriteOp("Upsert", i, entry_gen'[i], policy_weight[i], thr[t].weight)
             x == [thr[t] EXCEPT !.pc = "cas", !.op = op]
  <1>0. thr[t] \in ThreadStates /\ ThreadOK(thr[t]) /\ thr[t].pc = "modify" /\ i \in Infos
    BY Zenon DEF OnModify, TypeInv, TypeOK, LocalsOK, ThreadOK
  <1>g. entry_gen' \in [Infos -> Gens]
    BY <1>0, GenTypes DEF OnModify, TypeInv
  <1>w. thr[t].weight \in Nat /\ thr[t].ts \in Nat /\ policy_weight[i] \in Nat
    BY SMTT(30), <1>0 DEF TypeInv, TypeOK, ThreadStates
  <1>o. op \in WriteOps /\ op.kind = "Upsert" /\ op.info = i
    BY <1>0, <1>g, <1>w, WriteOpType
  <1>1. x \in ThreadStates
    BY Zenon, <1>0, <1>o DEF ThreadStates, ThreadPCs
  <1>2. ThreadOK(x)
    <2> HIDE DEF op
    <2> QED BY <1>0, <1>o, InfosAssumption DEF ThreadOK, Inserting, ThreadStates
  <1>x. thr' = [thr EXCEPT ![t] = x]
    BY Zenon DEF OnModify, TypeInv, TypeOK
  <1>3. thr' \in [Threads -> ThreadStates] /\ \A u \in Threads : ThreadOK(thr'[u])
    BY Zenon, <1>1, <1>2, <1>x, ThreadMoves DEF TypeInv
  <1>4. policy_weight' \in [Infos -> Nat] /\ last_accessed' \in [Infos -> Nat]
    BY SMTT(30), <1>0, <1>w DEF OnModify, TypeInv, TypeOK
  <1> QED
    BY Zenon, <1>3, <1>4, <1>g DEF OnModify, TypeInv, TypeOK, LocalsOK, storeVars, flagVars,
                            chVars, policyVars, maintVars

(* The CAS of an insertion puts an EntryInfo in the bucket. *)
LEMMA InsertCasType ==
    ASSUME TypeInv, NEW t \in Threads, InsertCas(t)
    PROVE  TypeInv'
  <1> DEFINE k == thr[t].key
             i == IF thr[t].seen.info = None THEN thr[t].own ELSE thr[t].seen.info
             x == [IdleThread EXCEPT !.pc = "send", !.op = thr[t].op]
  <1>0. thr[t] \in ThreadStates /\ ThreadOK(thr[t]) /\ thr[t].pc = "cas" /\ k \in Keys
    BY Zenon DEF InsertCas, TypeInv, TypeOK, LocalsOK, ThreadOK
  <1>i. i \in Infos /\ thr[t].op \in WriteOps
    BY <1>0 DEF ThreadOK, ThreadStates, Buckets
  <1>b. bucket' \in [Keys -> Buckets]
    BY Zenon, <1>0, <1>i, BucketCas DEF InsertCas, TypeInv
  <1>1. x \in ThreadStates
    BY Zenon, <1>i, Defaults DEF ThreadStates, ThreadPCs
  <1>2. ThreadOK(x)
    BY <1>i DEF ThreadOK, Inserting, IdleThread
  <1>3. thr' \in [Threads -> ThreadStates] /\ \A u \in Threads : ThreadOK(thr'[u])
    BY Zenon, <1>1, <1>2, ThreadMoves DEF InsertCas, TypeInv
  <1>4. lock' \in [Keys -> Threads \cup {None}]
    BY <1>0, ReleaseType DEF InsertCas, TypeInv
  <1> QED
    BY Zenon, <1>b, <1>3, <1>4 DEF InsertCas, TypeInv, TypeOK, LocalsOK, infoVars, flagVars,
                            chVars, policyVars, maintVars

(* A failed CAS sends the insertion back to the load. *)
LEMMA InsertCasFailType ==
    ASSUME TypeInv, NEW t \in Threads, InsertCasFail(t)
    PROVE  TypeInv'
  <1> DEFINE n == IF bucket[thr[t].key].ver # thr[t].seen.ver THEN thr[t].retries
                  ELSE thr[t].retries + 1
             x == [thr[t] EXCEPT !.pc = "load", !.seen = NoBucket, !.retries = n]
  <1>0. thr[t] \in ThreadStates /\ ThreadOK(thr[t]) /\ thr[t].pc = "cas"
    BY DEF InsertCasFail, TypeInv, TypeOK, LocalsOK
  <1>n. n \in Nat
    BY <1>0 DEF ThreadStates
  <1>1. x \in ThreadStates
    <2> HIDE DEF n
    <2> QED BY Zenon, <1>0, <1>n, Defaults DEF ThreadStates, ThreadPCs
  <1>2. ThreadOK(x)
    <2> HIDE DEF n
    <2> QED BY <1>0 DEF ThreadOK, Inserting, ThreadStates
  <1>x. thr' = [thr EXCEPT ![t] = x]
    BY Zenon, <1>0 DEF InsertCasFail, TypeInv, TypeOK, ThreadStates
  <1>3. thr' \in [Threads -> ThreadStates] /\ \A u \in Threads : ThreadOK(thr'[u])
    <2> HIDE DEF x
    <2> QED BY Zenon, <1>1, <1>2, <1>x, ThreadMoves DEF TypeInv
  <1> QED
    BY Zenon, <1>3 DEF InsertCasFail, TypeInv, TypeOK, LocalsOK, storeVars, infoVars, flagVars,
                chVars, policyVars, maintVars

(* schedule_write_op appends to the channel. *)
LEMMA ScheduleWriteOpType ==
    ASSUME TypeInv, NEW t \in Threads, ScheduleWriteOp(t)
    PROVE  TypeInv'
  <1>0. thr[t].op \in WriteOps
    BY DEF ScheduleWriteOp, TypeInv, LocalsOK, ThreadOK
  <1>1. write_op_ch' \in Seq(WriteOps)
    BY <1>0 DEF ScheduleWriteOp, TypeInv, TypeOK
  <1>2. thr' \in [Threads -> ThreadStates] /\ \A u \in Threads : ThreadOK(thr'[u])
    BY Zenon, Defaults, ThreadMoves DEF ScheduleWriteOp, TypeInv
  <1> QED
    BY SMTT(30), <1>1, <1>2 DEF ScheduleWriteOp, TypeInv, TypeOK, LocalsOK, storeVars, infoVars,
                      flagVars, policyVars, maintVars

(* remove_entry gets the key lock. *)
LEMMA RemoveLockType ==
    ASSUME TypeInv, NEW t \in Threads, RemoveLock(t)
    PROVE  TypeInv'
  <1> DEFINE x == [thr[t] EXCEPT !.pc = "remove"]
  <1>0. thr[t] \in ThreadStates /\ ThreadOK(thr[t]) /\ thr[t].pc = "lock"
    BY DEF RemoveLock, TypeInv, TypeOK, LocalsOK
  <1>1. x \in ThreadStates
    BY <1>0 DEF ThreadStates, ThreadPCs
  <1>2. ThreadOK(x)
    BY <1>0 DEF ThreadOK, Inserting, ThreadStates
  <1>x. thr' = [thr EXCEPT ![t] = x]
    BY DEF RemoveLock, TypeInv, TypeOK
  <1>3. thr' \in [Threads -> ThreadStates] /\ \A u \in Threads : ThreadOK(thr'[u])
    BY Zenon, <1>1, <1>2, <1>x, ThreadMoves DEF TypeInv
  <1>4. lock' \in [Keys -> Threads \cup {None}]
    BY Zenon DEF RemoveLock, TypeInv, TypeOK
  <1> QED
    BY Zenon, <1>3, <1>4 DEF RemoveLock, TypeInv, TypeOK, LocalsOK, infoVars, flagVars,
                      chVars, policyVars, maintVars

(* The CAS of remove_entry empties the bucket. *)
LEMMA RemoveCasType ==
    ASSUME TypeInv, NEW t \in Threads, RemoveCas(t)
    PROVE  TypeInv'
  <1> DEFINE k == thr[t].key
             x == [thr[t] EXCEPT !.pc = "retire", !.seen = bucket[k]]
  <1>0. thr[t] \in ThreadStates /\ ThreadOK(thr[t]) /\ thr[t].pc = "remove" /\ k \in Keys
    BY Zenon DEF RemoveCas, TypeInv, TypeOK, LocalsOK, ThreadOK
  <1>b. bucket[k] \in Buckets /\ bucket[k].info \in Infos
    BY <1>0 DEF RemoveCas, TypeInv, TypeOK, Buckets
  <1>c. bucket' \in [Keys -> Buckets]
    BY Zenon, <1>0, BucketCas DEF RemoveCas, TypeInv
  <1>1. x \in ThreadStates
    BY Zenon, <1>0, <1>b DEF ThreadStates, ThreadPCs
  <1>2. ThreadOK(x)
    BY <1>0, <1>b DEF ThreadOK, Inserting, ThreadStates
  <1>x. thr' = [thr EXCEPT ![t] = x]
    BY Zenon DEF RemoveCas, TypeInv, TypeOK
  <1>3. thr' \in [Threads -> ThreadStates] /\ \A u \in Threads : ThreadOK(thr'[u])
    BY Zenon, <1>1, <1>2, <1>x, ThreadMoves DEF TypeInv
  <1> QED
    BY Zenon, <1>c, <1>3 DEF RemoveCas, TypeInv, TypeOK, LocalsOK, infoVars, flagVars,
                      chVars, policyVars, maintVars

(* remove_entry finds nothing and returns. *)
LEMMA RemoveMissType ==
    ASSUME TypeInv, NEW t \in Threads, RemoveMiss(t)
    PROVE  TypeInv'
  <1>0. thr[t].key \in Keys
    BY DEF RemoveMiss, TypeInv, LocalsOK, ThreadOK
  <1>1. lock' \in [Keys -> Threads \cup {None}]
    BY <1>0, ReleaseType DEF RemoveMiss, TypeInv
  <1>2. thr' \in [Threads -> ThreadStates] /\ \A u \in Threads : ThreadOK(thr'[u])
    BY Zenon, Defaults, ThreadMoves DEF RemoveMiss, TypeInv
  <1> QED
    BY Zenon, <1>1, <1>2 DEF RemoveMiss, TypeInv, TypeOK, LocalsOK, infoVars, flagVars,
                      chVars, policyVars, maintVars

(* remove_entry retires the EntryInfo it has unlinked. *)
LEMMA RemoveRetireType ==
    ASSUME TypeInv, NEW t \in Threads, RemoveRetire(t)
    PROVE  TypeInv'
  <1> DEFINE x == [thr[t] EXCEPT !.pc = "incr"]
  <1>0. thr[t] \in ThreadStates /\ ThreadOK(thr[t]) /\ thr[t].pc = "retire"
           /\ thr[t].seen.info \in Infos
    BY SMTT(30) DEF RemoveRetire, TypeInv, TypeOK, LocalsOK, ThreadOK
  <1>1. x \in ThreadStates
    BY <1>0 DEF ThreadStates, ThreadPCs
  <1>2. ThreadOK(x)
    BY <1>0 DEF ThreadOK, Inserting, ThreadStates
  <1>x. thr' = [thr EXCEPT ![t] = x]
    BY DEF RemoveRetire, TypeInv, TypeOK
  <1>3. thr' \in [Threads -> ThreadStates] /\ \A u \in Threads : ThreadOK(thr'[u])
    BY Zenon, <1>1, <1>2, <1>x, ThreadMoves DEF TypeInv
  <1>4. retired' \subseteq Infos
    BY <1>0 DEF RemoveRetire, TypeInv, TypeOK
  <1> QED
    BY Zenon, <1>3, <1>4 DEF RemoveRetire, TypeInv, TypeOK, LocalsOK, storeVars, infoVars, chVars,
                      policyVars, maintVars

(* invalidate counts the generation and prepares its WriteOp. *)
LEMMA RemoveIncrType ==
    ASSUME TypeInv, NEW t \in Threads, RemoveIncr(t)
    PROVE  TypeInv'
  <1> DEFINE i == thr[t].seen.info
             op == WriteOp("Remove", i, entry_gen'[i], 0, 0)
             x == [IdleThread EXCEPT !.pc = "send", !.op = op]
  <1>0. thr[t].pc = "incr" /\ i \in Infos /\ thr[t].key \in Keys
    BY DEF RemoveIncr, TypeInv, LocalsOK, ThreadOK
  <1>g. entry_gen' \in [Infos -> Gens]
    BY <1>0, GenTypes DEF RemoveIncr, TypeInv
  <1>o. op \in WriteOps
    BY <1>0, <1>g, WriteOpType
  <1>1. x \in ThreadStates
    BY Zenon, <1>o, Defaults DEF ThreadStates, ThreadPCs
  <1>2. ThreadOK(x)
    <2> HIDE DEF op
    <2> QED BY <1>o DEF ThreadOK, Inserting, IdleThread
  <1>3. thr' \in [Threads -> ThreadStates] /\ \A u \in Threads : ThreadOK(thr'[u])
    BY Zenon, <1>1, <1>2, ThreadMoves DEF RemoveIncr, TypeInv
  <1>4. lock' \in [Keys -> Threads \cup {None}]
    BY <1>0, ReleaseType DEF RemoveIncr, TypeInv
  <1> QED
    BY Zenon, <1>g, <1>3, <1>4 DEF RemoveIncr, TypeInv, TypeOK, LocalsOK, flagVars, chVars,
                            policyVars, maintVars

(* get stores the access time in the EntryInfo. *)
LEMMA GetTouchType ==
    ASSUME TypeInv, NEW t \in Threads, GetTouch(t)
    PROVE  TypeInv'
  <1> DEFINE x == [thr[t] EXCEPT !.pc = "record"]
  <1>0. thr[t] \in ThreadStates /\ ThreadOK(thr[t]) /\ thr[t].pc = "touch"
           /\ thr[t].seen.info \in Infos
    BY Zenon DEF GetTouch, TypeInv, TypeOK, LocalsOK, ThreadOK
  <1>1. x \in ThreadStates
    BY <1>0 DEF ThreadStates, ThreadPCs
  <1>2. ThreadOK(x)
    BY <1>0 DEF ThreadOK, Inserting, ThreadStates
  <1>x. thr' = [thr EXCEPT ![t] = x]
    BY DEF GetTouch, TypeInv, TypeOK
  <1>3. thr' \in [Threads -> ThreadStates] /\ \A u \in Threads : ThreadOK(thr'[u])
    BY Zenon, <1>1, <1>2, <1>x, ThreadMoves DEF TypeInv
  <1>4. last_accessed' \in [Infos -> Nat]
    BY <1>0 DEF GetTouch, TypeInv, TypeOK, ThreadStates
  <1> QED
    BY Zenon, <1>3, <1>4 DEF GetTouch, TypeInv, TypeOK, LocalsOK, storeVars, flagVars, chVars,
                      policyVars, maintVars

(* record_read_op sends or drops the ReadOp. *)
LEMMA RecordReadOpType ==
    ASSUME TypeInv, NEW t \in Threads, RecordReadOp(t)
    PROVE  TypeInv'
  <1>0. thr[t].seen.info \in Infos \cup {None}
    BY DEF TypeInv, TypeOK, ThreadStates, Buckets
  <1>1. read_op_ch' \in Seq(Infos \cup {None})
    BY <1>0 DEF RecordReadOp, TypeInv, TypeOK
  <1>2. thr' \in [Threads -> ThreadStates] /\ \A u \in Threads : ThreadOK(thr'[u])
    BY Zenon, Defaults, ThreadMoves DEF RecordReadOp, TypeInv
  <1> QED
    BY <1>1, <1>2 DEF RecordReadOp, TypeInv, TypeOK, LocalsOK, storeVars, infoVars, flagVars,
                      policyVars, maintVars

(* Whatever a user thread does keeps the types. *)
LEMMA UserTypes ==
    ASSUME TypeInv, NEW t \in Threads, UserStep(t)
    PROVE  TypeInv'
  BY SMTT(30), InsertStartType, RemoveStartType, GetFoundType, InsertFoundType, OnInsertType,
     InsertAgainType, OnModifyType, InsertCasType, InsertCasFailType, ScheduleWriteOpType,
     RemoveLockType, RemoveCasType, RemoveMissType, RemoveRetireType, RemoveIncrType, GetTouchType,
     RecordReadOpType
  DEF UserStep

-----------------------------------------------------------------------------
(* The maintenance task *)

(* handle_admit keeps the types of the deque, the flags and the counters. *)
LEMMA AdmitTypes ==
    ASSUME TypeOK, NEW i \in Infos, NEW w \in Nat, handle_admit(i, w)
    PROVE  /\ admitted' \subseteq Infos
           /\ probation' \in Seq(Infos)
           /\ counters' \in [entry_count : Int, weighted_size : Nat]
  BY SMTT(30) DEF TypeOK, handle_admit

(* handle_remove keeps them too. *)
LEMMA RemoveTypes ==
    ASSUME TypeOK, NEW i \in Infos, handle_remove(i)
    PROVE  /\ admitted' \subseteq Infos
           /\ probation' \in Seq(Infos)
           /\ counters' \in [entry_count : Int, weighted_size : Nat]
  <1>1. probation' \in Seq(Infos)
    BY UnlinkType DEF TypeOK, handle_remove
  <1>2. saturating_sub(counters.weighted_size, policy_weight[i]) \in Nat
    BY SMTT(30), SubType DEF TypeOK
  <1>3. counters' \in [entry_count : Int, weighted_size : Nat]
    BY <1>2 DEF TypeOK, handle_remove
  <1> QED
    BY <1>1, <1>3 DEF TypeOK, handle_remove

(* cht_remove_if_and_retire leaves a CHT and a set of retired entries. *)
LEMMA RetireTypes ==
    ASSUME TypeOK, NEW k \in Keys, bucket[k].info # None, cht_remove_and_retire(k)
    PROVE  bucket' \in [Keys -> Buckets] /\ retired' \subseteq Infos
  <1>1. bucket' \in [Keys -> Buckets]
    BY Zenon, BucketCas DEF cht_remove_and_retire
  <1>2. bucket[k].info \in Infos
    BY DEF TypeOK, Buckets
  <1> QED
    BY SMTT(30), <1>1, <1>2 DEF TypeOK, cht_remove_and_retire

(* What apply_writes takes from the channel is a WriteOp. *)
LEMMA ReceiveTypes ==
    ASSUME TypeInv, NEW kind, Receive(kind)
    PROVE  /\ Head(write_op_ch) \in WriteOps
           /\ Head(write_op_ch).info \in Infos
           /\ Head(write_op_ch).gen \in Gens
           /\ Head(write_op_ch).old \in Nat
           /\ Head(write_op_ch).new \in Nat
           /\ write_op_ch' \in Seq(WriteOps)
           /\ [m EXCEPT !.left = @ - 1] \in MaintStates
           /\ MaintOK("writes", [m EXCEPT !.left = @ - 1])
  <1>1. write_op_ch \in Seq(WriteOps) /\ write_op_ch # <<>> /\ write_op_ch' = Tail(write_op_ch)
    BY DEF TypeInv, TypeOK, Receive
  <1>2. Head(write_op_ch) \in WriteOps /\ write_op_ch' \in Seq(WriteOps)
    BY <1>1
  <1>3. m \in MaintStates /\ m.left - 1 \in Nat
    BY DEF TypeInv, TypeOK, Receive, MaintStates
  <1>4. [m EXCEPT !.left = @ - 1] \in MaintStates
    BY <1>3 DEF MaintStates
  <1>5. MaintOK("writes", [m EXCEPT !.left = @ - 1])
    BY <1>3 DEF TypeInv, LocalsOK, MaintOK, Receive, Working, MaintStates
  <1> QED
    BY <1>2, <1>4, <1>5 DEF WriteOps

(* The step MaintStart of the maintenance task keeps the types. *)
LEMMA MaintStartType == TypeInv /\ MaintStart => TypeInv'
  <1> SUFFICES ASSUME TypeInv, MaintStart PROVE TypeInv'
    OBVIOUS
  <1>0. Len(read_op_ch) \in Nat
    BY DEF TypeInv, TypeOK
  <1>1. m' \in MaintStates
    BY <1>0, Defaults DEF MaintStart, MaintStates
  <1>2. MaintOK(mpc', m')
    BY DEF MaintStart, MaintOK, Working, IdleMaint, NoBucket
  <1> QED
    BY <1>1, <1>2 DEF MaintStart, TypeInv, TypeOK, LocalsOK, MaintPCs, storeVars, infoVars,
                      flagVars, chVars, userVars

(* The step ApplyRead of the maintenance task keeps the types. *)
LEMMA ApplyReadType == TypeInv /\ ApplyRead => TypeInv'
  <1> SUFFICES ASSUME TypeInv, ApplyRead PROVE TypeInv'
    OBVIOUS
  <1>a. m \in MaintStates /\ m.left > 0
    BY DEF ApplyRead, TypeInv, TypeOK
  <1>0. m \in MaintStates /\ m.left - 1 \in Nat
    BY <1>a DEF MaintStates
  <1>1. m' \in MaintStates
    BY SMTT(30), <1>0 DEF ApplyRead, MaintStates
  <1>2. MaintOK(mpc', m')
    BY <1>0 DEF ApplyRead, MaintOK, Working, TypeInv, LocalsOK, MaintStates
  <1>3. Head(read_op_ch) \in Infos \cup {None} /\ read_op_ch' \in Seq(Infos \cup {None})
    BY DEF ApplyRead, TypeInv, TypeOK
  <1>4. probation' \in Seq(Infos)
    BY Zenon, <1>3, DequeTypes DEF ApplyRead, TypeInv, TypeOK
  <1> QED
    BY Zenon, <1>1, <1>2, <1>3, <1>4 DEF ApplyRead, TypeInv, TypeOK, LocalsOK, storeVars, infoVars,
                                  flagVars, userVars

(* The step ReadsDone of the maintenance task keeps the types. *)
LEMMA ReadsDoneType == TypeInv /\ ReadsDone => TypeInv'
  <1> SUFFICES ASSUME TypeInv, ReadsDone PROVE TypeInv'
    OBVIOUS
  <1>0. m \in MaintStates /\ Len(write_op_ch) \in Nat
    BY DEF TypeInv, TypeOK
  <1>1. m' \in MaintStates
    BY <1>0 DEF ReadsDone, MaintStates
  <1>2. MaintOK(mpc', m')
    BY <1>0 DEF ReadsDone, MaintOK, Working, TypeInv, LocalsOK, MaintStates
  <1> QED
    BY <1>1, <1>2 DEF ReadsDone, TypeInv, TypeOK, LocalsOK, MaintPCs, storeVars, infoVars,
                      flagVars, chVars, policyVars, userVars

(* The step ApplyRemove of the maintenance task keeps the types. *)
LEMMA ApplyRemoveType == TypeInv /\ ApplyRemove => TypeInv'
  <1> SUFFICES ASSUME TypeInv, ApplyRemove PROVE TypeInv'
    OBVIOUS
  <1> DEFINE op == Head(write_op_ch)
  <1>0. Receive("Remove") /\ mpc' = "writes" /\ m' = [m EXCEPT !.left = @ - 1]
    BY DEF ApplyRemove, Receive
  <1>1. op.info \in Infos /\ op.gen \in Gens /\ write_op_ch' \in Seq(WriteOps)
           /\ m' \in MaintStates /\ MaintOK(mpc', m')
    BY <1>0, ReceiveTypes
  <1>2. policy_gen' \in [Infos -> Gens]
    BY <1>1, GenTypes DEF ApplyRemove, TypeInv
  <1>3. /\ admitted' \subseteq Infos
        /\ probation' \in Seq(Infos)
        /\ counters' \in [entry_count : Int, weighted_size : Nat]
    BY <1>1, RemoveTypes DEF ApplyRemove, TypeInv
  <1> QED
    BY Zenon, <1>0, <1>1, <1>2, <1>3 DEF ApplyRemove, TypeInv, TypeOK, LocalsOK, storeVars, userVars

(* The step UpsertRetired of the maintenance task keeps the types. *)
LEMMA UpsertRetiredType == TypeInv /\ UpsertRetired => TypeInv'
  <1> SUFFICES ASSUME TypeInv, UpsertRetired PROVE TypeInv'
    OBVIOUS
  <1> DEFINE op == Head(write_op_ch)
  <1>0. Receive("Upsert") /\ mpc' = "writes" /\ m' = [m EXCEPT !.left = @ - 1]
    BY DEF UpsertRetired, Receive
  <1>1. op.info \in Infos /\ op.gen \in Gens /\ write_op_ch' \in Seq(WriteOps)
           /\ m' \in MaintStates /\ MaintOK(mpc', m')
    BY <1>0, ReceiveTypes
  <1>2. policy_gen' \in [Infos -> Gens]
    BY <1>1, GenTypes DEF UpsertRetired, TypeInv
  <1> QED
    BY SMTT(30), <1>0, <1>1, <1>2 DEF UpsertRetired, TypeInv, TypeOK, LocalsOK, storeVars, flagVars,
                      policyVars, userVars

(* The step UpsertAdmitted of the maintenance task keeps the types. *)
LEMMA UpsertAdmittedType == TypeInv /\ UpsertAdmitted => TypeInv'
  <1> SUFFICES ASSUME TypeInv, UpsertAdmitted PROVE TypeInv'
    OBVIOUS
  <1> DEFINE op == Head(write_op_ch)
  <1>0. Receive("Upsert") /\ mpc' = "writes" /\ m' = [m EXCEPT !.left = @ - 1]
    BY DEF UpsertAdmitted, Receive
  <1>1. op.info \in Infos /\ op.gen \in Gens /\ op.old \in Nat /\ op.new \in Nat
           /\ write_op_ch' \in Seq(WriteOps) /\ m' \in MaintStates /\ MaintOK(mpc', m')
    BY <1>0, ReceiveTypes
  <1>2. policy_gen' \in [Infos -> Gens]
    BY <1>1, GenTypes DEF UpsertAdmitted, TypeInv
  <1>3. probation' \in Seq(Infos)
    BY Zenon, <1>1, DequeTypes DEF UpsertAdmitted, TypeInv, TypeOK
  <1>a. counters.weighted_size \in Nat
    BY DEF TypeInv, TypeOK
  <1>b. saturating_sub(counters.weighted_size, op.old) \in Nat
    BY Zenon, <1>1, <1>a, SubType
  <1>4. saturating_sub(counters.weighted_size, op.old) + op.new \in Nat
    BY <1>1, <1>b
  <1>5. counters' \in [entry_count : Int, weighted_size : Nat]
    BY Zenon, <1>4 DEF UpsertAdmitted, TypeInv, TypeOK
  <1> QED
    BY Zenon, <1>0, <1>1, <1>2, <1>3, <1>5 DEF UpsertAdmitted, TypeInv, TypeOK, LocalsOK, storeVars,
                                  flagVars, userVars

(* The step UpsertFits of the maintenance task keeps the types. *)
LEMMA UpsertFitsType == TypeInv /\ UpsertFits => TypeInv'
  <1> SUFFICES ASSUME TypeInv, UpsertFits PROVE TypeInv'
    OBVIOUS
  <1> DEFINE op == Head(write_op_ch)
  <1>0. Receive("Upsert") /\ mpc' = "writes" /\ m' = [m EXCEPT !.left = @ - 1]
    BY DEF UpsertFits, Receive
  <1>1. op.info \in Infos /\ op.gen \in Gens /\ op.new \in Nat
           /\ write_op_ch' \in Seq(WriteOps) /\ m' \in MaintStates /\ MaintOK(mpc', m')
    BY <1>0, ReceiveTypes
  <1>2. policy_gen' \in [Infos -> Gens]
    BY <1>1, GenTypes DEF UpsertFits, TypeInv
  <1>3. /\ admitted' \subseteq Infos
        /\ probation' \in Seq(Infos)
        /\ counters' \in [entry_count : Int, weighted_size : Nat]
    BY <1>1, AdmitTypes DEF UpsertFits, TypeInv
  <1> QED
    BY Zenon, <1>0, <1>1, <1>2, <1>3 DEF UpsertFits, TypeInv, TypeOK, LocalsOK, storeVars, userVars

(* The step UpsertTooBig of the maintenance task keeps the types. *)
LEMMA UpsertTooBigType == TypeInv /\ UpsertTooBig => TypeInv'
  <1> SUFFICES ASSUME TypeInv, UpsertTooBig PROVE TypeInv'
    OBVIOUS
  <1> DEFINE op == Head(write_op_ch)
             l == [m EXCEPT !.left = @ - 1]
  <1>0. Receive("Upsert") /\ m \in MaintStates
    BY DEF UpsertTooBig, TypeInv, TypeOK
  <1>1. op \in WriteOps /\ write_op_ch' \in Seq(WriteOps) /\ l \in MaintStates
           /\ MaintOK("writes", l)
    BY <1>0, ReceiveTypes
  <1>x. m' = [l EXCEPT !.work = op] /\ mpc' = "toobig"
    BY <1>0 DEF UpsertTooBig, MaintStates
  <1> HIDE DEF l
  <1>2. m' \in MaintStates
    BY <1>1, <1>x DEF MaintStates
  <1>3. MaintOK(mpc', m')
    BY <1>1, <1>x DEF MaintOK, Working, MaintStates
  <1> QED
    BY Zenon, <1>1, <1>2, <1>3, <1>x DEF UpsertTooBig, TypeInv, TypeOK, LocalsOK, MaintPCs,
         storeVars, infoVars, flagVars, policyVars, userVars

(* The step UpsertContends of the maintenance task keeps the types. *)
LEMMA UpsertContendsType == TypeInv /\ UpsertContends => TypeInv'
  <1> SUFFICES ASSUME TypeInv, UpsertContends PROVE TypeInv'
    OBVIOUS
  <1> DEFINE op == Head(write_op_ch)
             l == [m EXCEPT !.left = @ - 1]
             n == IF probation = <<>> THEN None ELSE Head(probation)
  <1>0. Receive("Upsert") /\ m \in MaintStates /\ probation \in Seq(Infos)
    BY DEF UpsertContends, TypeInv, TypeOK
  <1>1. op \in WriteOps /\ write_op_ch' \in Seq(WriteOps) /\ l \in MaintStates
           /\ MaintOK("writes", l)
    BY <1>0, ReceiveTypes
  <1>n. n \in Infos \cup {None}
    BY <1>0
  <1> PICK f \in Freqs :
        m' = [m EXCEPT !.left = @ - 1, !.work = op, !.victims = <<>>,
                       !.scan = [NoScan EXCEPT !.cand = f, !.next = n]]
    BY Zenon DEF UpsertContends
  <1> DEFINE scan == [NoScan EXCEPT !.cand = f, !.next = n]
  <1>s. scan \in Scans
    <2> HIDE DEF n
    <2> QED BY Zenon, <1>n, Defaults, WeightsAssumption DEF Scans
  <1>x. m' = [l EXCEPT !.work = op, !.victims = <<>>, !.scan = scan] /\ mpc' = "admit"
    BY <1>0 DEF UpsertContends, MaintStates
  <1> HIDE DEF l, scan
  <1>y. << >> \in Seq(Victims)
    OBVIOUS
  <1>2. m' \in MaintStates
    BY Zenon, <1>1, <1>x, <1>y, <1>s DEF MaintStates
  <1>3. MaintOK(mpc', m')
    BY Zenon, <1>1, <1>x DEF MaintOK, Working, MaintStates
  <1> QED
    BY Zenon, <1>1, <1>2, <1>3, <1>x DEF UpsertContends, TypeInv, TypeOK, LocalsOK, MaintPCs,
         storeVars, infoVars, flagVars, policyVars, userVars

(* The step AdmitLook of the maintenance task keeps the types. *)
LEMMA AdmitLookType == TypeInv /\ AdmitLook => TypeInv'
  <1> SUFFICES ASSUME TypeInv, AdmitLook PROVE TypeInv'
    OBVIOUS
  <1>1. mpc' = "admit_look" /\ mpc = "admit" /\ m' = m /\ m.scan.next # None
    BY DEF AdmitLook, Scanning
  <1>2. MaintOK(mpc', m')
    BY <1>1 DEF MaintOK, Working, TypeInv, LocalsOK
  <1> QED
    BY <1>1, <1>2 DEF AdmitLook, TypeInv, TypeOK, LocalsOK, MaintPCs,
         storeVars, infoVars, flagVars, chVars, policyVars, userVars

(* The step AdmitSkip of the maintenance task keeps the types. *)
LEMMA AdmitSkipType == TypeInv /\ AdmitSkip => TypeInv'
  <1> SUFFICES ASSUME TypeInv, AdmitSkip PROVE TypeInv'
    OBVIOUS
  <1> DEFINE v == m.scan.next
             n == next_node(probation, v)
             r == m.scan.retries + 1
             scan == [m.scan EXCEPT !.next = n, !.retries = r]
  <1>a. v # None /\ mpc \in {"admit", "admit_look"} /\ mpc' = "admit"
    BY DEF AdmitSkip, Scanning, TypeInv, LocalsOK, MaintOK
  <1>0. m \in MaintStates /\ m.scan \in Scans /\ v # None /\ probation \in Seq(Infos)
    BY Zenon, <1>a DEF TypeInv, TypeOK, MaintStates
  <1>v. v \in Infos
    BY <1>0 DEF Scans
  <1>n. n \in Infos \cup {None} /\ probation' \in Seq(Infos)
    BY Zenon, <1>0, <1>v, DequeTypes DEF AdmitSkip
  <1>x. m' = [m EXCEPT !.scan = scan]
    BY Zenon, <1>0 DEF AdmitSkip, MaintStates, Scans
  <1>r. r \in Nat
    BY <1>0 DEF Scans
  <1>s. scan \in Scans
    <2> HIDE DEF n, r
    <2> QED BY Zenon, <1>0, <1>n, <1>r DEF Scans
  <1> HIDE DEF scan
  <1>2. m' \in MaintStates
    BY SMTT(30), <1>0, <1>x, <1>s DEF MaintStates
  <1>3. MaintOK(mpc', m')
    BY <1>0, <1>a, <1>x DEF MaintOK, Working, MaintStates, TypeInv, LocalsOK
  <1> QED
    BY Zenon, <1>n, <1>a, <1>2, <1>3, <1>x DEF AdmitSkip, TypeInv, TypeOK, LocalsOK, MaintPCs,
         storeVars, infoVars, flagVars, chVars, userVars

(* The step AdmitTake of the maintenance task keeps the types. *)
LEMMA AdmitTakeType == TypeInv /\ AdmitTake => TypeInv'
  <1> SUFFICES ASSUME TypeInv, AdmitTake PROVE TypeInv'
    OBVIOUS
  <1> DEFINE v == m.scan.next
             k == KeyOf(v)
             n == next_node(probation, v)
             w == policy_weight[bucket[k].info]
             victim == [key |-> k, la |-> last_accessed[v]]
  <1>a. v # None /\ mpc = "admit_look" /\ mpc' = "admit"
    BY DEF AdmitTake, TypeInv, LocalsOK, MaintOK
  <1>0. m \in MaintStates /\ m.scan \in Scans /\ v # None /\ probation \in Seq(Infos)
           /\ bucket[k].info # None
    BY <1>a DEF AdmitTake, TypeInv, TypeOK, MaintStates
  <1>v. v \in Infos
    BY <1>0 DEF Scans
  <1>k. k \in Keys
    BY <1>v, KeyOfType
  <1>w. w \in Nat
    BY <1>k, <1>0 DEF TypeInv, TypeOK, Buckets
  <1>n. n \in Infos \cup {None}
    BY Zenon, <1>0, <1>v, DequeTypes
  <1>m. victim \in Victims
    <2> HIDE DEF k
    <2> QED BY <1>k, <1>v DEF Victims, TypeInv, TypeOK
  <1> DEFINE x == m.scan.weight + w
             y(f) == m.scan.freq + f
             scan(f) == [m.scan EXCEPT !.weight = x, !.freq = y(f), !.retries = 0, !.next = n]
             victims == Append(m.victims, victim)
  <1>p. PICK f \in Freqs : m' = [m EXCEPT !.scan = scan(f), !.victims = victims]
    BY Zenon DEF AdmitTake
  <1>y. x \in Nat /\ y(f) \in Nat
    <2> HIDE DEF w
    <2> QED BY <1>0, <1>w, WeightsAssumption DEF Scans
  <1>s. scan(f) \in Scans
    <2> HIDE DEF n, x, y
    <2> QED BY Zenon, <1>0, <1>n, <1>y DEF Scans
  <1>t. victims \in Seq(Victims)
    <2> HIDE DEF victim
    <2> QED BY <1>0, <1>m DEF MaintStates
  <1>x. m' = [m EXCEPT !.scan = scan(f), !.victims = victims]
    BY <1>p DEF AdmitTake
  <1> HIDE DEF scan, victims
  <1>2. m' \in MaintStates
    BY Zenon, <1>0, <1>x, <1>s, <1>t DEF MaintStates
  <1>3. MaintOK(mpc', m')
    BY SMTT(30), <1>0, <1>a, <1>x DEF MaintOK, Working, MaintStates, TypeInv, LocalsOK
  <1> QED
    BY Zenon, <1>a, <1>2, <1>3, <1>x DEF AdmitTake, TypeInv, TypeOK, LocalsOK, MaintPCs,
         storeVars, infoVars, flagVars, chVars, policyVars, userVars

(* The step AdmitDecide of the maintenance task keeps the types. *)
LEMMA AdmitDecideType == TypeInv /\ AdmitDecide => TypeInv'
  <1> SUFFICES ASSUME TypeInv, AdmitDecide PROVE TypeInv'
    OBVIOUS
  <1>1. mpc' \in {"victims", "reject"} /\ mpc = "admit" /\ m' = m
    BY DEF AdmitDecide
  <1>2. MaintOK(mpc', m')
    BY <1>1 DEF MaintOK, Working, TypeInv, LocalsOK
  <1> QED
    BY <1>1, <1>2 DEF AdmitDecide, TypeInv, TypeOK, LocalsOK, MaintPCs,
         storeVars, infoVars, flagVars, chVars, policyVars, userVars

(* Checking the condition of a removal remembers a bucket. *)
LEMMA CheckTypes ==
    ASSUME TypeInv, NEW k \in Keys, Check(k),
           mpc \in {"toobig", "reject", "victims", "evict_peeked"},
           mpc \in {"toobig", "reject"} => bucket[k].info = m.work.info,
           mpc = "victims" => m.victims # <<>>
    PROVE  TypeInv'
  <1>0. m \in MaintStates /\ bucket[k] \in Buckets /\ mpc' = mpc
           /\ m' = [m EXCEPT !.seen = bucket[k]]
    BY DEF TypeInv, TypeOK, Check
  <1>1. m' \in MaintStates
    BY <1>0 DEF MaintStates
  <1>2. MaintOK(mpc', m')
    BY <1>0 DEF MaintOK, Working, MaintStates, TypeInv, LocalsOK
  <1> QED
    BY SMTT(30), <1>1, <1>2 DEF Check, TypeInv, TypeOK, LocalsOK, storeVars, infoVars, flagVars,
         chVars, policyVars, userVars

(* The step VictimCheck of the maintenance task keeps the types. *)
LEMMA VictimCheckType == TypeInv /\ VictimCheck => TypeInv'
  <1> SUFFICES ASSUME TypeInv, VictimCheck PROVE TypeInv'
    OBVIOUS
  <1>0. m.victims \in Seq(Victims) /\ m.victims # <<>> /\ mpc = "victims"
    BY DEF VictimCheck, TypeInv, TypeOK, MaintStates
  <1>1. Head(m.victims) \in Victims
    BY <1>0
  <1>2. Head(m.victims).key \in Keys
    BY <1>1 DEF Victims
  <1> QED
    BY <1>0, <1>2, CheckTypes DEF VictimCheck

(* The step CandidateCheck of the maintenance task keeps the types. *)
LEMMA CandidateCheckType == TypeInv /\ CandidateCheck => TypeInv'
  <1> SUFFICES ASSUME TypeInv, CandidateCheck PROVE TypeInv'
    OBVIOUS
  <1>0. mpc \in {"toobig", "reject"} /\ m.work \in WriteOps
    BY DEF CandidateCheck, Working, TypeInv, LocalsOK, MaintOK
  <1>1. KeyOf(m.work.info) \in Keys
    BY SMTT(30), <1>0, KeyOfType DEF WriteOps
  <1> QED
    BY <1>0, <1>1, CheckTypes DEF CandidateCheck, CandidateMatches

(* The step EvictCheck of the maintenance task keeps the types. *)
LEMMA EvictCheckType == TypeInv /\ EvictCheck => TypeInv'
  BY CheckTypes DEF EvictCheck, TypeInv, LocalsOK, MaintOK

(* The step CheckAgain of the maintenance task keeps the types. *)
LEMMA CheckAgainType == TypeInv /\ CheckAgain => TypeInv'
  <1> SUFFICES ASSUME TypeInv, CheckAgain PROVE TypeInv'
    OBVIOUS
  <1>0. m \in MaintStates /\ mpc' = mpc /\ m' = [m EXCEPT !.seen = NoBucket]
    BY DEF TypeInv, TypeOK, CheckAgain
  <1>1. m' \in MaintStates
    BY SMTT(30), <1>0, Defaults DEF MaintStates
  <1>2. MaintOK(mpc', m')
    BY <1>0, Defaults DEF MaintOK, Working, MaintStates, TypeInv, LocalsOK
  <1> QED
    BY Zenon, <1>1, <1>2 DEF CheckAgain, TypeInv, TypeOK, LocalsOK, storeVars, infoVars, flagVars,
         chVars, policyVars, userVars

(* The step VictimRemove of the maintenance task keeps the types. *)
LEMMA VictimRemoveType == TypeInv /\ VictimRemove => TypeInv'
  <1> SUFFICES ASSUME TypeInv, VictimRemove PROVE TypeInv'
    OBVIOUS
  <1> DEFINE v == Head(m.victims)
             i == bucket[v.key].info
             victims == Tail(m.victims)
  <1>0. m \in MaintStates /\ m.victims \in Seq(Victims) /\ m.victims # <<>>
    BY DEF VictimRemove, TypeInv, TypeOK, MaintStates
  <1>v. v \in Victims /\ victims \in Seq(Victims)
    BY <1>0
  <1>k. v.key \in Keys /\ i # None
    BY <1>v DEF Victims, VictimRemove, Checked
  <1>i. i \in Infos
    BY <1>k DEF TypeInv, TypeOK, Buckets
  <1>1. bucket' \in [Keys -> Buckets] /\ retired' \subseteq Infos
    BY <1>k, RetireTypes DEF VictimRemove, TypeInv
  <1>x. m' = [m EXCEPT !.victims = victims, !.seen = NoBucket, !.removed = i]
           /\ mpc' = "victim_removed" /\ mpc = "victims"
    BY DEF VictimRemove
  <1> HIDE DEF i, victims
  <1>2. m' \in MaintStates
    BY Zenon, <1>0, <1>v, <1>i, <1>x, Defaults DEF MaintStates
  <1>3. MaintOK(mpc', m')
    BY <1>0, <1>i, <1>x, Defaults, InfosAssumption DEF MaintOK, Working, MaintStates, TypeInv, LocalsOK
  <1> QED
    BY <1>1, <1>2, <1>3, <1>x DEF VictimRemove, TypeInv, TypeOK, LocalsOK, MaintPCs,
         infoVars, chVars, policyVars, userVars

(* The step VictimRemoved of the maintenance task keeps the types. *)
LEMMA VictimRemovedType == TypeInv /\ VictimRemoved => TypeInv'
  <1> SUFFICES ASSUME TypeInv, VictimRemoved PROVE TypeInv'
    OBVIOUS
  <1>0. m \in MaintStates /\ m.removed \in Infos
    BY DEF VictimRemoved, TypeInv, TypeOK, LocalsOK, MaintOK, MaintStates
  <1>1. /\ admitted' \subseteq Infos
        /\ probation' \in Seq(Infos)
        /\ counters' \in [entry_count : Int, weighted_size : Nat]
    BY <1>0, RemoveTypes DEF VictimRemoved, TypeInv
  <1>2. m' \in MaintStates
    BY <1>0 DEF VictimRemoved, MaintStates
  <1>3. MaintOK(mpc', m')
    BY <1>0 DEF VictimRemoved, MaintOK, Working, MaintStates, TypeInv, LocalsOK
  <1> QED
    BY SMTT(30), <1>1, <1>2, <1>3 DEF VictimRemoved, TypeInv, TypeOK, LocalsOK, MaintPCs, storeVars,
         infoVars, chVars, userVars

(* The step VictimSkip of the maintenance task keeps the types. *)
LEMMA VictimSkipType == TypeInv /\ VictimSkip => TypeInv'
  <1> SUFFICES ASSUME TypeInv, VictimSkip PROVE TypeInv'
    OBVIOUS
  <1>0. m \in MaintStates /\ m.victims \in Seq(Victims) /\ m.victims # <<>>
    BY DEF VictimSkip, TypeInv, TypeOK, MaintStates
  <1>1. Tail(m.victims) \in Seq(Victims)
    BY <1>0
  <1>2. m' \in MaintStates
    BY Zenon, <1>0, <1>1 DEF VictimSkip, MaintStates
  <1>3. MaintOK(mpc', m')
    BY <1>0 DEF VictimSkip, MaintOK, Working, MaintStates, TypeInv, LocalsOK
  <1>4. probation' \in Seq(Infos)
    BY DequeTypes DEF VictimSkip, TypeInv, TypeOK
  <1> QED
    BY Zenon, <1>2, <1>3, <1>4 DEF VictimSkip, TypeInv, TypeOK, LocalsOK, storeVars, infoVars,
         flagVars, chVars, userVars

(* The candidate of an admission and its WriteOp have their types. *)
LEMMA WorkTypes ==
    ASSUME TypeInv, mpc \in Working
    PROVE  /\ m \in MaintStates
           /\ m.work \in WriteOps
           /\ m.work.info \in Infos
           /\ m.work.gen \in Gens
           /\ m.work.new \in Nat
           /\ set_policy_gen(m.work.info, m.work.gen) \in [Infos -> Gens]
  <1>1. m \in MaintStates /\ m.work \in WriteOps
    BY DEF TypeInv, TypeOK, LocalsOK, MaintOK
  <1>2. m.work.info \in Infos /\ m.work.gen \in Gens /\ m.work.new \in Nat
    BY <1>1 DEF WriteOps
  <1> QED
    BY ZenonT(30), <1>1, <1>2, GenTypes DEF TypeInv

(* The step AdmitCandidate of the maintenance task keeps the types. *)
LEMMA AdmitCandidateType == TypeInv /\ AdmitCandidate => TypeInv'
  <1> SUFFICES ASSUME TypeInv, AdmitCandidate PROVE TypeInv'
    OBVIOUS
  <1>0. mpc = "victims" /\ mpc \in Working
    BY DEF AdmitCandidate, Working
  <1>1. /\ admitted' \subseteq Infos
        /\ probation' \in Seq(Infos)
        /\ counters' \in [entry_count : Int, weighted_size : Nat]
    <2>1. CASE handle_admit(m.work.info, m.work.new)
      BY <1>0, <2>1, WorkTypes, AdmitTypes DEF TypeInv
    <2>2. CASE UNCHANGED <<admitted, probation, counters>>
      BY <2>2 DEF TypeInv, TypeOK
    <2> QED
      BY <2>1, <2>2 DEF AdmitCandidate
  <1>2. m' \in MaintStates
    BY Zenon, <1>0, WorkTypes, Defaults DEF AdmitCandidate, MaintStates
  <1>3. MaintOK(mpc', m')
    BY <1>0, WorkTypes DEF AdmitCandidate, MaintOK, Working, MaintStates, TypeInv, LocalsOK
  <1>4. policy_gen' \in [Infos -> Gens]
    BY <1>0, WorkTypes DEF AdmitCandidate
  <1> QED
    BY SMTT(30), <1>1, <1>2, <1>3, <1>4 DEF AdmitCandidate, TypeInv, TypeOK, LocalsOK, MaintPCs,
         storeVars, chVars, userVars

(* Dropping the candidate leaves a well-typed maintenance state. *)
LEMMA DropWork ==
    ASSUME TypeInv, mpc \in {"toobig", "reject"}, mpc' = "writes",
           NEW b \in Buckets, b.info = None,
           m' = [m EXCEPT !.work = NoOp, !.scan = NoScan, !.victims = <<>>, !.seen = b]
    PROVE  m' \in MaintStates /\ MaintOK(mpc', m')
  <1>0. m \in MaintStates /\ << >> \in Seq(Victims)
    BY DEF TypeInv, TypeOK
  <1>1. m' \in MaintStates
    BY Zenon, <1>0, Defaults DEF MaintStates
  <1>2. MaintOK(mpc', m')
    BY <1>0 DEF MaintOK, Working, MaintStates, TypeInv, LocalsOK
  <1> QED
    BY <1>1, <1>2

(* The step RemoveCandidate of the maintenance task keeps the types. *)
LEMMA RemoveCandidateType == TypeInv /\ RemoveCandidate => TypeInv'
  <1> SUFFICES ASSUME TypeInv, RemoveCandidate PROVE TypeInv'
    OBVIOUS
  <1> DEFINE k == KeyOf(m.work.info)
  <1>0. mpc \in Working
    BY DEF RemoveCandidate, Working
  <1>1. k \in Keys /\ bucket[k].info # None
    BY <1>0, WorkTypes, KeyOfType DEF RemoveCandidate, Checked
  <1>2. bucket' \in [Keys -> Buckets] /\ retired' \subseteq Infos
    <2> HIDE DEF k
    <2> QED BY <1>1, RetireTypes DEF RemoveCandidate, TypeInv, k
  <1>3. m' \in MaintStates /\ MaintOK(mpc', m')
    BY Zenon, Defaults, DropWork DEF RemoveCandidate
  <1>4. policy_gen' \in [Infos -> Gens]
    BY <1>0, WorkTypes DEF RemoveCandidate
  <1> QED
    BY Zenon, <1>2, <1>3, <1>4 DEF RemoveCandidate, TypeInv, TypeOK, LocalsOK, MaintPCs,
         chVars, policyVars, userVars

(* The step KeepCandidate of the maintenance task keeps the types. *)
LEMMA KeepCandidateType == TypeInv /\ KeepCandidate => TypeInv'
  <1> SUFFICES ASSUME TypeInv, KeepCandidate PROVE TypeInv'
    OBVIOUS
  <1>0. mpc \in Working
    BY DEF KeepCandidate, Working
  <1>3. m' \in MaintStates /\ MaintOK(mpc', m')
    <2>1. m \in MaintStates /\ m.seen \in Buckets /\ m.seen.info = None
      BY <1>0, WorkTypes DEF KeepCandidate, MaintStates
    <2>2. m' = [m EXCEPT !.work = NoOp, !.scan = NoScan, !.victims = <<>>, !.seen = m.seen]
      BY Zenon, <2>1 DEF KeepCandidate, MaintStates
    <2> QED BY Zenon, <2>1, <2>2, DropWork DEF KeepCandidate
  <1>4. policy_gen' \in [Infos -> Gens]
    BY SMTT(30), <1>0, WorkTypes DEF KeepCandidate, TypeInv, TypeOK
  <1> QED
    BY SMTT(30), <1>3, <1>4 DEF KeepCandidate, TypeInv, TypeOK, LocalsOK, MaintPCs,
         storeVars, flagVars, chVars, policyVars, userVars

(* A new round of eviction starts with well-typed locals. *)
LEMMA EvictStarts ==
    ASSUME TypeOK
    PROVE  [NoEvict EXCEPT !.left = BatchSize, !.more = TRUE,
              !.target = saturating_sub(counters.weighted_size, MaxCapacity)] \in Evicts
  <1> DEFINE n == saturating_sub(counters.weighted_size, MaxCapacity)
  <1>1. counters.weighted_size \in Nat
    BY DEF TypeOK
  <1>2. n \in Nat
    BY Zenon, <1>1, SubType, CapacityAssumption
  <1> SUFFICES [NoEvict EXCEPT !.left = BatchSize, !.more = TRUE, !.target = n] \in Evicts
    OBVIOUS
  <1> HIDE DEF n
  <1> QED
    BY Zenon, <1>2, Defaults, ConfigAssumption DEF Evicts

(* The step WritesDone of the maintenance task keeps the types. *)
LEMMA WritesDoneType == TypeInv /\ WritesDone => TypeInv'
  <1> SUFFICES ASSUME TypeInv, WritesDone PROVE TypeInv'
    OBVIOUS
  <1> DEFINE e == [NoEvict EXCEPT !.left = BatchSize, !.more = TRUE,
                     !.target = saturating_sub(counters.weighted_size, MaxCapacity)]
             c == m.calls + 1
  <1>0. m \in MaintStates /\ e \in Evicts
    BY SMTT(30), EvictStarts DEF TypeInv, TypeOK
  <1>c. c \in Nat
    BY <1>0 DEF MaintStates
  <1>x. m' = [m EXCEPT !.calls = c, !.evict = e] /\ mpc = "writes" /\ mpc' = "evict"
    BY DEF WritesDone
  <1> HIDE DEF e, c
  <1>2. m' \in MaintStates
    BY Zenon, <1>0, <1>c, <1>x DEF MaintStates
  <1>3. MaintOK(mpc', m')
    BY <1>0, <1>x DEF MaintOK, Working, MaintStates, TypeInv, LocalsOK
  <1> QED
    BY SMTT(30), <1>2, <1>3, <1>x DEF WritesDone, TypeInv, TypeOK, LocalsOK, MaintPCs,
         storeVars, infoVars, flagVars, chVars, policyVars, userVars

(* Skipping one node counts one off the batch. *)
LEMMA SkipOneTypes ==
    ASSUME TypeInv, NEW k \in Keys, SkipOne(k), m.evict.left > 0
    PROVE  /\ probation' \in Seq(Infos)
           /\ m' \in MaintStates
           /\ m'.work = m.work
           /\ m'.seen = m.seen
           /\ m'.removed = m.removed
  <1> DEFINE l == m.evict.left - 1
             e == [m.evict EXCEPT !.left = l, !.more = FALSE, !.key = None, !.ts = 0]
  <1>0. m \in MaintStates /\ m.evict \in Evicts
    BY DEF TypeInv, TypeOK, MaintStates
  <1>l. l \in Nat
    BY <1>0 DEF Evicts
  <1>e. e \in Evicts
    <2> HIDE DEF l
    <2> QED BY Zenon, <1>0, <1>l DEF Evicts
  <1>x. m' = [m EXCEPT !.evict = e]
    BY DEF SkipOne
  <1> HIDE DEF e
  <1>1. m' \in MaintStates /\ m'.work = m.work /\ m'.seen = m.seen /\ m'.removed = m.removed
    BY SMTT(30), <1>0, <1>e, <1>x DEF MaintStates
  <1>2. probation' \in Seq(Infos)
    BY SkipType DEF SkipOne, TypeInv
  <1> QED
    BY SMTT(30), <1>1, <1>2

(* The step EvictSkipDirty of the maintenance task keeps the types. *)
LEMMA EvictSkipDirtyType == TypeInv /\ EvictSkipDirty => TypeInv'
  <1> SUFFICES ASSUME TypeInv, EvictSkipDirty PROVE TypeInv'
    OBVIOUS
  <1> DEFINE k == KeyOf(Head(probation))
  <1>0. Head(probation) \in Infos /\ m.evict.left > 0 /\ mpc = "evict" /\ mpc' = mpc
    BY SMTT(30) DEF EvictSkipDirty, Evicting, TypeInv, TypeOK
  <1>1. k \in Keys /\ SkipOne(k)
    BY Zenon, <1>0, KeyOfType DEF EvictSkipDirty
  <1>2. probation' \in Seq(Infos) /\ m' \in MaintStates
           /\ m'.work = m.work /\ m'.seen = m.seen /\ m'.removed = m.removed
    <2> HIDE DEF k
    <2> QED BY <1>0, <1>1, SkipOneTypes
  <1>3. MaintOK(mpc', m')
    BY <1>0, <1>2 DEF MaintOK, Working, TypeInv, LocalsOK
  <1> QED
    BY SMTT(30), <1>0, <1>2, <1>3 DEF EvictSkipDirty, TypeInv, TypeOK, LocalsOK, MaintPCs,
         storeVars, infoVars, flagVars, chVars, userVars

(* The step EvictClean of the maintenance task keeps the types. *)
LEMMA EvictCleanType == TypeInv /\ EvictClean => TypeInv'
  <1> SUFFICES ASSUME TypeInv, EvictClean PROVE TypeInv'
    OBVIOUS
  <1>1. mpc' = "evict_clean" /\ mpc = "evict" /\ m' = m /\ m.evict.left > 0
           /\ probation' # <<>>
    BY DEF EvictClean, Evicting, policyVars
  <1>2. MaintOK(mpc', m')
    BY <1>1 DEF MaintOK, Working, TypeInv, LocalsOK
  <1> QED
    BY Zenon, <1>1, <1>2 DEF EvictClean, TypeInv, TypeOK, LocalsOK, MaintPCs,
         storeVars, infoVars, flagVars, chVars, policyVars, userVars

(* The step EvictPeek of the maintenance task keeps the types. *)
LEMMA EvictPeekType == TypeInv /\ EvictPeek => TypeInv'
  <1> SUFFICES ASSUME TypeInv, EvictPeek PROVE TypeInv'
    OBVIOUS
  <1> DEFINE i == Head(probation)
             k == KeyOf(i)
             e == [m.evict EXCEPT !.key = k, !.ts = last_accessed[i]]
  <1>a. m \in MaintStates /\ mpc = "evict_clean" /\ mpc' = "evict_peeked"
           /\ m.evict.left > 0 /\ probation # <<>> /\ probation \in Seq(Infos)
    BY DEF EvictPeek, TypeInv, TypeOK, LocalsOK, MaintOK
  <1>0. i \in Infos /\ m \in MaintStates /\ mpc = "evict_clean" /\ mpc' = "evict_peeked"
           /\ m.evict.left > 0
    BY <1>a
  <1>1. k \in Keys /\ last_accessed[i] \in Nat
    BY <1>0, KeyOfType DEF TypeInv, TypeOK
  <1>x. m' = [m EXCEPT !.evict = e]
    BY Zenon, <1>0 DEF EvictPeek, MaintStates, Evicts
  <1>e. e \in Evicts /\ e.key = k /\ e.left > 0
    <2> HIDE DEF k, i
    <2> QED BY Zenon, <1>0, <1>1 DEF MaintStates, Evicts
  <1> HIDE DEF e, k
  <1>2. m' \in MaintStates
    BY <1>0, <1>e, <1>x DEF MaintStates
  <1>3. MaintOK(mpc', m')
    BY SMTT(30), <1>0, <1>1, <1>e, <1>x DEF MaintOK, Working, MaintStates, TypeInv, LocalsOK
  <1> QED
    BY Zenon, <1>0, <1>2, <1>3 DEF EvictPeek, TypeInv, TypeOK, LocalsOK, MaintPCs,
         storeVars, infoVars, flagVars, chVars, policyVars, userVars

(* The step EvictRemove of the maintenance task keeps the types. *)
LEMMA EvictRemoveType == TypeInv /\ EvictRemove => TypeInv'
  <1> SUFFICES ASSUME TypeInv, EvictRemove PROVE TypeInv'
    OBVIOUS
  <1> DEFINE k == m.evict.key
             i == bucket[k].info
  <1>0. m \in MaintStates /\ k \in Keys /\ i # None
    BY DEF EvictRemove, Checked, TypeInv, TypeOK, LocalsOK, MaintOK
  <1>i. i \in Infos
    BY <1>0 DEF TypeInv, TypeOK, Buckets
  <1>1. bucket' \in [Keys -> Buckets] /\ retired' \subseteq Infos
    BY <1>0, RetireTypes DEF EvictRemove, TypeInv
  <1>x. m' = [m EXCEPT !.seen = NoBucket, !.removed = i]
           /\ mpc = "evict_peeked" /\ mpc' = "evict_removed"
    BY DEF EvictRemove
  <1> HIDE DEF i
  <1>2. m' \in MaintStates
    BY Zenon, <1>0, <1>i, <1>x, Defaults DEF MaintStates
  <1>3. MaintOK(mpc', m')
    BY SMTT(30), <1>0, <1>i, <1>x, Defaults, InfosAssumption DEF MaintOK, Working, MaintStates, TypeInv, LocalsOK
  <1> QED
    BY <1>1, <1>2, <1>3, <1>x DEF EvictRemove, TypeInv, TypeOK, LocalsOK, MaintPCs,
         infoVars, chVars, policyVars, userVars

(* The step EvictRemoved of the maintenance task keeps the types. *)
LEMMA EvictRemovedType == TypeInv /\ EvictRemoved => TypeInv'
  <1> SUFFICES ASSUME TypeInv, EvictRemoved PROVE TypeInv'
    OBVIOUS
  <1> DEFINE i == m.removed
             l == m.evict.left - 1
             w == m.evict.evicted + policy_weight[i]
             e == [m.evict EXCEPT !.left = l, !.evicted = w, !.progress = TRUE,
                                  !.key = None, !.ts = 0]
  <1>a. m \in MaintStates /\ i # None /\ m.evict.left > 0
    BY DEF EvictRemoved, TypeInv, TypeOK, LocalsOK, MaintOK
  <1>0. m \in MaintStates /\ i \in Infos /\ m.evict \in Evicts /\ m.evict.left > 0
    BY Zenon, <1>a DEF MaintStates
  <1>1. /\ admitted' \subseteq Infos
        /\ probation' \in Seq(Infos)
        /\ counters' \in [entry_count : Int, weighted_size : Nat]
    BY <1>0, RemoveTypes DEF EvictRemoved, TypeInv
  <1>p. policy_weight[i] \in Nat
    BY <1>0 DEF TypeInv, TypeOK
  <1>l. l \in Nat /\ w \in Nat
    BY <1>0, <1>p DEF Evicts
  <1>e. e \in Evicts
    <2> HIDE DEF l, w
    <2> QED BY Zenon, <1>0, <1>l DEF Evicts
  <1>x. m' = [m EXCEPT !.removed = None, !.evict = e] /\ mpc = "evict_removed" /\ mpc' = "evict"
    BY DEF EvictRemoved
  <1> HIDE DEF e
  <1>2. m' \in MaintStates
    BY Zenon, <1>0, <1>e, <1>x DEF MaintStates
  <1>3. MaintOK(mpc', m')
    BY SMTT(30), <1>0, <1>x DEF MaintOK, Working, MaintStates, TypeInv, LocalsOK
  <1> QED
    BY SMTT(30), <1>1, <1>2, <1>3, <1>x DEF EvictRemoved, TypeInv, TypeOK, LocalsOK, MaintPCs,
         storeVars, infoVars, chVars, userVars

(* The step EvictMiss of the maintenance task keeps the types. *)
LEMMA EvictMissType == TypeInv /\ EvictMiss => TypeInv'
  <1> SUFFICES ASSUME TypeInv, EvictMiss PROVE TypeInv'
    OBVIOUS
  <1>1. mpc' = "evict_skip" /\ mpc = "evict_peeked" /\ m' = m /\ m.seen.info = None
    BY DEF EvictMiss
  <1>2. MaintOK(mpc', m')
    BY <1>1 DEF MaintOK, Working, TypeInv, LocalsOK
  <1> QED
    BY <1>1, <1>2 DEF EvictMiss, TypeInv, TypeOK, LocalsOK, MaintPCs,
         storeVars, infoVars, flagVars, chVars, policyVars, userVars

(* The step EvictSkip of the maintenance task keeps the types. *)
LEMMA EvictSkipType == TypeInv /\ EvictSkip => TypeInv'
  <1> SUFFICES ASSUME TypeInv, EvictSkip PROVE TypeInv'
    OBVIOUS
  <1>0. m.evict.key \in Keys /\ m.evict.left > 0 /\ SkipOne(m.evict.key)
           /\ mpc = "evict_skip" /\ mpc' = "evict"
    BY DEF EvictSkip, TypeInv, LocalsOK, MaintOK
  <1>2. probation' \in Seq(Infos) /\ m' \in MaintStates
           /\ m'.work = m.work /\ m'.seen = m.seen /\ m'.removed = m.removed
    BY <1>0, SkipOneTypes
  <1>3. MaintOK(mpc', m')
    BY <1>0, <1>2 DEF MaintOK, Working, TypeInv, LocalsOK
  <1> QED
    BY Zenon, <1>0, <1>2, <1>3 DEF EvictSkip, TypeInv, TypeOK, LocalsOK, MaintPCs,
         storeVars, infoVars, flagVars, chVars, userVars

(* The step MaintAgain of the maintenance task keeps the types. *)
LEMMA MaintAgainType == TypeInv /\ MaintAgain => TypeInv'
  <1> SUFFICES ASSUME TypeInv, MaintAgain PROVE TypeInv'
    OBVIOUS
  <1> DEFINE e == [NoEvict EXCEPT !.left = BatchSize, !.more = TRUE,
                     !.target = saturating_sub(counters.weighted_size, MaxCapacity)]
  <1>a. e \in Evicts
    BY EvictStarts DEF TypeInv
  <1> HIDE DEF e
  <1>0. m \in MaintStates /\ e \in Evicts /\ Len(read_op_ch) \in Nat /\ mpc = "evict"
    BY <1>a DEF MaintAgain, TypeInv, TypeOK
  <1> USE DEF e
  <1>1. CASE mpc' = "reads" /\ m' = [IdleMaint EXCEPT !.left = Len(read_op_ch), !.calls = m.calls]
    <2>1. m' \in MaintStates
      BY Zenon, <1>0, <1>1, Defaults DEF MaintStates
    <2>2. MaintOK(mpc', m')
      BY <1>1 DEF MaintOK, Working, IdleMaint, NoBucket
    <2> QED
      BY SMTT(30), <1>1, <2>1, <2>2 DEF MaintAgain, TypeInv, TypeOK, LocalsOK, MaintPCs,
           storeVars, infoVars, flagVars, chVars, policyVars, userVars
  <1>2. CASE mpc' = "evict" /\ m' = [m EXCEPT !.evict = e]
    <2> HIDE DEF e
    <2>1. m' \in MaintStates
      BY <1>0, <1>2 DEF MaintStates
    <2>2. MaintOK(mpc', m')
      BY SMTT(30), <1>0, <1>2 DEF MaintOK, Working, MaintStates, TypeInv, LocalsOK
    <2> QED
      BY <1>2, <2>1, <2>2 DEF MaintAgain, TypeInv, TypeOK, LocalsOK, MaintPCs,
           storeVars, infoVars, flagVars, chVars, policyVars, userVars
  <1> QED
    BY <1>1, <1>2 DEF MaintAgain

(* The step MaintDone of the maintenance task keeps the types. *)
LEMMA MaintDoneType == TypeInv /\ MaintDone => TypeInv'
  <1> SUFFICES ASSUME TypeInv, MaintDone PROVE TypeInv'
    BY SMTT(30)
  <1>1. MaintOK(mpc', m')
    BY DEF MaintDone, MaintOK, Working, IdleMaint, NoBucket
  <1> QED
    BY Zenon, <1>1, Defaults DEF MaintDone, TypeInv, TypeOK, LocalsOK, MaintPCs,
         storeVars, infoVars, flagVars, chVars, userVars

(* Whatever the maintenance task does keeps the types. *)
LEMMA MaintTypes == TypeInv /\ Maintenance => TypeInv'
  BY SMTT(30), MaintStartType, ApplyReadType, ReadsDoneType, ApplyRemoveType, UpsertRetiredType,
     UpsertAdmittedType, UpsertFitsType, UpsertTooBigType, UpsertContendsType, AdmitLookType,
     AdmitSkipType, AdmitTakeType, AdmitDecideType, CheckAgainType, VictimCheckType,
     CandidateCheckType, EvictCheckType, EvictCleanType, EvictMissType, VictimRemoveType, VictimRemovedType, VictimSkipType,
     AdmitCandidateType, RemoveCandidateType, KeepCandidateType, WritesDoneType,
     EvictSkipDirtyType, EvictPeekType, EvictRemoveType, EvictRemovedType, EvictSkipType,
     MaintAgainType, MaintDoneType
  DEF Maintenance

-----------------------------------------------------------------------------
(* A new cache is well typed. *)
LEMMA InitTypes == Init => TypeInv
  <1> SUFFICES ASSUME Init PROVE TypeInv
    OBVIOUS
  <1>1. 1 \in Gens /\ 0 \in Gens
    BY BoundsAssumption DEF Gens
  <1>a. allocs \in [Keys -> 0..MaxAllocs] /\ ops \in Nat
    BY BoundsAssumption DEF Init
  <1>b. /\ bucket \in [Keys -> Buckets]
        /\ lock \in [Keys -> Threads \cup {None}]
        /\ thr \in [Threads -> ThreadStates]
        /\ m \in MaintStates
    BY Defaults DEF Init
  <1>c. /\ entry_gen \in [Infos -> Gens]
        /\ policy_gen \in [Infos -> Gens]
        /\ policy_weight \in [Infos -> Nat]
        /\ last_accessed \in [Infos -> Nat]
    BY <1>1 DEF Init
  <1>d. /\ read_op_ch \in Seq(Infos \cup {None})
        /\ write_op_ch \in Seq(WriteOps)
        /\ probation \in Seq(Infos)
    BY DEF Init
  <1>e. /\ admitted \subseteq Infos
        /\ retired \subseteq Infos
        /\ counters \in [entry_count : Int, weighted_size : Nat]
        /\ published \in [entry_count : Int, weighted_size : Nat]
        /\ now \in Nat
        /\ mpc \in MaintPCs
    BY DEF Init, MaintPCs
  <1>2. TypeOK
    BY <1>a, <1>b, <1>c, <1>d, <1>e DEF TypeOK
  <1>3. MaintOK(mpc, m)
    BY Zenon DEF Init, MaintOK, Working, IdleMaint, NoBucket
  <1> QED
    BY <1>2, <1>3, Defaults DEF Init, TypeInv, LocalsOK

(* Every step of a thread, of maintenance or of the clock keeps the types. *)
LEMMA NextTypes == TypeInv /\ [Next]_vars => TypeInv'
  <1> SUFFICES ASSUME TypeInv, [Next]_vars PROVE TypeInv'
    OBVIOUS
  <1>1. CASE Tick
    <2>1. now' \in Nat
      BY <1>1 DEF Tick, TypeInv, TypeOK
    <2> QED
      BY SMTT(30), <1>1, <2>1 DEF Tick, TypeInv, TypeOK, LocalsOK, storeVars, infoVars, flagVars,
                        chVars, policyVars, maintVars
  <1>2. ASSUME NEW t \in Threads, UserStep(t) PROVE TypeInv'
    BY <1>2, UserTypes
  <1>3. CASE Maintenance
    BY SMTT(30), <1>3, MaintTypes
  <1>4. CASE UNCHANGED vars
    BY SMTT(30), <1>4 DEF vars, TypeInv, TypeOK, LocalsOK, storeVars, infoVars, flagVars, chVars,
                policyVars, userVars, maintVars
  <1> QED
    BY <1>1, <1>2, <1>3, <1>4 DEF Next

(* The variables of the cache always have their types, and the locals of a  *)
(* thread or of the maintenance task are set when its next step uses them. *)
THEOREM TypeCorrect == Spec => []TypeInv
  BY InitTypes, NextTypes, PTL DEF Spec

(* weighted_size never leaves the naturals, generations stay in u16, and    *)
(* every queue holds what it should, whatever the keys, threads, weights,  *)
(* capacity and channel sizes.                                             *)
THEOREM TypesHold == Spec => []TypeOK
  <1>1. TypeInv => TypeOK
    BY DEF TypeInv
  <1> QED
    BY <1>1, TypeCorrect, PTL

-----------------------------------------------------------------------------
(***************************************************************************)
(* The proof that the admission flags, the access-order deque and          *)
(* entry_count always agree (DequeMirrorsAdmitted of BaseCache).           *)
(*                                                                         *)
(* The deque operations are shown to permute, extend or shrink a deque     *)
(* without duplicates; the invariant then follows from the fact that a     *)
(* candidate is pushed only when it is not admitted.                       *)
(***************************************************************************)
Nodes(q) == {q[p] : p \in 1..Len(q)}

Distinct(q) == \A p, r \in 1..Len(q) : q[p] = q[r] => p = r

(* The deque q has the same nodes as r, each once. *)
Permutes(r, q) == Nodes(r) = Nodes(q) /\ Distinct(r) /\ Len(r) = Len(q)

-----------------------------------------------------------------------------
(* Deque::push_back of a node that is not in the deque. *)
LEMMA PushBack ==
    ASSUME NEW q \in Seq(Infos), NEW i \in Infos, Distinct(q), i \notin Nodes(q)
    PROVE  /\ Append(q, i) \in Seq(Infos)
           /\ Nodes(Append(q, i)) = Nodes(q) \cup {i}
           /\ Distinct(Append(q, i))
           /\ Len(Append(q, i)) = Len(q) + 1
  <1> DEFINE r == Append(q, i)
  <1>1. r \in Seq(Infos) /\ Len(r) = Len(q) + 1 /\ Len(q) \in Nat
    OBVIOUS
  <1>2. r[Len(q) + 1] = i /\ \A p \in 1..Len(q) : r[p] = q[p]
    OBVIOUS
  <1> HIDE DEF r
  <1>3. \A p \in 1..Len(r) : p = Len(q) + 1 \/ p \in 1..Len(q)
    BY <1>1
  <1>4. \A p \in 1..Len(q) : p \in 1..Len(r) /\ p # Len(q) + 1
    BY <1>1
  <1>5. Len(q) + 1 \in 1..Len(r)
    BY <1>1
  <1>6. Nodes(r) = Nodes(q) \cup {i}
    BY <1>2, <1>3, <1>4, <1>5 DEF Nodes
  <1>7. Distinct(r)
    BY <1>2, <1>3 DEF Nodes, Distinct
  <1> QED
    BY <1>1, <1>6, <1>7 DEF r

(* Deque::unlink of a node that is in the deque. *)
LEMMA Unlinks ==
    ASSUME NEW q \in Seq(Infos), NEW i \in Infos, i \in Nodes(q), Distinct(q)
    PROVE  /\ unlink(q, i) \in Seq(Infos)
           /\ Nodes(unlink(q, i)) = Nodes(q) \ {i}
           /\ Distinct(unlink(q, i))
           /\ Len(unlink(q, i)) = Len(q) - 1
  <1> DEFINE n == Len(q)
             s == Position(q, i)
             r == [p \in 1..(n - 1) |-> IF p < s THEN q[p] ELSE q[p + 1]]
  <1>0. n \in Nat
    OBVIOUS
  <1>1. InDeque(q, i)
    BY DEF Nodes, InDeque
  <1>2. s \in 1..n /\ q[s] = i
    BY <1>1 DEF InDeque, Position
  <1>3. unlink(q, i) = r
    BY <1>1 DEF unlink
  <1>4. unlink(q, i) \in Seq(Infos)
    BY <1>1, UnlinkType
  <1> HIDE DEF n, s
  <1>n. n - 1 \in Nat
    BY <1>0, <1>2
  <1>5. DOMAIN r = 1..(n - 1) /\ \A p \in 1..(n - 1) : r[p] = IF p < s THEN q[p] ELSE q[p + 1]
    OBVIOUS
  <1>6. Len(r) = n - 1
    BY <1>3, <1>4, <1>5, <1>n
  <1> HIDE DEF r
  <1>7. \A p, t \in 1..n : q[p] = q[t] => p = t
    BY DEF Distinct, n
  <1>8. \A p \in 1..(n - 1) : /\ p < s => p \in 1..n /\ p # s /\ r[p] = q[p]
                              /\ ~(p < s) => p + 1 \in 1..n /\ p + 1 # s /\ r[p] = q[p + 1]
    BY <1>0, <1>2, <1>5
  <1>9. \A p \in 1..n : /\ p < s => p \in 1..(n - 1) /\ r[p] = q[p]
                        /\ p > s => p - 1 \in 1..(n - 1) /\ r[p - 1] = q[p]
    <2> SUFFICES ASSUME NEW p \in 1..n
                 PROVE  /\ p < s => p \in 1..(n - 1) /\ r[p] = q[p]
                        /\ p > s => p - 1 \in 1..(n - 1) /\ r[p - 1] = q[p]
      OBVIOUS
    <2>1. ASSUME p < s PROVE p \in 1..(n - 1) /\ r[p] = q[p]
      BY <1>0, <1>2, <1>5, <2>1
    <2>2. ASSUME p > s PROVE p - 1 \in 1..(n - 1) /\ r[p - 1] = q[p]
      <3>1. p - 1 \in 1..(n - 1) /\ ~(p - 1 < s) /\ (p - 1) + 1 = p
        BY <1>0, <1>2, <2>2
      <3> QED BY <1>5, <3>1
    <2> QED BY <2>1, <2>2
  <1>10. Nodes(r) = Nodes(q) \ {i}
    <2>1. ASSUME NEW x \in Nodes(r) PROVE x \in Nodes(q) \ {i}
      <3>1. PICK p \in 1..(n - 1) : x = r[p]
        BY <1>6 DEF Nodes
      <3>2. PICK t \in 1..n : t # s /\ x = q[t]
        BY <1>8, <3>1
      <3> QED BY <1>2, <1>7, <3>2 DEF Nodes, n
    <2>2. ASSUME NEW x \in Nodes(q), x # i PROVE x \in Nodes(r)
      <3>1. PICK p \in 1..n : x = q[p]
        BY DEF Nodes, n
      <3>2. p # s
        BY <1>2, <2>2, <3>1
      <3>3. p < s \/ p > s
        BY <1>0, <1>2, <3>2
      <3>4. \E t \in 1..(n - 1) : x = r[t]
        BY <1>9, <3>1, <3>3
      <3> QED BY <1>6, <3>4 DEF Nodes
    <2> QED BY <2>1, <2>2
  <1>11. Distinct(r)
    <2> SUFFICES ASSUME NEW p \in 1..(n - 1), NEW t \in 1..(n - 1), r[p] = r[t] PROVE p = t
      BY <1>6 DEF Distinct
    <2>1. CASE p < s /\ t < s
      BY <1>7, <1>8, <2>1
    <2>2. CASE p < s /\ ~(t < s)
      <3>1. p = t + 1
        BY <1>7, <1>8, <2>2
      <3> QED BY <1>0, <1>2, <2>2, <3>1
    <2>3. CASE ~(p < s) /\ t < s
      <3>1. p + 1 = t
        BY <1>7, <1>8, <2>3
      <3> QED BY <1>0, <1>2, <2>3, <3>1
    <2>4. CASE ~(p < s) /\ ~(t < s)
      <3>1. p + 1 = t + 1
        BY <1>7, <1>8, <2>4
      <3> QED BY <3>1
    <2> QED BY <2>1, <2>2, <2>3, <2>4
  <1> QED
    BY <1>3, <1>4, <1>6, <1>10, <1>11 DEF n

(* Deque::move_to_back of any entry, in the deque or not. *)
LEMMA MovesToBack ==
    ASSUME NEW q \in Seq(Infos), NEW i \in Infos, Distinct(q)
    PROVE  Permutes(move_to_back(q, i), q)
  <1>1. CASE ~InDeque(q, i)
    BY <1>1 DEF move_to_back, Permutes
  <1>2. CASE InDeque(q, i)
    <2>1. i \in Nodes(q)
      BY <1>2 DEF InDeque, Nodes
    <2> DEFINE u == unlink(q, i)
    <2>2. u \in Seq(Infos) /\ Nodes(u) = Nodes(q) \ {i} /\ Distinct(u) /\ Len(u) = Len(q) - 1
      BY <2>1, Unlinks
    <2>3. move_to_back(q, i) = Append(u, i)
      BY <1>2 DEF move_to_back
    <2> HIDE DEF u
    <2>4. Nodes(Append(u, i)) = Nodes(u) \cup {i} /\ Distinct(Append(u, i))
             /\ Len(Append(u, i)) = Len(u) + 1
      BY <2>2, PushBack
    <2>5. Len(q) \in Nat
      OBVIOUS
    <2>6. Len(Append(u, i)) = Len(q)
      BY <2>2, <2>4, <2>5
    <2> QED BY SMTT(30), <2>1, <2>2, <2>3, <2>4, <2>6 DEF Permutes
  <1> QED
    BY <1>1, <1>2

(* Deque::move_front_to_back. *)
LEMMA MovesFrontToBack ==
    ASSUME NEW q \in Seq(Infos), Distinct(q)
    PROVE  Permutes(move_front_to_back(q), q)
  <1>1. CASE q = <<>>
    BY <1>1 DEF move_front_to_back, Permutes
  <1>2. CASE q # <<>>
    <2> DEFINE n == Len(q)
               u == Tail(q)
               h == Head(q)
    <2>1. n \in Nat /\ n > 0
      BY <1>2
    <2>2. u \in Seq(Infos) /\ h \in Infos /\ Len(u) = n - 1 /\ h = q[1]
             /\ \A p \in 1..(n - 1) : u[p] = q[p + 1]
      BY <1>2
    <2>3. move_front_to_back(q) = Append(u, h)
      BY <1>2 DEF move_front_to_back
    <2> HIDE DEF u, h, n
    <2>4. \A p \in 1..(n - 1) : p + 1 \in 1..n /\ p + 1 # 1
      BY <2>1
    <2>5. \A p \in 1..n : p # 1 => p - 1 \in 1..(n - 1) /\ (p - 1) + 1 = p
      BY <2>1
    <2>6. 1 \in 1..n
      BY <2>1
    <2>7. \A p, t \in 1..n : q[p] = q[t] => p = t
      BY DEF Distinct, n
    <2>8. h \notin Nodes(u)
      BY <2>2, <2>4, <2>6, <2>7 DEF Nodes
    <2>9. Distinct(u)
      <3> SUFFICES ASSUME NEW p \in 1..(n - 1), NEW t \in 1..(n - 1), u[p] = u[t] PROVE p = t
        BY <2>2 DEF Distinct
      <3>1. p + 1 = t + 1
        BY <2>2, <2>4, <2>7
      <3> QED BY <3>1
    <2>10. Nodes(u) \cup {h} = Nodes(q)
      <3>1. \A p \in 1..n : q[p] \in Nodes(u) \cup {h}
        <4> SUFFICES ASSUME NEW p \in 1..n PROVE q[p] \in Nodes(u) \cup {h}
          OBVIOUS
        <4>1. CASE p = 1
          BY <2>2, <4>1
        <4>2. CASE p # 1
          <5>1. p - 1 \in 1..Len(u) /\ u[p - 1] = q[p]
            BY <2>2, <2>5, <4>2
          <5> QED BY <5>1 DEF Nodes
        <4> QED BY <4>1, <4>2
      <3>2. Nodes(u) \subseteq Nodes(q)
        BY <2>2, <2>4 DEF Nodes, n
      <3>3. h \in Nodes(q)
        BY <2>2, <2>6 DEF Nodes, n
      <3> QED BY Zenon, <3>1, <3>2, <3>3 DEF Nodes, n
    <2>11. Nodes(Append(u, h)) = Nodes(u) \cup {h} /\ Distinct(Append(u, h))
              /\ Len(Append(u, h)) = Len(u) + 1
      BY <2>2, <2>8, <2>9, PushBack
    <2>12. Len(Append(u, h)) = Len(q)
      BY <2>1, <2>2, <2>11 DEF n
    <2> QED BY <2>3, <2>10, <2>11, <2>12 DEF Permutes
  <1> QED
    BY <1>1, <1>2

-----------------------------------------------------------------------------
(* The three ways a step changes the deque, the flags and entry_count.      *)

(* The nodes change places: skip_updated_entry_ao, move_to_back_ao.         *)
LEMMA PermuteStep ==
    ASSUME DequeMirrorsAdmitted, Permutes(probation', probation), UNCHANGED admitted,
           counters'.entry_count = counters.entry_count,
           mpc' = "idle" => published' = counters'
    PROVE  DequeMirrorsAdmitted'
  BY Zenon DEF DequeMirrorsAdmitted, Permutes, Nodes, Distinct

(* Nothing of it changes. *)
LEMMA SameStep ==
    ASSUME DequeMirrorsAdmitted, UNCHANGED <<admitted, probation>>,
           counters'.entry_count = counters.entry_count,
           mpc' = "idle" => published' = counters'
    PROVE  DequeMirrorsAdmitted'
  BY SMTT(30) DEF DequeMirrorsAdmitted

(* handle_admit of an entry that is not admitted. *)
LEMMA AdmitStep ==
    ASSUME TypeOK, DequeMirrorsAdmitted, NEW i \in Infos, i \notin admitted, NEW w,
           handle_admit(i, w), mpc' # "idle"
    PROVE  DequeMirrorsAdmitted'
  <1>1. probation \in Seq(Infos) /\ Distinct(probation) /\ admitted = Nodes(probation)
           /\ counters.entry_count = Len(probation)
    BY DEF TypeOK, DequeMirrorsAdmitted, Nodes, Distinct
  <1>2. probation' = Append(probation, i) /\ admitted' = admitted \cup {i}
           /\ counters'.entry_count = counters.entry_count + 1
    BY DEF handle_admit
  <1>3. Nodes(probation)' = Nodes(probation) \cup {i} /\ Distinct(probation)'
           /\ Len(probation') = Len(probation) + 1
    BY <1>1, <1>2, PushBack
  <1>4. admitted' = Nodes(probation)' /\ counters'.entry_count = Len(probation')
    BY <1>1, <1>2, <1>3
  <1> QED
    BY Zenon, <1>3, <1>4 DEF DequeMirrorsAdmitted, Nodes, Distinct

(* handle_remove of any entry. *)
LEMMA RemoveStep ==
    ASSUME TypeOK, DequeMirrorsAdmitted, NEW i \in Infos, handle_remove(i), mpc' # "idle"
    PROVE  DequeMirrorsAdmitted'
  <1>1. probation \in Seq(Infos) /\ Distinct(probation) /\ admitted = Nodes(probation)
           /\ counters.entry_count = Len(probation)
    BY DEF TypeOK, DequeMirrorsAdmitted, Nodes, Distinct
  <1>2. CASE i \notin admitted
    <2>1. UNCHANGED <<admitted, probation, counters>>
      BY <1>2 DEF handle_remove
    <2> QED BY SMTT(30), <2>1, SameStep
  <1>3. CASE i \in admitted
    <2>1. probation' = unlink(probation, i) /\ admitted' = admitted \ {i}
             /\ counters'.entry_count = counters.entry_count - 1
      BY <1>3 DEF handle_remove
    <2>2. Nodes(probation)' = Nodes(probation) \ {i} /\ Distinct(probation)'
             /\ Len(probation') = Len(probation) - 1
      BY <1>1, <1>3, <2>1, Unlinks
    <2>3. admitted' = Nodes(probation)' /\ counters'.entry_count = Len(probation')
      BY <1>1, <2>1, <2>2
    <2> QED BY <2>2, <2>3 DEF DequeMirrorsAdmitted, Nodes, Distinct
  <1> QED
    BY SMTT(30), <1>2, <1>3

-----------------------------------------------------------------------------
(* User threads touch neither the flags nor the deque nor the counters.     *)
LEMMA UserDeque ==
    ASSUME DequeMirrorsAdmitted, NEW t \in Threads, UserStep(t)
    PROVE  DequeMirrorsAdmitted'
  <1> USE DEF infoVars, flagVars, policyVars, maintVars
  <1>1. UNCHANGED <<admitted, probation, counters, published, mpc>>
    <2>1. CASE \E k \in Keys, w \in Weights : InsertStart(t, k, w)
      BY <2>1 DEF InsertStart
    <2>2. CASE \/ \E k \in Keys : RemoveStart(t, k)
               \/ \E k \in Keys, ts \in 0..now : GetFound(t, k, ts)
      BY Zenon, <2>2 DEF RemoveStart, GetFound
    <2>3. CASE InsertFound(t) \/ OnInsert(t) \/ InsertAgain(t) \/ OnModify(t)
      BY Zenon, <2>3 DEF InsertFound, OnInsert, InsertAgain, OnModify
    <2>4. CASE InsertCas(t) \/ InsertCasFail(t) \/ ScheduleWriteOp(t) \/ RemoveLock(t)
      BY <2>4 DEF InsertCas, InsertCasFail, ScheduleWriteOp, RemoveLock
    <2>5. CASE RemoveCas(t) \/ RemoveMiss(t) \/ RemoveRetire(t) \/ RemoveIncr(t)
                 \/ GetTouch(t) \/ RecordReadOp(t)
      BY <2>5 DEF RemoveCas, RemoveMiss, RemoveRetire, RemoveIncr, GetTouch, RecordReadOp
    <2> QED BY <2>1, <2>2, <2>3, <2>4, <2>5 DEF UserStep
  <1> QED
    BY SMTT(30), <1>1 DEF DequeMirrorsAdmitted

(* The steps of maintenance that leave the deque alone. *)
LEMMA QuietDeque ==
    ASSUME DequeMirrorsAdmitted,
           \/ MaintStart \/ ReadsDone \/ UpsertRetired \/ UpsertTooBig \/ UpsertContends
           \/ AdmitTake \/ AdmitDecide \/ VictimRemove \/ RemoveCandidate \/ KeepCandidate
           \/ WritesDone \/ EvictPeek \/ EvictRemove \/ MaintAgain \/ MaintDone
           \/ AdmitLook \/ CheckAgain \/ VictimCheck \/ CandidateCheck \/ EvictCheck
           \/ EvictClean \/ EvictMiss
    PROVE  DequeMirrorsAdmitted'
  <1> USE DEF flagVars, policyVars
  <1>1. CASE MaintStart
    BY <1>1, SameStep DEF MaintStart, DequeMirrorsAdmitted
  <1>2. CASE ReadsDone \/ WritesDone \/ UpsertTooBig \/ UpsertContends \/ AdmitDecide
    <2>1. mpc' # "idle" /\ UNCHANGED <<admitted, probation, counters>>
      BY Zenon, <1>2 DEF ReadsDone, WritesDone, UpsertTooBig, UpsertContends, AdmitDecide
    <2> QED BY <2>1, SameStep
  <1>3. CASE UpsertRetired \/ AdmitTake
    <2>1. mpc' # "idle" /\ UNCHANGED <<admitted, probation, counters>>
      BY Zenon, <1>3 DEF UpsertRetired, Receive, AdmitTake
    <2> QED BY <2>1, SameStep
  <1>4. CASE VictimRemove \/ RemoveCandidate \/ KeepCandidate \/ EvictPeek \/ EvictRemove
    <2>1. mpc' # "idle" /\ UNCHANGED <<admitted, probation, counters>>
      BY <1>4 DEF VictimRemove, RemoveCandidate, KeepCandidate, EvictPeek, EvictRemove
    <2> QED BY SMTT(30), <2>1, SameStep
  <1>5. CASE MaintAgain
    <2>1. mpc' # "idle" /\ UNCHANGED <<admitted, probation, counters>>
      BY <1>5 DEF MaintAgain
    <2> QED BY <2>1, SameStep
  <1>6. CASE MaintDone
    BY <1>6, SameStep DEF MaintDone
  <1>7. CASE AdmitLook \/ EvictClean \/ EvictMiss
    <2>1. mpc' # "idle" /\ UNCHANGED <<admitted, probation, counters>>
      BY <1>7 DEF AdmitLook, EvictClean, EvictMiss
    <2> QED BY SMTT(30), <2>1, SameStep
  <1>8. CASE CheckAgain \/ VictimCheck \/ CandidateCheck \/ EvictCheck
    <2>1. UNCHANGED <<admitted, probation, counters, published, mpc>>
      BY <1>8 DEF CheckAgain, VictimCheck, CandidateCheck, EvictCheck, Check
    <2> QED BY ZenonT(30), <2>1 DEF DequeMirrorsAdmitted
  <1> QED
    BY <1>1, <1>2, <1>3, <1>4, <1>5, <1>6, <1>7, <1>8

(* The steps of maintenance that move nodes. *)
LEMMA MoveDeque ==
    ASSUME TypeInv, BucketsOK, DequeMirrorsAdmitted,
           \/ ApplyRead \/ UpsertAdmitted \/ AdmitSkip \/ VictimSkip
           \/ EvictSkipDirty \/ EvictSkip
    PROVE  DequeMirrorsAdmitted'
  <1> USE DEF flagVars
  <1>0. probation \in Seq(Infos) /\ Distinct(probation) /\ Permutes(probation, probation)
           /\ m \in MaintStates
    BY Zenon DEF TypeInv, TypeOK, DequeMirrorsAdmitted, Distinct, Permutes
  <1>1. CASE ApplyRead
    <2>1. Head(read_op_ch) \in Infos \cup {None}
      BY <1>1 DEF ApplyRead, TypeInv, TypeOK
    <2>2. Permutes(probation', probation)
      BY <1>0, <1>1, <2>1, MovesToBack DEF ApplyRead
    <2>3. mpc' # "idle" /\ UNCHANGED <<admitted, counters>>
      BY <1>1 DEF ApplyRead
    <2> QED BY <2>2, <2>3, PermuteStep
  <1>2. CASE UpsertAdmitted
    <2>1. Head(write_op_ch) \in WriteOps
      BY <1>2 DEF UpsertAdmitted, Receive, TypeInv, TypeOK
    <2>2. Head(write_op_ch).info \in Infos
      BY <2>1 DEF WriteOps
    <2>3. Permutes(probation', probation)
      BY <1>0, <1>2, <2>2, MovesToBack DEF UpsertAdmitted
    <2>4. mpc' # "idle" /\ UNCHANGED admitted
      BY <1>2 DEF UpsertAdmitted, Receive
    <2>5. counters'.entry_count = counters.entry_count
      BY <1>2 DEF UpsertAdmitted, TypeInv, TypeOK
    <2> QED BY <2>3, <2>4, <2>5, PermuteStep
  <1>3. CASE AdmitSkip
    <2>1. m.scan.next \in Infos
      BY <1>0, <1>3 DEF AdmitSkip, Scanning, MaintStates, Scans, TypeInv, LocalsOK, MaintOK
    <2>2. Permutes(probation', probation)
      BY <1>0, <1>3, <2>1, MovesToBack DEF AdmitSkip
    <2>3. mpc' # "idle" /\ UNCHANGED <<admitted, counters>>
      BY <1>3 DEF AdmitSkip
    <2> QED BY <2>2, <2>3, PermuteStep
  <1>4. CASE VictimSkip
    <2>1. Permutes(probation', probation)
      BY <1>0, <1>4, MovesFrontToBack DEF VictimSkip
    <2>2. mpc' # "idle" /\ UNCHANGED <<admitted, counters>>
      BY <1>4 DEF VictimSkip
    <2> QED BY <2>1, <2>2, PermuteStep
  <1>5. CASE EvictSkipDirty \/ EvictSkip
    <2>1. PICK k \in Keys : SkipOne(k)
      <3>1. CASE EvictSkipDirty
        <4>1. Head(probation) \in Infos
          BY <1>0, <3>1 DEF EvictSkipDirty, Evicting
        <4> QED BY SMTT(30), <3>1, <4>1, KeyOfType DEF EvictSkipDirty
      <3>2. CASE EvictSkip
        BY ZenonT(30), <3>2 DEF EvictSkip, TypeInv, LocalsOK, MaintOK
      <3> QED BY <1>5, <3>1, <3>2
    <2>2. bucket[k].info \in Infos \cup {None}
      BY DEF TypeInv, TypeOK, Buckets
    <2>3. Permutes(probation', probation)
      BY SMTT(30), <1>0, <2>1, <2>2, MovesToBack, MovesFrontToBack DEF SkipOne, skip_updated_entry_ao
    <2>4. mpc' # "idle" /\ UNCHANGED <<admitted, counters>>
      BY <1>5 DEF EvictSkipDirty, EvictSkip
    <2> QED BY <2>3, <2>4, PermuteStep
  <1> QED
    BY <1>1, <1>2, <1>3, <1>4, <1>5

(* The steps of maintenance that admit or remove an entry. *)
LEMMA ChangeDeque ==
    ASSUME TypeInv, LifeInv, DequeMirrorsAdmitted,
           UpsertFits \/ AdmitCandidate \/ ApplyRemove \/ VictimRemoved \/ EvictRemoved
    PROVE  DequeMirrorsAdmitted'
  <1>0. TypeOK /\ m \in MaintStates
    BY SMTT(30) DEF TypeInv, TypeOK
  <1>1. CASE UpsertFits
    <2> DEFINE op == Head(write_op_ch)
    <2>1. op \in WriteOps
      BY <1>1 DEF UpsertFits, Receive, TypeInv, TypeOK
    <2>2. op.info \in Infos
      BY <2>1 DEF WriteOps
    <2>3. op.info \notin admitted /\ handle_admit(op.info, op.new) /\ mpc' # "idle"
      BY <1>1 DEF UpsertFits, Receive
    <2> HIDE DEF op
    <2> QED BY <1>0, <2>2, <2>3, AdmitStep
  <1>2. CASE AdmitCandidate
    <2>1. m.work.info \in Infos
      BY <1>2, WorkTypes DEF AdmitCandidate, Working
    <2>2. m.work.info \notin admitted /\ mpc' # "idle"
      BY <1>2 DEF LifeInv, CandidateOK, AdmitCandidate
    <2>3. CASE handle_admit(m.work.info, m.work.new)
      BY <1>0, <2>1, <2>2, <2>3, AdmitStep
    <2>4. CASE UNCHANGED <<admitted, probation, counters>>
      BY <2>2, <2>4, SameStep
    <2> QED BY <1>2, <2>3, <2>4 DEF AdmitCandidate
  <1>3. CASE ApplyRemove
    <2> DEFINE op == Head(write_op_ch)
    <2>1. op \in WriteOps
      BY <1>3 DEF ApplyRemove, Receive, TypeInv, TypeOK
    <2>2. op.info \in Infos
      BY <2>1 DEF WriteOps
    <2>3. handle_remove(op.info) /\ mpc' # "idle"
      BY <1>3 DEF ApplyRemove, Receive
    <2> HIDE DEF op
    <2> QED BY <1>0, <2>2, <2>3, RemoveStep
  <1>4. CASE VictimRemoved \/ EvictRemoved
    <2>1. m.removed # None
      BY <1>4 DEF VictimRemoved, EvictRemoved, TypeInv, LocalsOK, MaintOK
    <2>2. m.removed \in Infos
      BY <1>0, <2>1 DEF MaintStates
    <2>3. handle_remove(m.removed) /\ mpc' # "idle"
      BY <1>4 DEF VictimRemoved, EvictRemoved
    <2> QED BY <1>0, <2>2, <2>3, RemoveStep
  <1> QED
    BY SMTT(30), <1>1, <1>2, <1>3, <1>4

=============================================================================

--------------------------- MODULE BaseCacheSteps ---------------------------
(***************************************************************************)
(* What the steps of a user thread do to the CHT and to the life of an     *)
(* entry of BaseCache, for every value of the constants.                   *)
(***************************************************************************)
EXTENDS BaseCacheTyping

-----------------------------------------------------------------------------
(* What the steps of a user thread do to its locals *)

(* Thread t moves, the others do not. *)
Moves(t, pc, key, seen, own, op) ==
    /\ \A u \in Threads : u # t => thr'[u] = thr[u]
    /\ thr'[t].pc = pc
    /\ thr'[t].key = key
    /\ thr'[t].seen = seen
    /\ thr'[t].own = own
    /\ thr'[t].op = op

(* The first step of insert, invalidate and get. *)
LEMMA Starts ==
    ASSUME TypeInv, NEW t \in Threads, NEW k \in Keys
    PROVE  /\ \A w \in Weights : InsertStart(t, k, w) =>
                Moves(t, "load", k, NoBucket, None, NoOp)
           /\ RemoveStart(t, k) =>
                \E pc \in {"lock", "remove"} : Moves(t, pc, k, NoBucket, None, NoOp)
           /\ \A ts \in 0..now : GetFound(t, k, ts) =>
                \E pc \in {"touch", "record"} : Moves(t, pc, k, bucket[k], None, NoOp)
  <1> USE DEF Moves, IdleThread, TypeInv, TypeOK
  <1>1. ASSUME NEW w \in Weights, InsertStart(t, k, w)
        PROVE  Moves(t, "load", k, NoBucket, None, NoOp)
    BY <1>1 DEF InsertStart
  <1>2. ASSUME RemoveStart(t, k)
        PROVE  \E pc \in {"lock", "remove"} : Moves(t, pc, k, NoBucket, None, NoOp)
    BY <1>2 DEF RemoveStart
  <1>3. ASSUME NEW ts \in 0..now, GetFound(t, k, ts)
        PROVE  \E pc \in {"touch", "record"} : Moves(t, pc, k, bucket[k], None, NoOp)
    BY <1>3 DEF GetFound
  <1> QED
    BY <1>1, <1>2, <1>3

(* Their last step. *)
LEMMA Ends ==
    ASSUME TypeInv, NEW t \in Threads, ScheduleWriteOp(t) \/ RemoveMiss(t) \/ RecordReadOp(t)
    PROVE  Moves(t, "idle", None, NoBucket, None, NoOp)
  BY SMTT(30) DEF Moves, IdleThread, TypeInv, TypeOK, ScheduleWriteOp, RemoveMiss, RecordReadOp

(* The other steps of do_insert_with_hash. *)
LEMMA InsertMoves ==
    ASSUME TypeInv, NEW t \in Threads
    PROVE  LET x == thr[t]
               i == <<x.key, allocs[x.key] + 1>>
               new == WriteOp("Upsert", i, entry_gen[i], 0, x.weight)
               upd == WriteOp("Upsert", x.seen.info, entry_gen'[x.seen.info],
                              policy_weight[x.seen.info], x.weight)
           IN  /\ InsertFound(t) => Moves(t, "modify", x.key, bucket[x.key], x.own, x.op)
               /\ OnInsert(t) => Moves(t, "cas", x.key, bucket[x.key], i, new)
               /\ InsertAgain(t) => Moves(t, "cas", x.key, bucket[x.key], x.own, x.op)
               /\ OnModify(t) => Moves(t, "cas", x.key, x.seen, x.own, upd)
               /\ InsertCas(t) => Moves(t, "send", None, NoBucket, None, x.op)
               /\ InsertCasFail(t) => Moves(t, "load", x.key, NoBucket, x.own, x.op)
  <1> DEFINE x == thr[t]
             i == <<x.key, allocs[x.key] + 1>>
             new == WriteOp("Upsert", i, entry_gen[i], 0, x.weight)
             upd == WriteOp("Upsert", x.seen.info, entry_gen'[x.seen.info],
                            policy_weight[x.seen.info], x.weight)
  <1>0. thr \in [Threads -> ThreadStates] /\ thr[t] \in ThreadStates
    BY DEF TypeInv, TypeOK
  <1> USE <1>0 DEF Moves, ThreadStates
  <1>1. InsertFound(t) => Moves(t, "modify", x.key, bucket[x.key], x.own, x.op)
    BY DEF InsertFound
  <1>2. OnInsert(t) => Moves(t, "cas", x.key, bucket[x.key], i, new)
    BY DEF OnInsert
  <1>3. InsertAgain(t) => Moves(t, "cas", x.key, bucket[x.key], x.own, x.op)
    BY DEF InsertAgain
  <1>4. OnModify(t) => Moves(t, "cas", x.key, x.seen, x.own, upd)
    BY DEF OnModify
  <1>5. InsertCas(t) => Moves(t, "send", None, NoBucket, None, x.op)
    BY DEF InsertCas, IdleThread
  <1>6. InsertCasFail(t) => Moves(t, "load", x.key, NoBucket, x.own, x.op)
    BY DEF InsertCasFail
  <1> QED
    BY <1>1, <1>2, <1>3, <1>4, <1>5, <1>6

(* The other steps of invalidate_with_hash and do_get_with_hash. *)
LEMMA RemoveMoves ==
    ASSUME TypeInv, NEW t \in Threads
    PROVE  LET x == thr[t]
               op == WriteOp("Remove", x.seen.info, entry_gen'[x.seen.info], 0, 0)
           IN  /\ RemoveLock(t) => Moves(t, "remove", x.key, x.seen, x.own, x.op)
               /\ RemoveCas(t) => Moves(t, "retire", x.key, bucket[x.key], x.own, x.op)
               /\ RemoveRetire(t) => Moves(t, "incr", x.key, x.seen, x.own, x.op)
               /\ RemoveIncr(t) => Moves(t, "send", None, NoBucket, None, op)
               /\ GetTouch(t) => Moves(t, "record", x.key, x.seen, x.own, x.op)
  <1> DEFINE x == thr[t]
             op == WriteOp("Remove", x.seen.info, entry_gen'[x.seen.info], 0, 0)
  <1>0. thr \in [Threads -> ThreadStates] /\ thr[t] \in ThreadStates
    BY DEF TypeInv, TypeOK
  <1> USE <1>0 DEF Moves, ThreadStates
  <1>1. RemoveLock(t) => Moves(t, "remove", x.key, x.seen, x.own, x.op)
    BY DEF RemoveLock
  <1>2. RemoveCas(t) => Moves(t, "retire", x.key, bucket[x.key], x.own, x.op)
    BY DEF RemoveCas
  <1>3. RemoveRetire(t) => Moves(t, "incr", x.key, x.seen, x.own, x.op)
    BY DEF RemoveRetire
  <1>4. RemoveIncr(t) => Moves(t, "send", None, NoBucket, None, op)
    BY DEF RemoveIncr, IdleThread
  <1>5. GetTouch(t) => Moves(t, "record", x.key, x.seen, x.own, x.op)
    BY DEF GetTouch
  <1> QED
    BY <1>1, <1>2, <1>3, <1>4, <1>5

-----------------------------------------------------------------------------
(* Buckets and their versions *)

(* The version of a bucket grows with every change of the bucket. *)
LEMMA SeenStable ==
    ASSUME TypeInv, NEW x \in ThreadStates, x.key \in Keys, SeesBucket(x),
           NEW k \in Keys, NEW i \in Infos \cup {None},
           bucket' = [bucket EXCEPT ![k] = [info |-> i, ver |-> @.ver + 1]]
    PROVE  SeesBucket(x)'
  <1>1. /\ bucket'[k].ver = bucket[k].ver + 1
        /\ \A j \in Keys : j # k => bucket'[j] = bucket[j]
    BY Zenon, BucketCas DEF TypeInv
  <1>2. bucket[x.key].ver \in Nat /\ x.seen.ver \in Nat
    BY Zenon DEF TypeInv, TypeOK, Buckets, ThreadStates
  <1> QED
    BY <1>1, <1>2 DEF SeesBucket

(* A CAS keeps BucketsOK for the threads that do not move. *)
LEMMA BucketsCas ==
    ASSUME TypeInv, BucketsOK, NEW k \in Keys, NEW i \in Infos \cup {None},
           i # None => KeyOf(i) = k,
           bucket' = [bucket EXCEPT ![k] = [info |-> i, ver |-> @.ver + 1]]
    PROVE  /\ \A j \in Keys : bucket'[j].info # None => KeyOf(bucket'[j].info) = j
           /\ \A u \in Threads : thr'[u] = thr[u] =>
                /\ thr'[u].own # None => KeyOf(thr'[u].own) = thr'[u].key
                /\ thr'[u].pc \in {"modify", "cas"} => SeesBucket(thr[u])'
  <1>1. bucket'[k].info = i /\ \A j \in Keys : j # k => bucket'[j] = bucket[j]
    BY Zenon, BucketCas DEF TypeInv
  <1>2. ASSUME NEW u \in Threads, thr'[u] = thr[u], thr'[u].pc \in {"modify", "cas"}
        PROVE  SeesBucket(thr[u])'
    <2>1. thr[u] \in ThreadStates /\ thr[u].key \in Keys /\ SeesBucket(thr[u])
      BY Zenon, <1>2 DEF TypeInv, TypeOK, LocalsOK, ThreadOK, BucketsOK
    <2>2. PICK y \in ThreadStates : y = thr[u] /\ y = thr'[u]
      BY <1>2, <2>1
    <2>3. y.key \in Keys /\ SeesBucket(y)
      BY <2>1, <2>2 DEF SeesBucket
    <2>4. SeesBucket(y)'
      BY Zenon, <2>3, SeenStable
    <2> QED
      BY <2>2, <2>4 DEF SeesBucket
  <1>3. ASSUME NEW u \in Threads, thr'[u] = thr[u], thr'[u].own # None
        PROVE  KeyOf(thr'[u].own) = thr'[u].key
    BY <1>3 DEF BucketsOK
  <1> QED
    BY <1>1, <1>2, <1>3 DEF BucketsOK

(* A step that leaves the buckets alone keeps BucketsOK for the threads     *)
(* that do not move.                                                       *)
LEMMA BucketsSame ==
    ASSUME BucketsOK, UNCHANGED bucket
    PROVE  /\ \A j \in Keys : bucket'[j].info # None => KeyOf(bucket'[j].info) = j
           /\ \A u \in Threads : thr'[u] = thr[u] =>
                /\ thr'[u].own # None => KeyOf(thr'[u].own) = thr'[u].key
                /\ thr'[u].pc \in {"modify", "cas"} => SeesBucket(thr[u])'
  BY DEF BucketsOK, SeesBucket

(* No step of a user thread puts an EntryInfo in the bucket of another key  *)
(* or lets a thread see what its bucket never held.                        *)
LEMMA UserBuckets ==
    ASSUME TypeInv, BucketsOK, NEW t \in Threads, UserStep(t)
    PROVE  BucketsOK'
  <1> DEFINE OK == /\ thr'[t].own # None => KeyOf(thr'[t].own) = thr'[t].key
                   /\ thr'[t].pc \in {"modify", "cas"} => SeesBucket(thr[t])'
             Others == \A u \in Threads : u # t => thr'[u] = thr[u]
  <1>t. thr[t] \in ThreadStates /\ ThreadOK(thr[t]) /\ TypeOK
    BY SMTT(30) DEF TypeInv, TypeOK, LocalsOK
  <1>b. \A k \in Keys : bucket[k] \in Buckets
    BY DEF TypeInv, TypeOK
  <1>s. ASSUME UNCHANGED bucket, Others, OK PROVE BucketsOK'
    BY <1>s, BucketsSame DEF BucketsOK
  <1>0. ASSUME Others, thr'[t].pc \notin {"modify", "cas"}, thr'[t].own = None
        PROVE  OK /\ Others
    BY <1>0
  <1>1. ASSUME NEW k \in Keys, NEW w \in Weights, InsertStart(t, k, w) PROVE BucketsOK'
    <2>1. Moves(t, "load", k, NoBucket, None, NoOp)
      BY <1>1, Starts
    <2>2. OK /\ Others
      BY <2>1, <1>0 DEF Moves
    <2> QED BY <1>1, <2>2, <1>s DEF InsertStart
  <1>2. ASSUME NEW k \in Keys, RemoveStart(t, k) PROVE BucketsOK'
    <2>1. PICK pc \in {"lock", "remove"} : Moves(t, pc, k, NoBucket, None, NoOp)
      BY <1>2, Starts
    <2>2. OK /\ Others
      BY <2>1, <1>0 DEF Moves
    <2> QED BY <1>2, <2>2, <1>s DEF RemoveStart, storeVars
  <1>3. ASSUME NEW k \in Keys, NEW ts \in 0..now, GetFound(t, k, ts) PROVE BucketsOK'
    <2>1. PICK pc \in {"touch", "record"} : Moves(t, pc, k, bucket[k], None, NoOp)
      BY <1>3, Starts
    <2>2. OK /\ Others
      BY <2>1, <1>0 DEF Moves
    <2> QED BY <1>3, <2>2, <1>s DEF GetFound, storeVars
  <1>4. CASE ScheduleWriteOp(t) \/ RemoveMiss(t) \/ RecordReadOp(t)
    <2>1. Moves(t, "idle", None, NoBucket, None, NoOp)
      BY <1>4, Ends
    <2>2. OK /\ Others
      BY <2>1, <1>0 DEF Moves
    <2> QED BY <1>4, <2>2, <1>s DEF ScheduleWriteOp, RemoveMiss, RecordReadOp, storeVars
  <1>m. ASSUME UNCHANGED bucket, thr[t].key \in Keys, Others,
               thr'[t].key = thr[t].key, thr'[t].seen = bucket[thr[t].key],
               thr'[t].own # None => KeyOf(thr'[t].own) = thr[t].key
        PROVE  BucketsOK'
    <2>1. bucket[thr[t].key] \in Buckets
      BY SMTT(30), <1>m, <1>b
    <2>2. SeesBucket(thr[t])'
      BY <1>m, <2>1 DEF SeesBucket, Buckets, BucketsOK
    <2>3. OK /\ Others
      BY <1>m, <2>2
    <2> QED BY <1>m, <2>3, <1>s
  <1>k. thr[t].pc \notin {"idle", "send"} => thr[t].key \in Keys
    BY <1>t DEF ThreadOK
  <1>o. thr[t].own # None => KeyOf(thr[t].own) = thr[t].key
    BY DEF BucketsOK
  <1>5. CASE InsertFound(t) \/ InsertAgain(t)
    <2>1. PICK pc : Moves(t, pc, thr[t].key, bucket[thr[t].key], thr[t].own, thr[t].op)
      BY Zenon, <1>5, InsertMoves
    <2>2. UNCHANGED bucket /\ thr[t].key \in Keys
      BY <1>5, <1>k DEF InsertFound, InsertAgain, storeVars
    <2> QED BY <2>1, <2>2, <1>o, <1>m DEF Moves
  <1>6. CASE OnInsert(t)
    <2> DEFINE i == <<thr[t].key, allocs[thr[t].key] + 1>>
    <2>1. PICK op : Moves(t, "cas", thr[t].key, bucket[thr[t].key], i, op)
      BY SMTT(30), <1>6, InsertMoves
    <2>2. UNCHANGED bucket /\ thr[t].key \in Keys /\ KeyOf(i) = thr[t].key
      BY <1>6, <1>k DEF OnInsert, storeVars, KeyOf
    <2> HIDE DEF i
    <2> QED BY SMTT(30), <2>1, <2>2, <1>m DEF Moves
  <1>7. CASE OnModify(t)
    <2>1. PICK op : Moves(t, "cas", thr[t].key, thr[t].seen, thr[t].own, op)
      BY ZenonT(30), <1>7, InsertMoves
    <2>2. UNCHANGED bucket /\ thr[t].pc = "modify" /\ SeesBucket(thr[t])
      BY <1>7 DEF OnModify, storeVars, BucketsOK
    <2>3. SeesBucket(thr[t])'
      BY <2>1, <2>2 DEF Moves, SeesBucket
    <2>4. OK /\ Others
      BY <2>1, <2>3, <1>o DEF Moves
    <2> QED BY <2>2, <2>4, <1>s
  <1>8. CASE InsertCasFail(t)
    <2>1. OK /\ Others
      BY ZenonT(30), <1>8, <1>t, InsertMoves DEF Moves, InsertCasFail, BucketsOK
    <2> QED BY Zenon, <1>8, <2>1, <1>s DEF InsertCasFail, storeVars
  <1>9. CASE RemoveLock(t) \/ RemoveRetire(t) \/ RemoveIncr(t) \/ GetTouch(t)
    <2>0. UNCHANGED bucket
      BY <1>9 DEF RemoveLock, RemoveRetire, RemoveIncr, GetTouch, storeVars
    <2>1. /\ Others /\ thr'[t].pc \in {"remove", "incr", "send", "record"}
          /\ thr'[t].own = None \/ (thr'[t].own = thr[t].own /\ thr'[t].key = thr[t].key)
      BY Zenon, <1>9, RemoveMoves DEF Moves
    <2>2. OK /\ Others
      BY <2>1, <1>o
    <2> QED BY <2>0, <2>2, <1>s
  <1>10. CASE InsertCas(t)
    <2> DEFINE k == thr[t].key
               i == IF thr[t].seen.info = None THEN thr[t].own ELSE thr[t].seen.info
    <2>1. k \in Keys /\ i \in Infos /\ KeyOf(i) = k
      BY <1>10, <1>t, InfosAssumption
         DEF InsertCas, BucketsOK, SeesBucket, ThreadOK, ThreadStates, Buckets
    <2>2. bucket' = [bucket EXCEPT ![k] = [info |-> i, ver |-> @.ver + 1]]
      BY <1>10 DEF InsertCas
    <2>a. Moves(t, "send", None, NoBucket, None, thr[t].op)
      BY ZenonT(30), <1>10, InsertMoves
    <2>3. OK /\ Others
      BY <2>a, <1>0 DEF Moves
    <2> HIDE DEF i, k
    <2> QED BY ZenonT(30), <2>1, <2>2, <2>3, BucketsCas DEF BucketsOK
  <1>11. CASE RemoveCas(t)
    <2> DEFINE k == thr[t].key
    <2>1. k \in Keys /\ thr[t].own = None
      BY <1>11, <1>t DEF RemoveCas, ThreadOK, Inserting
    <2>2. bucket' = [bucket EXCEPT ![k] = [info |-> None, ver |-> @.ver + 1]]
      BY <1>11 DEF RemoveCas
    <2>a. Moves(t, "retire", k, bucket[k], None, thr[t].op)
      BY Zenon, <1>11, <2>1, RemoveMoves
    <2>3. OK /\ Others
      BY <2>a, <1>0 DEF Moves
    <2> QED BY ZenonT(30), <2>1, <2>2, <2>3, BucketsCas DEF BucketsOK
  <1> QED
    BY SMTT(30), <1>1, <1>2, <1>3, <1>4, <1>5, <1>6, <1>7, <1>8, <1>9, <1>10, <1>11 DEF UserStep

(* What maintenance does to the CHT: nothing, or one removal. *)
LEMMA MaintStore ==
    ASSUME TypeInv, Maintenance
    PROVE  /\ UNCHANGED thr
           /\ \/ UNCHANGED bucket
              \/ \E k \in Keys : bucket[k].info # None /\ cht_remove_and_retire(k)
  <1> USE DEF storeVars, userVars
  <1>1. CASE VictimRemove
    <2> DEFINE v == Head(m.victims)
    <2>1. m.victims \in Seq(Victims) /\ m.victims # <<>>
      BY <1>1 DEF VictimRemove, TypeInv, TypeOK, MaintStates
    <2>2. v \in Victims
      BY <2>1
    <2>3. v.key \in Keys
      BY <2>2 DEF Victims
    <2> QED BY <1>1, <2>3 DEF VictimRemove, Checked
  <1>2. CASE EvictRemove
    <2>1. m.evict.key \in Keys
      BY <1>2 DEF EvictRemove, TypeInv, LocalsOK, MaintOK
    <2> QED BY <1>2, <2>1 DEF EvictRemove, Checked
  <1>3. CASE RemoveCandidate
    <2>1. m.work.info \in Infos
      BY <1>3, WorkTypes DEF RemoveCandidate, Working
    <2>2. KeyOf(m.work.info) \in Keys
      BY <2>1, KeyOfType
    <2> QED BY <1>3, <2>2 DEF RemoveCandidate, Checked
  <1>4. CASE MaintStart \/ ApplyRead \/ ReadsDone \/ ApplyRemove \/ UpsertRetired
               \/ UpsertAdmitted \/ UpsertFits \/ UpsertTooBig \/ UpsertContends
    BY Zenon, <1>4 DEF MaintStart, ApplyRead, ReadsDone, ApplyRemove, UpsertRetired, UpsertAdmitted,
                UpsertFits, UpsertTooBig, UpsertContends
  <1>5. CASE AdmitSkip \/ AdmitTake \/ AdmitDecide \/ VictimRemoved \/ VictimSkip
               \/ AdmitCandidate \/ KeepCandidate \/ WritesDone
    BY Zenon, <1>5 DEF AdmitSkip, AdmitTake, AdmitDecide, VictimRemoved, VictimSkip, AdmitCandidate,
                KeepCandidate, WritesDone
  <1>6. CASE EvictSkipDirty \/ EvictPeek \/ EvictRemoved \/ EvictSkip \/ MaintAgain \/ MaintDone
    BY <1>6 DEF EvictSkipDirty, EvictPeek, EvictRemoved, EvictSkip, MaintAgain, MaintDone
  <1>7. CASE AdmitLook \/ CheckAgain \/ VictimCheck \/ CandidateCheck \/ EvictCheck
               \/ EvictClean \/ EvictMiss
    BY <1>7 DEF AdmitLook, CheckAgain, VictimCheck, CandidateCheck, EvictCheck, Check,
                EvictClean, EvictMiss
  <1> QED
    BY <1>1, <1>2, <1>3, <1>4, <1>5, <1>6, <1>7 DEF Maintenance

(* Neither does a step of maintenance. *)
LEMMA MaintBuckets ==
    ASSUME TypeInv, BucketsOK, Maintenance
    PROVE  BucketsOK'
  <1>1. CASE UNCHANGED bucket
    BY <1>1, MaintStore, BucketsSame DEF BucketsOK
  <1>2. ASSUME NEW k \in Keys, cht_remove_and_retire(k) PROVE BucketsOK'
    <2>1. bucket' = [bucket EXCEPT ![k] = [info |-> None, ver |-> @.ver + 1]]
      BY SMTT(30), <1>2 DEF cht_remove_and_retire
    <2> QED BY Zenon, <2>1, MaintStore, BucketsCas DEF BucketsOK
  <1> QED
    BY SMTT(30), <1>1, <1>2, MaintStore

-----------------------------------------------------------------------------
(* The life of an entry: steps of user threads *)

(* What a step does to the life of an entry: nothing, ... *)
Kept(i) ==
    /\ Linked(i)' <=> Linked(i)
    /\ Leaving(i)' <=> Leaving(i)
    /\ Linked(i) \/ Leaving(i) \/ (Alive(i)' <=> Alive(i))

(* ... or one of the steps of EntryLifecycle. *)
Links(n) ==
    /\ ~Linked(n) /\ ~Leaving(n) /\ Alive(n) /\ Linked(n)'
    /\ \A i \in Infos : KeyOf(i) = KeyOf(n) => ~Linked(i)
    /\ admitted' = admitted

Tracks(n) == Kept(n) /\ (Linked(n) \/ Leaving(n)) /\ admitted' = admitted \cup {n}

LeavesCht(n) == Linked(n) /\ ~Linked(n)' /\ Leaving(n)' /\ admitted' = admitted

Gone(n) == ~Linked(n)' /\ ~Leaving(n)' /\ ~Alive(n)'

Forgets(n) == ~Linked(n) /\ Leaving(n) /\ Gone(n) /\ admitted' = admitted \ {n}

Declines(n) == Linked(n) /\ n \notin admitted /\ Gone(n) /\ admitted' = admitted

KeptAll == admitted' = admitted /\ \A i \in Infos : Kept(i)

LifeStep ==
    \/ KeptAll
    \/ \E n \in Infos :
         /\ \A i \in Infos : i # n => Kept(i)
         /\ Links(n) \/ Tracks(n) \/ LeavesCht(n) \/ Forgets(n) \/ Declines(n)

(* The predicates about the threads that do not move. *)
OthersSame(t) ==
    \A u \in Threads, i \in Infos : u # t =>
      /\ Retiring(u, i)' <=> Retiring(u, i)
      /\ Sending(u, i, "Upsert")' <=> Sending(u, i, "Upsert")
      /\ Sending(u, i, "Remove")' <=> Sending(u, i, "Remove")
      /\ Sees(u, i)' <=> Sees(u, i)
      /\ Prepared(u, i)' <=> Prepared(u, i)
      /\ Owns(u, i)' <=> Owns(u, i)

(* They depend on the locals of those threads only. *)
LEMMA OthersStay ==
    ASSUME NEW t \in Threads, \A u \in Threads : u # t => thr'[u] = thr[u]
    PROVE  OthersSame(t)
  <1> SUFFICES ASSUME NEW u \in Threads, NEW i \in Infos, u # t
               PROVE  /\ Retiring(u, i)' <=> Retiring(u, i)
                      /\ Sending(u, i, "Upsert")' <=> Sending(u, i, "Upsert")
                      /\ Sending(u, i, "Remove")' <=> Sending(u, i, "Remove")
                      /\ Sees(u, i)' <=> Sees(u, i)
                      /\ Prepared(u, i)' <=> Prepared(u, i)
                      /\ Owns(u, i)' <=> Owns(u, i)
    BY Zenon DEF OthersSame
  <1>1. thr'[u] = thr[u]
    OBVIOUS
  <1> QED
    BY <1>1 DEF Retiring, Sending, Sees, Prepared, Owns

(* A step of thread t that changes nothing but its locals keeps LifeInv if  *)
(* what it sees and prepares is known.                                     *)
LEMMA LocalStep ==
    ASSUME TypeInv, LifeInv, NEW t \in Threads, OthersSame(t),
           UNCHANGED <<bucket, retired, admitted, write_op_ch, allocs, m>>,
           \A i \in Infos :
             /\ Retiring(t, i)' <=> Retiring(t, i)
             /\ Sending(t, i, "Upsert")' <=> Sending(t, i, "Upsert")
             /\ Sending(t, i, "Remove")' <=> Sending(t, i, "Remove")
             /\ Sees(t, i)' => Known(i)
             /\ Prepared(t, i)' => Known(i)
             /\ Owns(t, i)' => Owns(t, i)
    PROVE  LifeInv' /\ LifeStep
  <1>1. \A i \in Infos :
          /\ Linked(i)' <=> Linked(i)
          /\ Alive(i)' <=> Alive(i)
          /\ Queued(i, "Upsert")' <=> Queued(i, "Upsert")
          /\ Queued(i, "Remove")' <=> Queued(i, "Remove")
          /\ Allocated(i)' <=> Allocated(i)
    BY DEF Linked, Alive, Queued, Allocated
  <1>2. \A u \in Threads, i \in Infos :
          /\ Retiring(u, i)' <=> Retiring(u, i)
          /\ Sending(u, i, "Upsert")' <=> Sending(u, i, "Upsert")
          /\ Sending(u, i, "Remove")' <=> Sending(u, i, "Remove")
    BY DEF OthersSame
  <1>3. \A i \in Infos : Known(i)' <=> Known(i)
    BY SMTT(30), <1>1, <1>2 DEF Known
  <1>4. KnownOK'
    BY SMTT(30), <1>1, <1>2, <1>3 DEF LifeInv, KnownOK, OthersSame
  <1>5. FreshOK'
    BY <1>1, <1>3 DEF LifeInv, FreshOK, OthersSame
  <1>6. RetireOnce' /\ NoOrphan'
    <2>1. UniqueRemoves'
      BY Zenon DEF LifeInv, RetireOnce, UniqueRemoves
    <2>2. \A i \in Infos : /\ Leaving(i)' <=> Leaving(i)
                           /\ \A u \in Threads : Holds(u, i)' <=> Holds(u, i)
      BY SMTT(30), <1>1, <1>2 DEF Leaving, Holds
    <2>3. RetireOnce'
      BY SMTT(30), <1>1, <1>2, <2>1, <2>2 DEF LifeInv, RetireOnce
    <2>4. admitted \subseteq Infos
      BY SMTT(30) DEF TypeInv, TypeOK
    <2> QED BY <1>1, <2>2, <2>3, <2>4 DEF LifeInv, NoOrphan
  <1>7. LifeStep
    BY <1>1, <1>2 DEF LifeStep, KeptAll, Kept, Leaving, Holds
  <1> QED
    BY SMTT(30), <1>4, <1>5, <1>6, <1>7 DEF LifeInv, CandidateOK

(* on_insert creates an EntryInfo nobody knows. *)
LEMMA OnInsertLife ==
    ASSUME TypeInv, LifeInv, NEW t \in Threads, OnInsert(t)
    PROVE  LifeInv' /\ LifeStep
  <1> DEFINE k == thr[t].key
             n == <<k, allocs[k] + 1>>
  <1>0. k \in Keys /\ thr[t].pc = "load" /\ allocs \in [Keys -> 0..MaxAllocs]
           /\ allocs[k] < MaxAllocs /\ admitted \subseteq Infos
    BY ZenonT(30) DEF OnInsert, TypeInv, TypeOK, LocalsOK, ThreadOK
  <1>n. n \in Infos /\ n[2] = allocs[k] + 1 /\ KeyOf(n) = k
    <2>1. allocs[k] \in 0..MaxAllocs
      BY <1>0
    <2>2. allocs[k] + 1 \in 1..MaxAllocs
      BY SMTT(30), <1>0, <2>1, BoundsAssumption
    <2> QED BY <1>0, <2>2 DEF Infos, KeyOf
  <1>m. PICK op : Moves(t, "cas", k, bucket[k], n, op) /\ op.info = n
    <2> DEFINE new == WriteOp("Upsert", n, entry_gen[n], 0, thr[t].weight)
    <2>1. Moves(t, "cas", k, bucket[k], n, new)
      BY Zenon, InsertMoves
    <2>2. new.info = n
      BY Zenon DEF WriteOp
    <2> HIDE DEF new
    <2> QED BY <2>1, <2>2
  <1>b. bucket[k].info = None
    BY DEF OnInsert
  <1>a. \A i \in Infos : /\ Allocated(i) => Allocated(i)'
                         /\ i = n => ~Allocated(i) /\ Allocated(i)'
    <2>1. allocs' = [allocs EXCEPT ![k] = @ + 1]
      BY DEF OnInsert
    <2>2. \A i \in Infos : KeyOf(i) \in Keys /\ i[2] \in Nat /\ allocs[KeyOf(i)] \in Nat
      BY <1>0, BoundsAssumption DEF Infos, KeyOf
    <2> HIDE DEF n, k
    <2> QED BY SMTT(30), <1>0, <1>n, <2>1, <2>2 DEF Allocated
  <1> HIDE DEF n
  <1>t. /\ OthersSame(t)
        /\ \A i \in Infos : /\ ~Retiring(t, i)' /\ ~Sending(t, i, "Upsert")'
                            /\ ~Sending(t, i, "Remove")' /\ ~Sees(t, i)' /\ ~Prepared(t, i)'
                            /\ Owns(t, i)' => i = n
    <2>1. OthersSame(t)
      BY SMTT(30), <1>m, OthersStay DEF Moves
    <2>2. \A i \in Infos : /\ ~Retiring(t, i)' /\ ~Sending(t, i, "Upsert")'
                           /\ ~Sending(t, i, "Remove")' /\ ~Sees(t, i)' /\ ~Prepared(t, i)'
                           /\ Owns(t, i)' => i = n
      BY SMTT(30), <1>m, <1>b, InfosAssumption DEF Moves, Retiring, Sending, Sees, Prepared, Owns, Inserting
    <2> QED BY <2>1, <2>2
  <1>u. \A i \in Infos : ~Retiring(t, i) /\ ~Sending(t, i, "Upsert") /\ ~Sending(t, i, "Remove")
    BY SMTT(30), <1>0 DEF Retiring, Sending
  <1>s. UNCHANGED <<bucket, retired, admitted, write_op_ch, m>>
    BY DEF OnInsert, storeVars, flagVars, chVars, maintVars
  <1>1. \A i \in Infos :
          /\ Linked(i)' <=> Linked(i)
          /\ Alive(i)' <=> Alive(i)
          /\ Queued(i, "Upsert")' <=> Queued(i, "Upsert")
          /\ Queued(i, "Remove")' <=> Queued(i, "Remove")
    BY <1>s DEF Linked, Alive, Queued
  <1>2. \A u \in Threads, i \in Infos :
          /\ Retiring(u, i)' <=> Retiring(u, i)
          /\ Sending(u, i, "Upsert")' <=> Sending(u, i, "Upsert")
          /\ Sending(u, i, "Remove")' <=> Sending(u, i, "Remove")
    BY SMTT(30), <1>t, <1>u DEF OthersSame
  <1>3. \A i \in Infos : Known(i)' <=> Known(i)
    BY SMTT(30), <1>1, <1>2 DEF Known
  <1>4. KnownOK'
    BY SMTT(30), <1>s, <1>t, <1>1, <1>2, <1>3 DEF LifeInv, KnownOK, OthersSame
  <1>5. FreshOK'
    BY <1>a, <1>t, <1>1, <1>3 DEF LifeInv, FreshOK, OthersSame
  <1>6. \A i \in Infos : /\ Leaving(i)' <=> Leaving(i)
                         /\ \A u \in Threads : Holds(u, i)' <=> Holds(u, i)
    BY SMTT(30), <1>s, <1>1, <1>2 DEF Leaving, Holds
  <1>7. UniqueRemoves'
    BY <1>s DEF LifeInv, RetireOnce, UniqueRemoves
  <1>8. RetireOnce'
    BY <1>s, <1>1, <1>2, <1>6, <1>7 DEF LifeInv, RetireOnce
  <1>9. NoOrphan' /\ CandidateOK'
    BY ZenonT(30), <1>s, <1>0, <1>1, <1>6 DEF LifeInv, NoOrphan, CandidateOK
  <1>10. LifeStep
    BY <1>s, <1>1, <1>6 DEF LifeStep, KeptAll, Kept
  <1> QED
    BY SMTT(30), <1>4, <1>5, <1>8, <1>9, <1>10 DEF LifeInv

(* A CAS puts the entry i in the bucket of k.  What i was before decides. *)
LEMMA InsertCasLife ==
    ASSUME TypeInv, BucketsOK, LifeInv, NEW t \in Threads, InsertCas(t)
    PROVE  LifeInv' /\ LifeStep
  <1> DEFINE k == thr[t].key
             op == thr[t].op
             n == IF thr[t].seen.info = None THEN thr[t].own ELSE thr[t].seen.info
  <1>0. k \in Keys /\ thr[t].pc = "cas" /\ thr[t] \in ThreadStates /\ ThreadOK(thr[t])
           /\ admitted \subseteq Infos
    BY Zenon DEF InsertCas, TypeInv, TypeOK, LocalsOK, ThreadOK
  <1>o. op \in WriteOps /\ op.kind = "Upsert" /\ op.info \in Infos
    BY Zenon, <1>0, Defaults DEF ThreadOK, Inserting, WriteOps
  <1>n. n \in Infos /\ KeyOf(n) = k
    BY Zenon, <1>0, InfosAssumption DEF BucketsOK, SeesBucket, ThreadOK, ThreadStates, Buckets
  <1>c. bucket' = [bucket EXCEPT ![k] = [info |-> n, ver |-> @.ver + 1]]
    BY DEF InsertCas
  <1>b. bucket[k].info = thr[t].seen.info
    BY <1>0 DEF InsertCas, BucketsOK, SeesBucket
  <1>d. thr[t].seen.info = None => Owns(t, n)
    BY DEF Owns
  <1>e. thr[t].seen.info # None => thr[t].seen.info = n
    OBVIOUS
  <1>m. Moves(t, "send", None, NoBucket, None, op)
    BY ZenonT(30), InsertMoves
  <1> HIDE DEF n
  <1>l. \A i \in Infos : Linked(i)' <=> Linked(i) \/ i = n
    <2>1. bucket'[k].info = n /\ \A j \in Keys : j # k => bucket'[j] = bucket[j]
      BY Zenon, <1>0, <1>n, <1>c, BucketCas DEF TypeInv
    <2>2. \A i \in Infos : KeyOf(i) \in Keys
      BY KeyOfType
    <2> QED BY <1>b, <1>e, <1>n, <2>1, <2>2, InfosAssumption DEF Linked
  <1>t. /\ OthersSame(t)
        /\ \A i \in Infos : /\ ~Retiring(t, i)' /\ ~Sending(t, i, "Remove")'
                            /\ Sending(t, i, "Upsert")' => i = op.info
                            /\ ~Sees(t, i)' /\ ~Prepared(t, i)' /\ ~Owns(t, i)'
    <2> HIDE DEF op
    <2>1. OthersSame(t)
      BY SMTT(30), <1>m, OthersStay DEF Moves
    <2>2. \A i \in Infos : /\ ~Retiring(t, i)' /\ ~Sending(t, i, "Remove")'
                           /\ Sending(t, i, "Upsert")' => i = op.info
                           /\ ~Sees(t, i)' /\ ~Prepared(t, i)' /\ ~Owns(t, i)'
      BY <1>m, <1>o, InfosAssumption DEF Moves, Retiring, Sending, Sees, Prepared, Owns, Inserting
    <2> QED BY <2>1, <2>2
  <1>u. \A i \in Infos : ~Retiring(t, i) /\ ~Sending(t, i, "Remove")
    BY <1>0 DEF Retiring, Sending
  <1>s. UNCHANGED <<retired, admitted, write_op_ch, allocs, m>>
    BY DEF InsertCas, infoVars, flagVars, chVars, maintVars
  <1>1. \A i \in Infos :
          /\ Alive(i)' <=> Alive(i)
          /\ Queued(i, "Upsert")' <=> Queued(i, "Upsert")
          /\ Queued(i, "Remove")' <=> Queued(i, "Remove")
          /\ Allocated(i)' <=> Allocated(i)
    BY <1>s DEF Alive, Queued, Allocated
  <1>2. \A u \in Threads, i \in Infos :
          /\ Retiring(u, i)' <=> Retiring(u, i)
          /\ Sending(u, i, "Remove")' <=> Sending(u, i, "Remove")
    BY <1>t, <1>u DEF OthersSame
  <1>3. \A i \in Infos : Known(i)' <=> Known(i) \/ i = n
    BY SMTT(30), <1>l, <1>1, <1>2 DEF Known
  (* n was in the bucket already, or nobody knew it. *)
  <1>w. Linked(n) \/ Owns(t, n)
    BY SMTT(30), <1>b, <1>d, <1>e, <1>n DEF Linked
  <1>p. op.info = n \/ Known(op.info)
    <2>1. CASE thr[t].seen.info = None
      <3>1. op.info = thr[t].own \/ Prepared(t, op.info)
        BY SMTT(30), <1>0 DEF Prepared, Inserting
      <3>2. Prepared(t, op.info) => Known(op.info)
        BY <1>o DEF LifeInv, KnownOK
      <3> QED BY <2>1, <3>1, <3>2 DEF n
    <2>2. CASE thr[t].seen.info # None
      BY Zenon, <1>0, <2>2, <1>e DEF ThreadOK
    <2> QED BY <2>1, <2>2
  <1>4. KnownOK'
    <2> HIDE DEF op
    <2> QED BY ZenonT(30), <1>s, <1>t, <1>1, <1>2, <1>3, <1>p, <1>o DEF LifeInv, KnownOK, OthersSame
  <1>5. FreshOK'
    <2>1. \A u \in Threads : u # t => ~Owns(u, n)
      BY <1>w, <1>n DEF LifeInv, FreshOK, Known
    <2>2. Allocated(n)
      BY <1>w, <1>n DEF LifeInv, FreshOK, Known
    <2> QED BY SMTT(30), <1>t, <1>1, <1>3, <1>n, <2>1, <2>2 DEF LifeInv, FreshOK, OthersSame
  <1>6. \A i \in Infos : /\ Leaving(i)' <=> Leaving(i)
                         /\ \A u \in Threads : Holds(u, i)' <=> Holds(u, i)
    BY <1>s, <1>1, <1>2 DEF Leaving, Holds
  <1>7. UniqueRemoves'
    BY Zenon, <1>s DEF LifeInv, RetireOnce, UniqueRemoves
  <1>x. ~Leaving(n) /\ Alive(n)
    <2>1. CASE Linked(n)
      BY <2>1, <1>n DEF LifeInv, RetireOnce
    <2>2. CASE Owns(t, n)
      <3>1. ~Known(n)
        BY SMTT(30), <2>2, <1>n DEF LifeInv, FreshOK
      <3> QED BY Zenon, <3>1, <1>n DEF LifeInv, RetireOnce, KnownOK, Known, Leaving, Holds
    <2> QED BY <1>w, <2>1, <2>2
  <1>8. RetireOnce'
    BY SMTT(30), <1>s, <1>l, <1>n, <1>x, <1>1, <1>2, <1>6, <1>7 DEF LifeInv, RetireOnce
  <1>9. NoOrphan' /\ CandidateOK'
    BY Zenon, <1>s, <1>0, <1>l, <1>6 DEF LifeInv, NoOrphan, CandidateOK
  <1>10. LifeStep
    <2>1. CASE Linked(n)
      BY SMTT(30), <2>1, <1>s, <1>l, <1>1, <1>6 DEF LifeStep, KeptAll, Kept
    <2>2. CASE ~Linked(n)
      <3>1. thr[t].seen.info = None
        BY SMTT(30), <2>2, <1>b, <1>e, <1>n DEF Linked
      <3>2. \A i \in Infos : KeyOf(i) = KeyOf(n) => ~Linked(i)
        BY <3>1, <1>b, <1>n, InfosAssumption DEF Linked
      <3>3. PICK c \in Infos : c = n
        BY <1>n
      <3>4. Links(c)
        BY SMTT(30), <2>2, <3>2, <3>3, <1>s, <1>l, <1>x DEF Links
      <3>5. ASSUME NEW i \in Infos, i # c PROVE Kept(i)
        BY <3>3, <3>5, <1>l, <1>1, <1>6 DEF Kept
      <3> QED BY <3>4, <3>5 DEF LifeStep
    <2> QED BY SMTT(30), <2>1, <2>2
  <1> QED
    BY SMTT(30), <1>4, <1>5, <1>8, <1>9, <1>10 DEF LifeInv

(* A send adds one WriteOp. *)
LEMMA QueueAppend ==
    ASSUME TypeOK, NEW op \in WriteOps, write_op_ch' = Append(write_op_ch, op)
    PROVE  /\ \A i \in Infos :
                /\ Queued(i, "Upsert")' <=> Queued(i, "Upsert") \/ (op.info = i /\ op.kind = "Upsert")
                /\ Queued(i, "Remove")' <=> Queued(i, "Remove") \/ (op.info = i /\ op.kind = "Remove")
           /\ UniqueRemoves /\ (op.kind = "Remove" => ~Queued(op.info, "Remove")) => UniqueRemoves'
  <1>0. write_op_ch \in Seq(WriteOps) /\ Len(write_op_ch) \in Nat
    BY DEF TypeOK
  <1>a. \A q \in Seq(WriteOps) :
          /\ Len(Append(q, op)) = Len(q) + 1
          /\ \A p \in 1..Len(q) : Append(q, op)[p] = q[p]
          /\ Append(q, op)[Len(q) + 1] = op
    OBVIOUS
  <1>1. /\ Len(write_op_ch') = Len(write_op_ch) + 1
        /\ \A p \in 1..Len(write_op_ch) : write_op_ch'[p] = write_op_ch[p]
        /\ write_op_ch'[Len(write_op_ch) + 1] = op
    BY <1>0, <1>a
  <1>2. \A p \in 1..Len(write_op_ch') : p \in 1..Len(write_op_ch) \/ p = Len(write_op_ch) + 1
    BY <1>0, <1>1
  <1>3. 1..Len(write_op_ch) \subseteq 1..Len(write_op_ch') /\ Len(write_op_ch) + 1 \in 1..Len(write_op_ch')
    BY <1>0, <1>1
  <1>4. ASSUME NEW kind PROVE \A i \in Infos :
          Queued(i, kind)' <=> Queued(i, kind) \/ (op.info = i /\ op.kind = kind)
    BY SMTT(30), <1>1, <1>2, <1>3 DEF Queued
  <1>5. ASSUME UniqueRemoves, op.kind = "Remove" => ~Queued(op.info, "Remove") PROVE UniqueRemoves'
    BY SMTT(30), <1>1, <1>2, <1>3, <1>5 DEF UniqueRemoves, Queued
  <1> QED
    BY <1>4, <1>5

(* The receiver takes the oldest WriteOp. *)
LEMMA QueueTail ==
    ASSUME TypeOK, write_op_ch # <<>>, write_op_ch' = Tail(write_op_ch)
    PROVE  LET op == Head(write_op_ch) IN
           /\ op \in WriteOps
           /\ Queued(op.info, op.kind)
           /\ \A i \in Infos :
                /\ Queued(i, "Upsert")' => Queued(i, "Upsert")
                /\ Queued(i, "Remove")' => Queued(i, "Remove")
                /\ Queued(i, "Remove") => Queued(i, "Remove")' \/ (op.info = i /\ op.kind = "Remove")
           /\ UniqueRemoves => UniqueRemoves'
           /\ UniqueRemoves /\ op.kind = "Remove" =>
                \A i \in Infos : op.info = i => ~Queued(i, "Remove")'
  <1> DEFINE op == Head(write_op_ch)
             n == Len(write_op_ch)
  <1>0. write_op_ch \in Seq(WriteOps) /\ n \in Nat \ {0}
    BY DEF TypeOK
  <1>1. /\ op = write_op_ch[1]
        /\ op \in WriteOps
        /\ Len(write_op_ch') = n - 1
        /\ \A p \in 1..(n - 1) : write_op_ch'[p] = write_op_ch[p + 1]
    BY <1>0
  <1>2. \A p \in 1..(n - 1) : p + 1 \in 1..n /\ p + 1 # 1
    BY <1>0
  <1>3. \A p \in 1..n : p = 1 \/ (p - 1 \in 1..(n - 1) /\ (p - 1) + 1 = p)
    BY <1>0
  <1>4. 1 \in 1..n
    BY <1>0
  <1> HIDE DEF op
  <1>5. Queued(op.info, op.kind)
    BY <1>1, <1>4 DEF Queued
  <1>6. ASSUME NEW kind, NEW i \in Infos, Queued(i, kind)' PROVE Queued(i, kind)
    BY SMTT(30), <1>6, <1>1, <1>2 DEF Queued
  <1>7. ASSUME NEW i \in Infos, Queued(i, "Remove"), ~(op.info = i /\ op.kind = "Remove")
        PROVE  Queued(i, "Remove")'
    BY SMTT(30), <1>7, <1>1, <1>3 DEF Queued
  <1>8. ASSUME UniqueRemoves PROVE UniqueRemoves'
    <2>1. ASSUME NEW p \in 1..(n - 1), NEW q \in 1..(n - 1), p + 1 = q + 1 PROVE p = q
      BY <2>1, <1>0
    <2> QED BY <1>8, <1>1, <1>2, <2>1 DEF UniqueRemoves
  <1>9. ASSUME UniqueRemoves, op.kind = "Remove", NEW i \in Infos, op.info = i
        PROVE  ~Queued(i, "Remove")'
    <2>1. ASSUME NEW p \in 1..(n - 1), write_op_ch'[p].kind = "Remove", write_op_ch'[p].info = i
          PROVE  FALSE
      <3>1. write_op_ch[p + 1].kind = "Remove" /\ write_op_ch[p + 1].info = write_op_ch[1].info
        BY <1>1, <1>9, <2>1
      <3> QED BY SMTT(30), <1>1, <1>2, <1>4, <1>9, <3>1 DEF UniqueRemoves
    <2> QED BY <1>1, <2>1 DEF Queued
  <1> QED
    BY SMTT(30), <1>1, <1>5, <1>6, <1>7, <1>8, <1>9 DEF op

(* A WriteOp moves from its thread to the channel. *)
LEMMA ScheduleWriteOpLife ==
    ASSUME TypeInv, LifeInv, NEW t \in Threads, ScheduleWriteOp(t)
    PROVE  LifeInv' /\ LifeStep
  <1> DEFINE op == thr[t].op
  <1>0. op \in WriteOps /\ op.info \in Infos /\ op.kind \in {"Upsert", "Remove"}
           /\ admitted \subseteq Infos /\ TypeOK
    BY Zenon DEF ScheduleWriteOp, TypeInv, TypeOK, LocalsOK, ThreadOK, WriteOps
  <1>m. Moves(t, "idle", None, NoBucket, None, NoOp)
    BY Ends
  <1>t. /\ OthersSame(t)
        /\ \A i \in Infos : /\ ~Retiring(t, i)' /\ ~Sending(t, i, "Remove")'
                            /\ ~Sending(t, i, "Upsert")'
                            /\ ~Sees(t, i)' /\ ~Prepared(t, i)' /\ ~Owns(t, i)'
    <2>1. OthersSame(t)
      BY <1>m, OthersStay DEF Moves
    <2>2. \A i \in Infos : /\ ~Retiring(t, i)' /\ ~Sending(t, i, "Remove")'
                           /\ ~Sending(t, i, "Upsert")'
                           /\ ~Sees(t, i)' /\ ~Prepared(t, i)' /\ ~Owns(t, i)'
      BY ZenonT(30), <1>m, InfosAssumption DEF Moves, Retiring, Sending, Sees, Prepared, Owns, Inserting
    <2> QED BY SMTT(30), <2>1, <2>2
  <1>u. \A i \in Infos : /\ ~Retiring(t, i)
                         /\ Sending(t, i, "Remove") <=> op.info = i /\ op.kind = "Remove"
                         /\ Sending(t, i, "Upsert") <=> op.info = i /\ op.kind = "Upsert"
    BY DEF Retiring, Sending, ScheduleWriteOp
  <1>s. UNCHANGED <<bucket, retired, admitted, allocs, m>>
    BY DEF ScheduleWriteOp, storeVars, infoVars, flagVars, maintVars
  <1>q. /\ \A i \in Infos :
             /\ Queued(i, "Upsert")' <=> Queued(i, "Upsert") \/ Sending(t, i, "Upsert")
             /\ Queued(i, "Remove")' <=> Queued(i, "Remove") \/ Sending(t, i, "Remove")
        /\ UniqueRemoves'
    <2>1. op.kind = "Remove" => ~Queued(op.info, "Remove")
      BY ZenonT(30), <1>0, <1>u DEF LifeInv, RetireOnce, Holds
    <2>2. write_op_ch' = Append(write_op_ch, op) /\ UniqueRemoves
      BY SMTT(30) DEF ScheduleWriteOp, LifeInv, RetireOnce
    <2> HIDE DEF op
    <2> QED BY <1>0, <1>u, <2>1, <2>2, QueueAppend
  <1> HIDE DEF op
  <1>1. \A i \in Infos :
          /\ Linked(i)' <=> Linked(i)
          /\ Alive(i)' <=> Alive(i)
          /\ Allocated(i)' <=> Allocated(i)
    BY SMTT(30), <1>s DEF Linked, Alive, Allocated
  <1>2. \A u \in Threads, i \in Infos :
          /\ Retiring(u, i)' <=> Retiring(u, i)
          /\ Sending(u, i, "Upsert")' <=> Sending(u, i, "Upsert") /\ u # t
          /\ Sending(u, i, "Remove")' <=> Sending(u, i, "Remove") /\ u # t
    BY <1>t, <1>u DEF OthersSame
  <1>3. \A i \in Infos : Known(i)' <=> Known(i)
    BY <1>1, <1>2 DEF Known
  <1>4. KnownOK'
    BY ZenonT(30), <1>s, <1>t, <1>q, <1>1, <1>2, <1>3 DEF LifeInv, KnownOK, OthersSame
  <1>5. FreshOK'
    <2>1. \A u \in Threads, i \in Infos : Owns(u, i)' => Owns(u, i)
      BY Zenon, <1>t DEF OthersSame
    <2> QED BY Zenon, <1>1, <1>3, <2>1 DEF LifeInv, FreshOK
  <1>6. \A i \in Infos : Leaving(i)' <=> Leaving(i)
    BY SMTT(30), <1>s, <1>q, <1>1, <1>2 DEF Leaving, Holds
  <1>7. \A i \in Infos : \A u \in Threads : Holds(u, i)' <=> Holds(u, i) /\ ~(u = t /\ Sending(t, i, "Remove"))
    BY <1>u, <1>2 DEF Holds
  <1>8. RetireOnce'
    <2>1. \A i \in Infos : Sending(t, i, "Remove") => Holds(t, i)
      BY DEF Holds
    <2> QED BY ZenonT(30), <1>s, <1>q, <1>1, <1>2, <1>6, <1>7, <2>1 DEF LifeInv, RetireOnce
  <1>9. NoOrphan' /\ CandidateOK'
    BY ZenonT(30), <1>s, <1>0, <1>1, <1>6 DEF LifeInv, NoOrphan, CandidateOK
  <1>10. LifeStep
    BY <1>s, <1>1, <1>6 DEF LifeStep, KeptAll, Kept
  <1> QED
    BY SMTT(30), <1>4, <1>5, <1>8, <1>9, <1>10 DEF LifeInv

(* The CAS of remove_entry makes its thread the holder of the entry. *)
LEMMA RemoveCasLife ==
    ASSUME TypeInv, BucketsOK, LifeInv, NEW t \in Threads, RemoveCas(t)
    PROVE  LifeInv' /\ LifeStep
  <1> DEFINE k == thr[t].key
             n == bucket[k].info
  <1>0. k \in Keys /\ thr[t].pc = "remove" /\ thr[t].own = None
           /\ admitted \subseteq Infos /\ TypeOK
    BY Zenon DEF RemoveCas, TypeInv, TypeOK, LocalsOK, ThreadOK, Inserting
  <1>n. n \in Infos /\ KeyOf(n) = k
    BY <1>0 DEF RemoveCas, TypeOK, Buckets, BucketsOK
  <1>c. bucket' = [bucket EXCEPT ![k] = [info |-> None, ver |-> @.ver + 1]]
    BY DEF RemoveCas
  <1>m. Moves(t, "retire", k, bucket[k], None, thr[t].op)
    BY Zenon, <1>0, RemoveMoves
  <1>l. \A i \in Infos : Linked(i)' <=> Linked(i) /\ i # n
    <2>1. bucket'[k].info = None /\ \A j \in Keys : j # k => bucket'[j] = bucket[j]
      BY Zenon, <1>0, <1>c, BucketCas
    <2>2. \A i \in Infos : KeyOf(i) \in Keys
      BY KeyOfType
    <2> QED BY Zenon, <1>n, <2>1, <2>2, InfosAssumption DEF Linked
  <1>x. Linked(n)
    BY <1>n DEF Linked
  <1>t. /\ OthersSame(t)
        /\ \A i \in Infos : /\ Retiring(t, i)' <=> i = n
                            /\ ~Sending(t, i, "Remove")' /\ ~Sending(t, i, "Upsert")'
                            /\ ~Sees(t, i)' /\ ~Prepared(t, i)' /\ ~Owns(t, i)'
    <2>1. OthersSame(t)
      BY <1>m, OthersStay DEF Moves
    <2>2. \A i \in Infos : /\ Retiring(t, i)' <=> i = n
                           /\ ~Sending(t, i, "Remove")' /\ ~Sending(t, i, "Upsert")'
                           /\ ~Sees(t, i)' /\ ~Prepared(t, i)' /\ ~Owns(t, i)'
      BY ZenonT(30), <1>m, InfosAssumption DEF Moves, Retiring, Sending, Sees, Prepared, Owns, Inserting
    <2> QED BY ZenonT(30), <2>1, <2>2
  <1>u. \A i \in Infos : /\ ~Retiring(t, i)
                         /\ ~Sending(t, i, "Remove")
                         /\ ~Sending(t, i, "Upsert")
    BY <1>0 DEF Retiring, Sending
  <1>s. UNCHANGED <<retired, admitted, write_op_ch, allocs, m>>
    BY SMTT(30) DEF RemoveCas, infoVars, flagVars, chVars, maintVars
  <1> HIDE DEF n
  <1>1. \A i \in Infos :
          /\ Alive(i)' <=> Alive(i)
          /\ Queued(i, "Upsert")' <=> Queued(i, "Upsert")
          /\ Queued(i, "Remove")' <=> Queued(i, "Remove")
          /\ Allocated(i)' <=> Allocated(i)
    BY <1>s DEF Alive, Queued, Allocated
  <1>2. \A u \in Threads, i \in Infos :
          /\ Retiring(u, i)' <=> Retiring(u, i) \/ (u = t /\ i = n)
          /\ Sending(u, i, "Upsert")' <=> Sending(u, i, "Upsert")
          /\ Sending(u, i, "Remove")' <=> Sending(u, i, "Remove")
    BY <1>t, <1>u DEF OthersSame
  <1>3. \A i \in Infos : Known(i)' <=> Known(i)
    BY <1>l, <1>x, <1>1, <1>2 DEF Known
  <1>4. KnownOK'
    BY Zenon, <1>s, <1>t, <1>1, <1>2, <1>3 DEF LifeInv, KnownOK, OthersSame
  <1>5. FreshOK'
    <2>1. \A u \in Threads, i \in Infos : Owns(u, i)' => Owns(u, i)
      BY Zenon, <1>t DEF OthersSame
    <2> QED BY Zenon, <1>1, <1>3, <2>1 DEF LifeInv, FreshOK
  <1>6. \A i \in Infos : Leaving(i)' <=> Leaving(i) \/ i = n
    BY <1>s, <1>1, <1>2 DEF Leaving, Holds
  <1>7. \A i \in Infos : \A u \in Threads : Holds(u, i)' <=> Holds(u, i) \/ (u = t /\ i = n)
    BY SMTT(30), <1>2 DEF Holds
  <1>8. RetireOnce'
    <2>1. Alive(n) /\ ~Queued(n, "Remove") /\ m.removed # n /\ \A u \in Threads : ~Holds(u, n)
      BY <1>n, <1>x DEF LifeInv, RetireOnce, Leaving
    <2>2. UniqueRemoves'
      BY ZenonT(30), <1>s DEF LifeInv, RetireOnce, UniqueRemoves
    <2>3. \A i \in Infos : /\ Leaving(i)' => ~Linked(i)'
                           /\ Linked(i)' => Alive(i)'
      BY SMTT(30), <1>l, <1>1, <1>6 DEF LifeInv, RetireOnce
    <2>4. \A i \in Infos : /\ Queued(i, "Remove")' \/ m'.removed = i => ~Alive(i)'
                           /\ Queued(i, "Remove")' => m'.removed # i
      BY SMTT(30), <1>s, <1>1 DEF LifeInv, RetireOnce
    <2>5. \A i \in Infos : \A u \in Threads :
            /\ Retiring(u, i)' => Alive(i)'
            /\ Sending(u, i, "Remove")' => ~Alive(i)'
      BY SMTT(30), <1>1, <1>2, <2>1 DEF LifeInv, RetireOnce
    <2>6. \A i \in Infos : \A u \in Threads :
            Holds(u, i)' => ~Queued(i, "Remove")' /\ m'.removed # i
      BY SMTT(30), <1>s, <1>1, <1>7, <2>1 DEF LifeInv, RetireOnce
    <2>7. \A i \in Infos : \A u, v \in Threads : Holds(u, i)' /\ Holds(v, i)' => u = v
      BY <1>7, <2>1 DEF LifeInv, RetireOnce
    <2> QED BY SMTT(30), <2>2, <2>3, <2>4, <2>5, <2>6, <2>7 DEF RetireOnce
  <1>9. NoOrphan' /\ CandidateOK'
    BY Zenon, <1>s, <1>0, <1>l, <1>6 DEF LifeInv, NoOrphan, CandidateOK
  <1>10. LifeStep
    <2>1. PICK c \in Infos : c = n
      BY <1>n
    <2>2. LeavesCht(c)
      BY SMTT(30), <2>1, <1>s, <1>l, <1>x, <1>6 DEF LeavesCht
    <2>3. ASSUME NEW i \in Infos, i # c PROVE Kept(i)
      BY SMTT(30), <2>1, <2>3, <1>l, <1>1, <1>6 DEF Kept
    <2> QED BY <2>2, <2>3 DEF LifeStep
  <1> QED
    BY SMTT(30), <1>4, <1>5, <1>8, <1>9, <1>10 DEF LifeInv

(* The holder retires the entry and keeps holding it for its WriteOp. *)
LEMMA RemoveRetireLife ==
    ASSUME TypeInv, LifeInv, NEW t \in Threads, RemoveRetire(t)
    PROVE  LifeInv' /\ LifeStep
  <1> DEFINE n == thr[t].seen.info
  <1>0. n \in Infos /\ thr[t].pc = "retire" /\ thr[t].own = None /\ admitted \subseteq Infos
    BY Zenon DEF RemoveRetire, TypeInv, TypeOK, LocalsOK, ThreadOK, Inserting
  <1>m. PICK key, seen, op : Moves(t, "incr", key, seen, None, op) /\ seen.info = n
    BY Zenon, <1>0, RemoveMoves
  <1>u. \A i \in Infos : /\ Retiring(t, i) <=> i = n
                         /\ ~Sending(t, i, "Remove")
                         /\ ~Sending(t, i, "Upsert")
    BY Zenon, <1>0 DEF Retiring, Sending
  <1>s. UNCHANGED <<bucket, admitted, write_op_ch, allocs, m>> /\ retired' = retired \cup {n}
    BY DEF RemoveRetire, storeVars, infoVars, chVars, maintVars
  <1> HIDE DEF n
  <1>t. /\ OthersSame(t)
        /\ \A i \in Infos : /\ ~Retiring(t, i)' /\ ~Sending(t, i, "Upsert")'
                            /\ Sending(t, i, "Remove")' <=> i = n
                            /\ ~Sees(t, i)' /\ ~Prepared(t, i)' /\ ~Owns(t, i)'
    <2>1. OthersSame(t)
      BY Zenon, <1>m, OthersStay DEF Moves
    <2>2. \A i \in Infos : /\ ~Retiring(t, i)' /\ ~Sending(t, i, "Upsert")'
                           /\ Sending(t, i, "Remove")' <=> i = n
                           /\ ~Sees(t, i)' /\ ~Prepared(t, i)' /\ ~Owns(t, i)'
      BY Zenon, <1>m, InfosAssumption DEF Moves, Retiring, Sending, Sees, Prepared, Owns, Inserting
    <2> QED BY <2>1, <2>2
  <1>1. \A i \in Infos :
          /\ Linked(i)' <=> Linked(i)
          /\ Alive(i)' <=> Alive(i) /\ i # n
          /\ Queued(i, "Upsert")' <=> Queued(i, "Upsert")
          /\ Queued(i, "Remove")' <=> Queued(i, "Remove")
          /\ Allocated(i)' <=> Allocated(i)
    BY ZenonT(30), <1>s DEF Linked, Alive, Queued, Allocated
  <1>2. \A u \in Threads, i \in Infos :
          /\ Retiring(u, i)' <=> Retiring(u, i) /\ u # t
          /\ Sending(u, i, "Upsert")' <=> Sending(u, i, "Upsert")
          /\ Sending(u, i, "Remove")' <=> Sending(u, i, "Remove") \/ (u = t /\ i = n)
    BY SMTT(30), <1>t, <1>u DEF OthersSame
  <1>3. \A i \in Infos : Known(i)' <=> Known(i)
    BY <1>u, <1>1, <1>2 DEF Known
  <1>4. KnownOK'
    <2>1. Known(n)
      BY Zenon, <1>0, <1>u DEF Known
    <2> QED BY ZenonT(30), <1>s, <1>t, <1>1, <1>2, <1>3, <2>1 DEF LifeInv, KnownOK, OthersSame
  <1>5. FreshOK'
    <2>1. \A u \in Threads, i \in Infos : Owns(u, i)' => Owns(u, i)
      BY Zenon, <1>t DEF OthersSame
    <2> QED BY Zenon, <1>1, <1>3, <2>1 DEF LifeInv, FreshOK
  <1>6. \A i \in Infos : \A u \in Threads : Holds(u, i)' <=> Holds(u, i)
    BY <1>u, <1>2 DEF Holds
  <1>7. \A i \in Infos : Leaving(i)' <=> Leaving(i)
    BY SMTT(30), <1>s, <1>1, <1>6 DEF Leaving
  <1>8. RetireOnce'
    <2>1. Holds(t, n) /\ Leaving(n)
      BY Zenon, <1>0, <1>u DEF Holds, Leaving
    <2>2. ~Linked(n) /\ \A u \in Threads : Retiring(u, n) => u = t
      BY Zenon, <1>0, <2>1 DEF LifeInv, RetireOnce, Holds
    <2>3. UniqueRemoves'
      BY ZenonT(30), <1>s DEF LifeInv, RetireOnce, UniqueRemoves
    <2>4. ASSUME NEW i \in Infos
          PROVE  /\ Leaving(i)' => ~Linked(i)'
                 /\ Linked(i)' => Alive(i)'
                 /\ Queued(i, "Remove")' \/ m'.removed = i => ~Alive(i)'
                 /\ Queued(i, "Remove")' => m'.removed # i
      BY SMTT(30), <1>s, <1>1, <1>7, <2>2 DEF LifeInv, RetireOnce
    <2>5. ASSUME NEW i \in Infos, NEW u \in Threads
          PROVE  /\ Retiring(u, i)' => Alive(i)'
                 /\ Sending(u, i, "Remove")' => ~Alive(i)'
      BY SMTT(30), <1>1, <1>2, <2>2 DEF LifeInv, RetireOnce
    <2>6. ASSUME NEW i \in Infos, NEW u \in Threads
          PROVE  /\ Holds(u, i)' => ~Queued(i, "Remove")' /\ m'.removed # i
                 /\ \A v \in Threads : Holds(u, i)' /\ Holds(v, i)' => u = v
      BY <1>s, <1>1, <1>6 DEF LifeInv, RetireOnce
    <2> QED BY <2>3, <2>4, <2>5, <2>6 DEF RetireOnce
  <1>9. NoOrphan' /\ CandidateOK'
    BY ZenonT(30), <1>s, <1>0, <1>1, <1>7 DEF LifeInv, NoOrphan, CandidateOK
  <1>10. LifeStep
    <2>1. Leaving(n)
      BY ZenonT(30), <1>0, <1>u DEF Holds, Leaving
    <2> QED BY <1>s, <1>1, <1>7, <2>1 DEF LifeStep, KeptAll, Kept
  <1> QED
    BY SMTT(30), <1>4, <1>5, <1>8, <1>9, <1>10 DEF LifeInv

(* Whatever a user thread does keeps LifeInv. *)
LEMMA UserLife ==
    ASSUME TypeInv, BucketsOK, LifeInv, NEW t \in Threads, UserStep(t)
    PROVE  LifeInv' /\ LifeStep
  <1> USE DEF storeVars, infoVars, flagVars, chVars, maintVars
  <1> DEFINE Frame == UNCHANGED <<bucket, retired, admitted, write_op_ch, allocs, m>>
             Calm == \A i \in Infos : /\ ~Retiring(t, i)
                                      /\ ~Sending(t, i, "Upsert")
                                      /\ ~Sending(t, i, "Remove")
             Others == \A u \in Threads : u # t => thr'[u] = thr[u]
  <1>t. thr[t] \in ThreadStates /\ ThreadOK(thr[t])
    BY SMTT(30) DEF TypeInv, TypeOK, LocalsOK
  <1>c. thr[t].pc \notin {"retire", "incr", "send"} => Calm
    BY DEF Retiring, Sending
  (* Steps of a thread that inserts nothing. *)
  <1>a. ASSUME Frame, Calm, Others, thr'[t].own = None, thr'[t].op = NoOp,
               thr'[t].pc \notin {"retire", "incr", "send", "modify", "cas"}
        PROVE  LifeInv' /\ LifeStep
    <2>1. OthersSame(t)
      BY Zenon, <1>a, OthersStay
    <2>2. \A i \in Infos : /\ ~Retiring(t, i)' /\ ~Sending(t, i, "Upsert")'
                           /\ ~Sending(t, i, "Remove")' /\ ~Sees(t, i)'
                           /\ ~Prepared(t, i)' /\ ~Owns(t, i)'
      BY Zenon, <1>a, Defaults, InfosAssumption DEF Retiring, Sending, Sees, Prepared, Owns
    <2> QED BY Zenon, <1>a, <2>1, <2>2, LocalStep
  (* Steps of an insertion that keep what it owns. *)
  <1>b. ASSUME Frame, Calm, Others, thr'[t].own = thr[t].own, thr'[t].pc \in Inserting,
               \A i \in Infos : Sees(t, i)' => Known(i),
               \A i \in Infos : thr'[t].op.info = i /\ thr[t].own # i => Known(i)
        PROVE  LifeInv' /\ LifeStep
    <2>1. OthersSame(t)
      BY Zenon, <1>b, OthersStay
    <2>2. \A i \in Infos : /\ ~Retiring(t, i)' /\ ~Sending(t, i, "Upsert")'
                           /\ ~Sending(t, i, "Remove")'
                           /\ Sees(t, i)' => Known(i)
                           /\ Prepared(t, i)' => Known(i)
                           /\ Owns(t, i)' => Owns(t, i)
      BY Zenon, <1>b DEF Retiring, Sending, Prepared, Owns, Inserting
    <2> QED BY Zenon, <1>b, <2>1, <2>2, LocalStep
  <1>p. thr[t].pc \in Inserting => \A i \in Infos : thr[t].op.info = i /\ thr[t].own # i => Known(i)
    BY Zenon DEF LifeInv, KnownOK, Prepared
  <1>1. ASSUME NEW k \in Keys, NEW w \in Weights, InsertStart(t, k, w) PROVE LifeInv' /\ LifeStep
    <2>1. Moves(t, "load", k, NoBucket, None, NoOp) /\ Frame /\ Calm
      BY Zenon, <1>1, <1>c, Starts DEF InsertStart
    <2> QED BY Zenon, <2>1, <1>a DEF Moves
  <1>2. ASSUME NEW k \in Keys, RemoveStart(t, k) PROVE LifeInv' /\ LifeStep
    <2>1. PICK pc \in {"lock", "remove"} : Moves(t, pc, k, NoBucket, None, NoOp)
      BY <1>2, Starts
    <2>2. Frame /\ Calm
      BY <1>2, <1>c DEF RemoveStart
    <2> QED BY ZenonT(30), <2>1, <2>2, <1>a DEF Moves
  <1>3. ASSUME NEW k \in Keys, NEW ts \in 0..now, GetFound(t, k, ts) PROVE LifeInv' /\ LifeStep
    <2>1. PICK pc \in {"touch", "record"} : Moves(t, pc, k, bucket[k], None, NoOp)
      BY <1>3, Starts
    <2>2. Frame /\ Calm
      BY <1>3, <1>c DEF GetFound
    <2> QED BY ZenonT(30), <2>1, <2>2, <1>a DEF Moves
  <1>4. CASE RemoveMiss(t) \/ RecordReadOp(t)
    <2>1. Moves(t, "idle", None, NoBucket, None, NoOp) /\ Frame /\ Calm
      BY Zenon, <1>4, <1>c, Ends DEF RemoveMiss, RecordReadOp
    <2> QED BY Zenon, <2>1, <1>a DEF Moves
  <1>5. CASE InsertFound(t) \/ InsertAgain(t)
    <2> DEFINE k == thr[t].key
    <2>0. thr[t].pc = "load" /\ Frame /\ Calm
      BY <1>5, <1>c DEF InsertFound, InsertAgain
    <2>k. k \in Keys
      BY Zenon, <2>0, <1>t DEF ThreadOK
    <2>1. PICK pc \in {"modify", "cas"} : Moves(t, pc, k, bucket[k], thr[t].own, thr[t].op)
      BY Zenon, <1>5, InsertMoves
    <2>2. \A i \in Infos : bucket[k].info = i => Known(i)
      BY Zenon, <2>k, InfosAssumption DEF BucketsOK, Known, Linked
    <2>3. \A i \in Infos : thr[t].op.info = i /\ thr[t].own # i => Known(i)
      BY ZenonT(30), <2>0, <1>p DEF Inserting
    <2>4. /\ Others /\ thr'[t].own = thr[t].own /\ thr'[t].pc \in Inserting
          /\ thr'[t].op = thr[t].op /\ thr'[t].seen = bucket[k]
      BY <2>1 DEF Moves, Inserting
    <2>5. \A i \in Infos : Sees(t, i)' => Known(i)
      BY Zenon, <2>2, <2>4 DEF Sees
    <2> QED BY ZenonT(30), <2>0, <2>3, <2>4, <2>5, <1>b
  <1>6. CASE OnInsert(t)
    BY <1>6, OnInsertLife
  <1>7. CASE OnModify(t)
    <2> DEFINE n == thr[t].seen.info
    <2>0. thr[t].pc = "modify" /\ Frame /\ Calm
      BY <1>7, <1>c DEF OnModify
    <2>1. PICK op : Moves(t, "cas", thr[t].key, thr[t].seen, thr[t].own, op) /\ op.info = n
      <3> DEFINE op == WriteOp("Upsert", n, entry_gen'[n], policy_weight[n], thr[t].weight)
      <3>1. Moves(t, "cas", thr[t].key, thr[t].seen, thr[t].own, op)
        BY Zenon, <1>7, InsertMoves
      <3>2. op.info = n
        BY Zenon DEF WriteOp
      <3> HIDE DEF op
      <3> QED BY Zenon, <3>1, <3>2
    <2>2. \A i \in Infos : thr[t].seen.info = i => Known(i)
      BY ZenonT(30), <2>0 DEF LifeInv, KnownOK, Sees
    <2>3. /\ Others /\ thr'[t].own = thr[t].own /\ thr'[t].pc \in Inserting
          /\ thr'[t].op.info = n /\ thr'[t].seen.info = n
      BY SMTT(30), <2>1 DEF Moves, Inserting
    <2>4. \A i \in Infos : Sees(t, i)' => Known(i)
      BY <2>2, <2>3 DEF Sees
    <2> QED BY ZenonT(30), <2>0, <2>2, <2>3, <2>4, <1>b
  <1>8. CASE InsertCas(t)
    BY <1>8, InsertCasLife
  <1>9. CASE InsertCasFail(t)
    <2>0. thr[t].pc = "cas" /\ Frame /\ Calm
      BY <1>9, <1>c DEF InsertCasFail
    <2>1. Moves(t, "load", thr[t].key, NoBucket, thr[t].own, thr[t].op)
      BY Zenon, <1>9, InsertMoves
    <2>2. /\ Others /\ thr'[t].own = thr[t].own /\ thr'[t].pc = "load"
          /\ thr'[t].op = thr[t].op
      BY Zenon, <2>1 DEF Moves
    <2>3. \A i \in Infos : ~Sees(t, i)'
      BY <2>2 DEF Sees
    <2>4. thr'[t].pc \in Inserting /\ thr[t].pc \in Inserting
      BY Zenon, <2>0, <2>2 DEF Inserting
    <2> QED BY ZenonT(30), <2>0, <2>2, <2>3, <2>4, <1>p, <1>b
  <1>10. CASE ScheduleWriteOp(t)
    BY <1>10, ScheduleWriteOpLife
  <1>11. CASE RemoveLock(t) \/ GetTouch(t)
    <2>0. thr[t].pc \in {"lock", "touch"} /\ Frame /\ Calm
      BY <1>11, <1>c DEF RemoveLock, GetTouch
    <2>o. thr[t].own = None
      BY Zenon, <2>0, <1>t DEF ThreadOK, Inserting
    <2>1. PICK pc \in {"remove", "record"} :
            Moves(t, pc, thr[t].key, thr[t].seen, None, thr[t].op)
      BY Zenon, <1>11, <2>o, RemoveMoves
    <2>2. OthersSame(t)
      BY Zenon, <2>1, OthersStay DEF Moves
    <2>3. \A i \in Infos : /\ ~Retiring(t, i)' /\ ~Sending(t, i, "Upsert")'
                           /\ ~Sending(t, i, "Remove")' /\ ~Sees(t, i)'
                           /\ ~Prepared(t, i)' /\ ~Owns(t, i)'
      BY Zenon, <2>1, InfosAssumption DEF Moves, Retiring, Sending, Sees, Prepared, Owns, Inserting
    <2> QED BY Zenon, <2>0, <2>2, <2>3, LocalStep
  <1>12. CASE RemoveCas(t)
    BY <1>12, RemoveCasLife
  <1>13. CASE RemoveRetire(t)
    BY <1>13, RemoveRetireLife
  <1>14. CASE RemoveIncr(t)
    <2> DEFINE n == thr[t].seen.info
    <2>0. thr[t].pc = "incr" /\ Frame
      BY SMTT(30), <1>14 DEF RemoveIncr
    <2>1. PICK op : Moves(t, "send", None, NoBucket, None, op) /\ op.info = n /\ op.kind = "Remove"
      <3> DEFINE op == WriteOp("Remove", n, entry_gen'[n], 0, 0)
      <3>1. Moves(t, "send", None, NoBucket, None, op)
        BY Zenon, <1>14, RemoveMoves
      <3>2. op.info = n /\ op.kind = "Remove"
        BY Zenon DEF WriteOp
      <3> HIDE DEF op
      <3> QED BY <3>1, <3>2
    <2>2. \A i \in Infos : /\ ~Retiring(t, i) /\ ~Sending(t, i, "Upsert")
                           /\ Sending(t, i, "Remove") <=> n = i
      BY Zenon, <2>0 DEF Retiring, Sending
    <2> HIDE DEF n
    <2>3. OthersSame(t)
      BY Zenon, <2>1, OthersStay DEF Moves
    <2>4. \A i \in Infos : /\ ~Retiring(t, i)' /\ ~Sending(t, i, "Upsert")'
                           /\ Sending(t, i, "Remove")' <=> n = i
                           /\ ~Sees(t, i)' /\ ~Prepared(t, i)' /\ ~Owns(t, i)'
      BY Zenon, <2>1, InfosAssumption DEF Moves, Retiring, Sending, Sees, Prepared, Owns, Inserting
    <2> QED BY Zenon, <2>0, <2>2, <2>3, <2>4, LocalStep
  <1> QED
    BY SMTT(30), <1>1, <1>2, <1>3, <1>4, <1>5, <1>6, <1>7, <1>8, <1>9, <1>10, <1>11, <1>12, <1>13, <1>14
    DEF UserStep

=============================================================================

------------------------- MODULE BaseCacheTracking -------------------------
(***************************************************************************)
(* With key locks no entry escapes the policies: every step of BaseCache    *)
(* preserves TrackInv, for every value of the other constants.              *)
(***************************************************************************)
EXTENDS BaseCacheSteps

-----------------------------------------------------------------------------
(* Steps of user threads: the threads that do not move *)

OthersStand(t) == \A u \in Threads : u # t => thr'[u] = thr[u]

(* What thread u relies on while another task moves. *)
Undisturbed(u) ==
    LET x == thr[u] IN
    /\ x.pc \in Inserting => lock'[x.key] = u
    /\ x.own # None => bucket'[x.key].info = None /\ entry_gen'[x.own] = entry_gen[x.own]
    /\ x.pc = "cas" /\ x.seen.info # None =>
         (bucket'[KeyOf(x.seen.info)].info = x.seen.info =>
            Linked(x.seen.info) /\ entry_gen'[x.seen.info] = entry_gen[x.seen.info])

(* Then its WriteOp stays that of the last change of its entry. *)
LEMMA StandingInsert ==
    ASSUME NEW u \in Threads, InsertOK(u), thr'[u] = thr[u], Undisturbed(u)
    PROVE  InsertOK(u)'
  BY Zenon DEF InsertOK, Undisturbed, Latest, Linked, KeyOf

(* A step that leaves the CHT, the key locks and the generations alone      *)
(* disturbs nobody.                                                        *)
LEMMA QuietUndisturbed ==
    ASSUME NEW u \in Threads, InsertOK(u), UNCHANGED <<bucket, lock, entry_gen>>
    PROVE  Undisturbed(u)
  BY DEF InsertOK, Undisturbed, Linked

(* Two insertions that run at the same time are for different keys. *)
LEMMA InsertsApart ==
    ASSUME TrackInv, NEW t \in Threads, NEW u \in Threads, u # t,
           thr[t].pc \in Inserting, thr[u].pc \in Inserting
    PROVE  thr[u].key # thr[t].key
  BY DEF TrackInv, InsertOK

(* The entry that an insertion has made or found is one of its key. *)
LEMMA InsertLocals ==
    ASSUME TypeInv, BucketsOK, TrackInv, NEW u \in Threads
    PROVE  /\ thr[u].own # None =>
                /\ thr[u].pc \in Inserting
                /\ thr[u].own \in Infos
                /\ bucket[thr[u].key].info = None
                /\ KeyOf(thr[u].own) = thr[u].key
           /\ thr[u].pc = "cas" /\ thr[u].seen.info # None =>
                /\ thr[u].pc \in Inserting
                /\ thr[u].seen.info \in Infos
                /\ KeyOf(thr[u].seen.info) = thr[u].key
  <1>1. thr[u] \in ThreadStates /\ ThreadOK(thr[u]) /\ InsertOK(u)
    BY DEF TypeInv, TypeOK, LocalsOK, TrackInv
  <1>2. ASSUME thr[u].own # None
        PROVE  /\ thr[u].pc \in Inserting
               /\ thr[u].own \in Infos
               /\ bucket[thr[u].key].info = None
               /\ KeyOf(thr[u].own) = thr[u].key
    <2>1. thr[u].pc \in Inserting
      BY <1>1, <1>2 DEF ThreadOK
    <2>2. thr[u].own \in Infos
      BY <1>1, <1>2 DEF ThreadStates
    <2>3. bucket[thr[u].key].info = None
      BY <1>1, <1>2 DEF InsertOK
    <2>4. KeyOf(thr[u].own) = thr[u].key
      BY <1>2 DEF BucketsOK
    <2> QED BY <2>1, <2>2, <2>3, <2>4
  <1>3. ASSUME thr[u].pc = "cas", thr[u].seen.info # None
        PROVE  /\ thr[u].pc \in Inserting
               /\ thr[u].seen.info \in Infos
               /\ KeyOf(thr[u].seen.info) = thr[u].key
    BY <1>1, <1>3 DEF ThreadStates, Buckets, BucketsOK, SeesBucket, Inserting
  <1> QED
    BY <1>2, <1>3

(* A thread that holds no EntryInfo of its own and is not at its CAS only   *)
(* needs the lock of its key.                                              *)
LEMMA FreshThread ==
    ASSUME NEW t \in Threads, thr'[t].own = None, thr'[t].pc # "cas",
           thr'[t].pc \in Inserting => lock'[thr'[t].key] = t
    PROVE  InsertOK(t)'
  BY DEF InsertOK

(* Release gives up the lock of the thread that calls it only, and a lock   *)
(* is taken when nobody holds it.                                          *)
LEMMA LocksKept ==
    ASSUME TypeInv, TrackInv, NEW t \in Threads, NEW u \in Threads, u # t, NEW k \in Keys,
           \/ lock' = Release(k, t)
           \/ lock' = [lock EXCEPT ![k] = t] /\ lock[k] = None,
           thr[u].pc \in Inserting
    PROVE  lock'[thr[u].key] = u
  <1>1. lock[thr[u].key] = u /\ thr[u].key \in Keys
    BY DEF TrackInv, InsertOK, TypeInv, LocalsOK, ThreadOK, Inserting
  <1>2. lock \in [Keys -> Threads \cup {None}] /\ u # None
    BY ThreadsAssumption DEF TypeInv, TypeOK
  <1>3. CASE lock' = Release(k, t)
    BY <1>1, <1>2, <1>3 DEF Release
  <1>4. CASE lock' = [lock EXCEPT ![k] = t] /\ lock[k] = None
    BY SMTT(30), <1>1, <1>2, <1>4
  <1> QED
    BY SMTT(30), <1>3, <1>4

(* An entry stays tracked when a thread moves, if what that thread did for  *)
(* it is taken over.                                                       *)
LEMMA TrackedStep ==
    ASSUME NEW t \in Threads, OthersStand(t), UNCHANGED <<admitted, m>>,
           NEW i \in Infos, Tracked(i),
           Linked(i)' => /\ Linked(i)
                         /\ entry_gen'[i] = entry_gen[i]
                         /\ LatestQueued(i) => LatestQueued(i)'
                         /\ thr[t].pc \in Inserting /\ thr[t].key = KeyOf(i) =>
                              InsertsOf(KeyOf(i))' \/ LatestSent(i)'
                         /\ thr[t].pc = "send" /\ Latest(thr[t].op, i) =>
                              LatestSent(i)' \/ LatestQueued(i)'
    PROVE  Tracked(i)'
  <1> SUFFICES ASSUME Linked(i)', i \notin admitted'
               PROVE  (InsertsOf(KeyOf(i)) \/ LatestQueued(i) \/ LatestSent(i) \/ Latest(m.work, i))'
    BY DEF Tracked
  <1>0. Linked(i) /\ i \notin admitted /\ entry_gen'[i] = entry_gen[i]
    OBVIOUS
  <1>1. CASE InsertsOf(KeyOf(i))
    <2>1. PICK u \in Threads : thr[u].pc \in Inserting /\ thr[u].key = KeyOf(i)
      BY <1>1 DEF InsertsOf
    <2>2. CASE u = t
      BY <2>1, <2>2
    <2>3. CASE u # t
      <3>1. thr'[u] = thr[u]
        BY <2>3 DEF OthersStand
      <3>2. InsertsOf(KeyOf(i))'
        BY <2>1, <3>1 DEF InsertsOf, KeyOf
      <3> QED BY <3>2
    <2> QED BY <2>2, <2>3
  <1>2. CASE LatestQueued(i)
    BY <1>2
  <1>3. CASE LatestSent(i)
    <2>1. PICK u \in Threads : thr[u].pc = "send" /\ Latest(thr[u].op, i)
      BY <1>3 DEF LatestSent
    <2>2. CASE u = t
      BY <2>1, <2>2
    <2>3. CASE u # t
      <3>1. thr'[u] = thr[u]
        BY <2>3 DEF OthersStand
      <3>2. LatestSent(i)'
        BY SMTT(30), <2>1, <3>1, <1>0 DEF LatestSent, Latest
      <3> QED BY <3>2
    <2> QED BY <2>2, <2>3
  <1>4. CASE Latest(m.work, i)
    <2>1. Latest(m.work, i)'
      BY <1>4, <1>0 DEF Latest
    <2> QED BY <2>1
  <1> QED
    BY <1>0, <1>1, <1>2, <1>3, <1>4 DEF Tracked

(* TrackInv after a step of thread t. *)
LEMMA UserTrack ==
    ASSUME TrackInv, NEW t \in Threads, OthersStand(t), InsertOK(t)',
           \A u \in Threads : u # t => Undisturbed(u),
           \A i \in Infos : Tracked(i)'
    PROVE  TrackInv'
  <1>1. ASSUME NEW u \in Threads PROVE InsertOK(u)'
    <2>1. CASE u = t
      BY <2>1
    <2>2. CASE u # t
      BY <2>2, StandingInsert DEF TrackInv, OthersStand
    <2> QED BY <2>1, <2>2
  <1> QED
    BY <1>1 DEF TrackInv

-----------------------------------------------------------------------------
(* Steps of user threads: the thread that moves *)

(* A step of a thread that neither inserts nor sends. *)
LEMMA AsideTrack ==
    ASSUME TypeInv, TrackInv, NEW t \in Threads, OthersStand(t),
           thr[t].pc \notin Inserting \cup {"send"},
           thr'[t].pc \notin Inserting, thr'[t].own \in {None, thr[t].own},
           UNCHANGED <<bucket, entry_gen, admitted, write_op_ch, m>>,
           \A u \in Threads : u # t /\ thr[u].pc \in Inserting => lock'[thr[u].key] = u
    PROVE  TrackInv'
  <1>1. thr'[t].own = None /\ thr'[t].pc # "cas"
    BY DEF TypeInv, LocalsOK, ThreadOK, Inserting
  <1>2. InsertOK(t)'
    BY SMTT(30), <1>1, FreshThread
  <1>3. \A u \in Threads : u # t => Undisturbed(u)
    BY DEF Undisturbed, TrackInv, InsertOK, Linked
  <1>4. ASSUME NEW i \in Infos PROVE Tracked(i)'
    <2>1. Tracked(i)
      BY DEF TrackInv
    <2>2. /\ Linked(i)' <=> Linked(i)
          /\ LatestQueued(i) => LatestQueued(i)'
      BY DEF Linked, LatestQueued, Latest
    <2> QED BY SMTT(30), <2>1, <2>2, TrackedStep
  <1> QED
    BY SMTT(30), <1>2, <1>3, <1>4, UserTrack

(* invalidate and get, but for the CAS and the new generation of a removal. *)
LEMMA AsideSteps ==
    ASSUME KeyLocks, TypeInv, TrackInv, NEW t \in Threads,
           \/ \E k \in Keys : RemoveStart(t, k)
           \/ \E k \in Keys, ts \in 0..now : GetFound(t, k, ts)
           \/ RemoveMiss(t) \/ RecordReadOp(t)
           \/ RemoveLock(t) \/ RemoveRetire(t) \/ GetTouch(t)
    PROVE  TrackInv'
  <1> USE DEF storeVars, infoVars, flagVars, chVars, maintVars
  <1>k. thr[t].pc \notin {"idle", "send"} => thr[t].key \in Keys
    BY DEF TypeInv, LocalsOK, ThreadOK
  <1>q. \A u \in Threads : thr[u].pc \in Inserting => lock[thr[u].key] = u
    BY DEF TrackInv, InsertOK
  <1>1. ASSUME NEW k \in Keys, RemoveStart(t, k) PROVE TrackInv'
    <2>1. PICK pc \in {"lock", "remove"} : Moves(t, pc, k, NoBucket, None, NoOp)
      BY <1>1, Starts
    <2>2. /\ thr[t].pc = "idle"
          /\ UNCHANGED <<bucket, lock, entry_gen, admitted, write_op_ch, m>>
      BY ZenonT(30), <1>1 DEF RemoveStart
    <2> QED BY <2>1, <2>2, <1>q, AsideTrack DEF Moves, OthersStand, Inserting
  <1>2. ASSUME NEW k \in Keys, NEW ts \in 0..now, GetFound(t, k, ts) PROVE TrackInv'
    <2>1. PICK pc \in {"touch", "record"} : Moves(t, pc, k, bucket[k], None, NoOp)
      BY <1>2, Starts
    <2>2. /\ thr[t].pc = "idle"
          /\ UNCHANGED <<bucket, lock, entry_gen, admitted, write_op_ch, m>>
      BY ZenonT(30), <1>2 DEF GetFound
    <2> QED BY SMTT(30), <2>1, <2>2, <1>q, AsideTrack DEF Moves, OthersStand, Inserting
  <1>3. CASE RemoveMiss(t) \/ RecordReadOp(t)
    <2>1. Moves(t, "idle", None, NoBucket, None, NoOp)
      BY SMTT(30), <1>3, Ends
    <2>2. /\ thr[t].pc \in {"remove", "record"}
          /\ UNCHANGED <<bucket, entry_gen, admitted, write_op_ch, m>>
          /\ UNCHANGED lock \/ lock' = Release(thr[t].key, t)
      BY SMTT(30), <1>3 DEF RemoveMiss, RecordReadOp
    <2>3. \A u \in Threads : u # t /\ thr[u].pc \in Inserting => lock'[thr[u].key] = u
      BY SMTT(30), <2>2, <1>k, <1>q, LocksKept
    <2> QED BY <2>1, <2>2, <2>3, AsideTrack DEF Moves, OthersStand, Inserting
  <1>4. CASE RemoveRetire(t) \/ GetTouch(t)
    <2>1. PICK pc \in {"incr", "record"} :
            Moves(t, pc, thr[t].key, thr[t].seen, thr[t].own, thr[t].op)
      BY SMTT(30), <1>4, RemoveMoves
    <2>2. /\ thr[t].pc \in {"retire", "touch"}
          /\ UNCHANGED <<bucket, lock, entry_gen, admitted, write_op_ch, m>>
      BY <1>4 DEF RemoveRetire, GetTouch
    <2> QED BY SMTT(30), <2>1, <2>2, <1>q, AsideTrack DEF Moves, OthersStand, Inserting
  <1>5. CASE RemoveLock(t)
    <2>1. Moves(t, "remove", thr[t].key, thr[t].seen, thr[t].own, thr[t].op)
      BY <1>5, RemoveMoves
    <2>2. /\ thr[t].pc = "lock"
          /\ UNCHANGED <<bucket, entry_gen, admitted, write_op_ch, m>>
          /\ lock' = [lock EXCEPT ![thr[t].key] = t] /\ lock[thr[t].key] = None
      BY <1>5 DEF RemoveLock, Unlocked
    <2>3. \A u \in Threads : u # t /\ thr[u].pc \in Inserting => lock'[thr[u].key] = u
      BY ZenonT(30), <2>2, <1>k, LocksKept
    <2> QED BY ZenonT(30), <2>1, <2>2, <2>3, AsideTrack DEF Moves, OthersStand, Inserting
  <1> QED
    BY SMTT(30), <1>1, <1>2, <1>3, <1>4, <1>5

(* A step of an insertion that goes on. *)
LEMMA InsertingTrack ==
    ASSUME TypeInv, TrackInv, NEW t \in Threads, OthersStand(t), thr[t].pc # "send",
           thr'[t].pc \in Inserting, thr[t].pc \in Inserting => thr'[t].key = thr[t].key,
           InsertOK(t)', UNCHANGED <<bucket, entry_gen, admitted, write_op_ch, m>>,
           \A u \in Threads : u # t /\ thr[u].pc \in Inserting => lock'[thr[u].key] = u
    PROVE  TrackInv'
  <1>1. \A u \in Threads : u # t => Undisturbed(u)
    BY Zenon DEF Undisturbed, TrackInv, InsertOK, Linked
  <1>2. ASSUME NEW i \in Infos PROVE Tracked(i)'
    <2>1. Tracked(i)
      BY ZenonT(30) DEF TrackInv
    <2>2. /\ Linked(i)' <=> Linked(i)
          /\ LatestQueued(i) => LatestQueued(i)'
      BY DEF Linked, LatestQueued, Latest
    <2>3. thr[t].pc \in Inserting /\ thr[t].key = KeyOf(i) => InsertsOf(KeyOf(i))'
      BY DEF InsertsOf, KeyOf
    <2> QED BY Zenon, <2>1, <2>2, <2>3, TrackedStep
  <1> QED
    BY <1>1, <1>2, UserTrack

(* do_insert_with_hash, but for on_modify and the CAS. *)
LEMMA InsertingSteps ==
    ASSUME KeyLocks, TypeInv, TrackInv, NEW t \in Threads,
           \/ \E k \in Keys, w \in Weights : InsertStart(t, k, w)
           \/ InsertFound(t) \/ OnInsert(t) \/ InsertAgain(t) \/ InsertCasFail(t)
    PROVE  TrackInv'
  <1> USE DEF storeVars, infoVars, flagVars, chVars, maintVars
  <1>k. thr[t].pc \notin {"idle", "send"} => thr[t].key \in Keys
    BY DEF TypeInv, LocalsOK, ThreadOK
  <1>q. \A u \in Threads : thr[u].pc \in Inserting => lock[thr[u].key] = u
    BY DEF TrackInv, InsertOK
  <1>t. InsertOK(t)
    BY SMTT(30) DEF TrackInv
  <1>1. ASSUME NEW k \in Keys, NEW w \in Weights, InsertStart(t, k, w) PROVE TrackInv'
    <2>1. Moves(t, "load", k, NoBucket, None, NoOp)
      BY <1>1, Starts
    <2>2. /\ thr[t].pc = "idle"
          /\ UNCHANGED <<bucket, entry_gen, admitted, write_op_ch, m>>
          /\ lock' = [lock EXCEPT ![k] = t] /\ lock[k] = None
      BY Zenon, <1>1 DEF InsertStart, Unlocked
    <2>3. \A u \in Threads : u # t /\ thr[u].pc \in Inserting => lock'[thr[u].key] = u
      BY ZenonT(30), <2>2, LocksKept
    <2>4. lock'[k] = t
      BY SMTT(30), <2>2 DEF TypeInv, TypeOK
    <2>5. InsertOK(t)'
      BY <2>1, <2>4, FreshThread DEF Moves
    <2> QED BY SMTT(30), <2>1, <2>2, <2>3, <2>5, InsertingTrack DEF Moves, OthersStand, Inserting
  <1>2. CASE InsertFound(t)
    <2>1. Moves(t, "modify", thr[t].key, bucket[thr[t].key], thr[t].own, thr[t].op)
      BY Zenon, <1>2, InsertMoves
    <2>2. /\ thr[t].pc = "load" /\ bucket[thr[t].key].info # None
          /\ UNCHANGED <<bucket, lock, entry_gen, admitted, write_op_ch, m>>
      BY <1>2 DEF InsertFound
    <2>3. thr[t].own = None /\ lock[thr[t].key] = t
      BY Zenon, <2>2, <1>t DEF InsertOK, Inserting
    <2>4. InsertOK(t)'
      BY ZenonT(30), <2>1, <2>2, <2>3, FreshThread DEF Moves
    <2> QED BY ZenonT(30), <2>1, <2>2, <2>4, <1>q, InsertingTrack DEF Moves, OthersStand, Inserting
  <1>3. CASE OnInsert(t)
    <2> DEFINE i == <<thr[t].key, allocs[thr[t].key] + 1>>
               new == WriteOp("Upsert", i, entry_gen[i], 0, thr[t].weight)
    <2>1. Moves(t, "cas", thr[t].key, bucket[thr[t].key], i, new)
      BY ZenonT(30), <1>3, InsertMoves
    <2>2. /\ thr[t].pc = "load" /\ bucket[thr[t].key].info = None
          /\ UNCHANGED <<bucket, lock, entry_gen, admitted, write_op_ch, m>>
      BY <1>3 DEF OnInsert
    <2>3. new.kind = "Upsert" /\ new.info = i /\ new.gen = entry_gen[i]
      BY ZenonT(30) DEF WriteOp
    <2> HIDE DEF i, new
    <2>4. Latest(thr[t].op, thr[t].own)'
      BY <2>1, <2>2, <2>3 DEF Moves, Latest
    <2>5. InsertOK(t)'
      BY ZenonT(30), <2>1, <2>2, <2>4, <1>t DEF Moves, InsertOK, Inserting
    <2> QED BY <2>1, <2>2, <2>5, <1>q, InsertingTrack DEF Moves, OthersStand, Inserting
  <1>4. CASE InsertAgain(t)
    <2>1. Moves(t, "cas", thr[t].key, bucket[thr[t].key], thr[t].own, thr[t].op)
      BY Zenon, <1>4, InsertMoves
    <2>2. /\ thr[t].pc = "load" /\ bucket[thr[t].key].info = None
          /\ UNCHANGED <<bucket, lock, entry_gen, admitted, write_op_ch, m>>
      BY <1>4 DEF InsertAgain
    <2>3. InsertOK(t)'
      BY Zenon, <2>1, <2>2, <1>t DEF Moves, InsertOK, Inserting, Latest
    <2> QED BY ZenonT(30), <2>1, <2>2, <2>3, <1>q, InsertingTrack DEF Moves, OthersStand, Inserting
  <1>5. CASE InsertCasFail(t)
    <2>1. Moves(t, "load", thr[t].key, NoBucket, thr[t].own, thr[t].op)
      BY Zenon, <1>5, InsertMoves
    <2>2. /\ thr[t].pc = "cas"
          /\ UNCHANGED <<bucket, lock, entry_gen, admitted, write_op_ch, m>>
      BY SMTT(30), <1>5 DEF InsertCasFail
    <2>a. /\ lock'[thr'[t].key] = t /\ thr'[t].key = thr[t].key
          /\ thr'[t].own = thr[t].own /\ thr'[t].op = thr[t].op
          /\ thr'[t].pc = "load" /\ thr'[t].seen.info = None
      BY SMTT(30), <2>1, <2>2, <1>t DEF Moves, InsertOK, Inserting, NoBucket
    <2>b. thr[t].own # None => bucket[thr[t].key].info = None /\ Latest(thr[t].op, thr[t].own)
      BY SMTT(30), <1>t DEF InsertOK
    <2>c. thr[t].own # None => Latest(thr[t].op, thr[t].own)'
      BY SMTT(30), <2>2, <2>a, <2>b DEF Latest
    <2>3. InsertOK(t)'
      BY SMTT(30), <2>2, <2>a, <2>b, <2>c DEF InsertOK
    <2> QED BY Zenon, <2>1, <2>2, <2>3, <1>q, InsertingTrack DEF Moves, OthersStand, Inserting
  <1> QED
    BY SMTT(30), <1>1, <1>2, <1>3, <1>4, <1>5

(* on_modify gives the entry a new generation, and the WriteOp carries it.  *)
LEMMA OnModifyTrack ==
    ASSUME TypeInv, BucketsOK, TrackInv, NEW t \in Threads, OnModify(t)
    PROVE  TrackInv'
  <1> DEFINE i == thr[t].seen.info
             upd == WriteOp("Upsert", i, entry_gen'[i], policy_weight[i], thr[t].weight)
  <1>1. Moves(t, "cas", thr[t].key, thr[t].seen, thr[t].own, upd)
    BY Zenon, InsertMoves
  <1>2. /\ thr[t].pc = "modify"
        /\ UNCHANGED <<bucket, lock, admitted, write_op_ch, m>>
        /\ entry_gen' = incr_entry_gen(i)
    BY DEF OnModify, storeVars, flagVars, chVars, maintVars
  <1>3. i \in Infos /\ KeyOf(i) = thr[t].key
    BY ZenonT(30), <1>2, InfosAssumption DEF TypeInv, LocalsOK, ThreadOK, BucketsOK, SeesBucket
  <1>4. \A j \in Infos : j # i => entry_gen'[j] = entry_gen[j]
    BY SMTT(30), <1>2, <1>3 DEF incr_entry_gen, TypeInv, TypeOK
  <1>5. upd.kind = "Upsert" /\ upd.info = i /\ upd.gen = entry_gen'[i]
    BY DEF WriteOp
  <1>6. OthersStand(t)
    BY <1>1 DEF Moves, OthersStand
  <1>7. InsertOK(t)'
    <2>1. thr[t].own = None /\ lock[thr[t].key] = t
      BY Zenon, <1>2 DEF TrackInv, InsertOK, Inserting
    <2>2. Latest(thr[t].op, thr[t].seen.info)'
      BY Zenon, <1>1, <1>5 DEF Moves, Latest
    <2> QED BY Zenon, <1>1, <1>2, <2>1, <2>2 DEF Moves, InsertOK
  <1> HIDE DEF i, upd
  <1>8. ASSUME NEW u \in Threads, u # t PROVE Undisturbed(u)
    <2>1. thr[u].pc \in Inserting => thr[u].key # thr[t].key /\ lock'[thr[u].key] = u
      BY ZenonT(30), <1>2, <1>8, InsertsApart DEF Inserting, TrackInv, InsertOK
    <2> QED BY ZenonT(30), <1>2, <1>3, <1>4, <2>1, InsertLocals DEF Undisturbed, Linked
  <1>9. ASSUME NEW j \in Infos PROVE Tracked(j)'
    <2>1. InsertsOf(thr[t].key)'
      BY <1>1 DEF Moves, InsertsOf, Inserting
    <2>2. CASE j = i
      <3>1. InsertsOf(KeyOf(j))'
        BY <1>1, <1>3, <2>2 DEF InsertsOf, Moves, Inserting, KeyOf
      <3> QED BY <3>1 DEF Tracked
    <2>3. CASE j # i
      <3>1. Tracked(j) /\ entry_gen'[j] = entry_gen[j]
        BY <1>4, <2>3 DEF TrackInv
      <3>2. /\ Linked(j)' <=> Linked(j)
            /\ LatestQueued(j) => LatestQueued(j)'
        BY <1>2, <3>1 DEF Linked, LatestQueued, Latest
      <3>3. thr[t].key = KeyOf(j) => InsertsOf(KeyOf(j))'
        BY <1>1 DEF InsertsOf, Moves, Inserting, KeyOf
      <3> QED BY ZenonT(30), <1>2, <1>6, <3>1, <3>2, <3>3, TrackedStep
    <2> QED BY <2>2, <2>3
  <1> QED
    BY <1>6, <1>7, <1>8, <1>9, UserTrack

(* The CAS of an insertion succeeds: the WriteOp that do_insert_with_hash   *)
(* returns is the one of the last change of the entry in the bucket.       *)
LEMMA CasLatest ==
    ASSUME TypeInv, BucketsOK, TrackInv, NEW t \in Threads, InsertCas(t)
    PROVE  LET k == thr[t].key
               i == IF thr[t].seen.info = None THEN thr[t].own ELSE thr[t].seen.info
           IN  /\ k \in Keys /\ i \in Infos /\ KeyOf(i) = k
               /\ Latest(thr[t].op, i)
               /\ bucket' = [bucket EXCEPT ![k] = [info |-> i, ver |-> @.ver + 1]]
               /\ bucket'[k].info = i
               /\ \A j \in Keys : j # k => bucket'[j] = bucket[j]
  <1> DEFINE k == thr[t].key
             i == IF thr[t].seen.info = None THEN thr[t].own ELSE thr[t].seen.info
  <1>1. thr[t].pc = "cas" /\ bucket[k].ver = thr[t].seen.ver
        /\ bucket' = [bucket EXCEPT ![k] = [info |-> i, ver |-> @.ver + 1]]
    BY DEF InsertCas
  <1>2. k \in Keys /\ ThreadOK(thr[t]) /\ InsertOK(t) /\ SeesBucket(thr[t])
    BY ZenonT(30), <1>1 DEF TypeInv, LocalsOK, ThreadOK, TrackInv, BucketsOK
  <1>3. i \in Infos /\ KeyOf(i) = k /\ Latest(thr[t].op, i)
    <2>1. CASE thr[t].seen.info = None
      <3>1. thr[t].own \in Infos
        BY <1>1, <1>2, <2>1 DEF ThreadOK
      <3>2. thr[t].own # None
        BY <3>1, InfosAssumption
      <3> QED BY ZenonT(30), <2>1, <3>1, <3>2, <1>2, InsertLocals DEF InsertOK
    <2>2. CASE thr[t].seen.info # None
      <3>1. thr[t].seen.info \in Infos /\ KeyOf(thr[t].seen.info) = k
        BY <1>1, <2>2, InsertLocals
      <3>2. Linked(thr[t].seen.info)
        BY Zenon, <1>1, <1>2, <3>1 DEF SeesBucket, Linked
      <3>3. Latest(thr[t].op, thr[t].seen.info)
        BY Zenon, <1>1, <1>2, <2>2, <3>2 DEF InsertOK
      <3> QED BY SMTT(30), <2>2, <3>1, <3>3
    <2> QED BY Zenon, <2>1, <2>2
  <1> HIDE DEF i, k
  <1>4. bucket'[k].info = i /\ \A j \in Keys : j # k => bucket'[j] = bucket[j]
    BY Zenon, <1>1, <1>2, <1>3, BucketCas DEF TypeInv
  <1> QED
    BY ZenonT(30), <1>1, <1>2, <1>3, <1>4 DEF i, k

(* So the entry is tracked by that WriteOp from then on. *)
LEMMA InsertCasTrack ==
    ASSUME TypeInv, BucketsOK, TrackInv, NEW t \in Threads, InsertCas(t)
    PROVE  TrackInv'
  <1> DEFINE k == thr[t].key
             i == IF thr[t].seen.info = None THEN thr[t].own ELSE thr[t].seen.info
  <1>1. Moves(t, "send", None, NoBucket, None, thr[t].op)
    BY Zenon, InsertMoves
  <1>2. /\ thr[t].pc = "cas" /\ lock' = Release(k, t)
        /\ UNCHANGED <<entry_gen, admitted, write_op_ch, m>>
    BY DEF InsertCas, infoVars, flagVars, chVars, maintVars
  <1>3. /\ k \in Keys /\ i \in Infos /\ KeyOf(i) = k
        /\ Latest(thr[t].op, i)
        /\ bucket'[k].info = i
        /\ \A j \in Keys : j # k => bucket'[j] = bucket[j]
    BY Zenon, CasLatest
  <1> HIDE DEF i
  <1>4. OthersStand(t)
    BY SMTT(30), <1>1 DEF Moves, OthersStand
  <1>5. InsertOK(t)'
    BY <1>1, FreshThread DEF Moves, Inserting
  <1>6. ASSUME NEW u \in Threads, u # t PROVE Undisturbed(u)
    <2>1. thr[u].pc \in Inserting => thr[u].key # k /\ lock'[thr[u].key] = u
      BY ZenonT(30), <1>2, <1>3, <1>6, InsertsApart, LocksKept DEF Inserting
    <2>2. thr[u].pc \in Inserting => bucket'[thr[u].key] = bucket[thr[u].key]
      BY ZenonT(30), <1>3, <2>1 DEF TypeInv, LocalsOK, ThreadOK, Inserting
    <2> QED BY Zenon, <1>2, <2>1, <2>2, InsertLocals DEF Undisturbed, Linked
  <1>7. ASSUME NEW j \in Infos PROVE Tracked(j)'
    <2>1. CASE j = i
      <3>1. LatestSent(j)'
        BY ZenonT(30), <1>1, <1>2, <1>3, <2>1 DEF LatestSent, Latest, Moves
      <3> QED BY <3>1 DEF Tracked
    <2>2. CASE KeyOf(j) = k /\ j # i
      <3>1. ~Linked(j)'
        BY <1>3, <2>2 DEF Linked, KeyOf
      <3> QED BY <3>1 DEF Tracked
    <2>3. CASE KeyOf(j) # k
      <3>1. Linked(j)' <=> Linked(j)
        BY SMTT(30), <1>3, <2>3, KeyOfType DEF Linked, KeyOf
      <3>2. LatestQueued(j) => LatestQueued(j)'
        BY <1>2 DEF LatestQueued, Latest
      <3>3. Tracked(j)
        BY DEF TrackInv
      <3> QED BY ZenonT(30), <1>2, <1>4, <2>3, <3>1, <3>2, <3>3, TrackedStep
    <2> QED BY <2>1, <2>2, <2>3
  <1> QED
    BY <1>4, <1>5, <1>6, <1>7, UserTrack

(* schedule_write_op puts the WriteOp into the channel. *)
LEMMA ScheduleWriteOpTrack ==
    ASSUME TypeInv, TrackInv, NEW t \in Threads, ScheduleWriteOp(t)
    PROVE  TrackInv'
  <1>1. Moves(t, "idle", None, NoBucket, None, NoOp)
    BY Ends
  <1>2. /\ thr[t].pc = "send" /\ write_op_ch' = Append(write_op_ch, thr[t].op)
        /\ UNCHANGED <<bucket, lock, entry_gen, admitted, m>>
    BY DEF ScheduleWriteOp, storeVars, infoVars, flagVars, maintVars
  <1>3. OthersStand(t)
    BY <1>1 DEF Moves, OthersStand
  <1>4. InsertOK(t)'
    BY SMTT(30), <1>1, FreshThread DEF Moves, Inserting
  <1>5. \A u \in Threads : Undisturbed(u)
    BY <1>2, QuietUndisturbed DEF TrackInv
  <1>a. write_op_ch \in Seq(WriteOps)
    BY SMTT(30) DEF TypeInv, TypeOK
  <1>b. thr[t].op \in WriteOps
    BY <1>2 DEF TypeInv, LocalsOK, ThreadOK
  <1>6. write_op_ch \in Seq(WriteOps) /\ thr[t].op \in WriteOps /\ Len(write_op_ch) \in Nat
    BY SMTT(30), <1>a, <1>b
  <1>7. /\ Len(write_op_ch') = Len(write_op_ch) + 1
        /\ \A p \in 1..Len(write_op_ch) : p \in 1..Len(write_op_ch') /\ write_op_ch'[p] = write_op_ch[p]
        /\ Len(write_op_ch') \in 1..Len(write_op_ch') /\ write_op_ch'[Len(write_op_ch')] = thr[t].op
    BY <1>2, <1>6
  <1>8. ASSUME NEW i \in Infos PROVE Tracked(i)'
    <2>1. Linked(i)' <=> Linked(i)
      BY <1>2 DEF Linked
    <2>2. LatestQueued(i) => LatestQueued(i)'
      BY <1>2, <1>7 DEF LatestQueued, Latest
    <2>3. Latest(thr[t].op, i) => LatestQueued(i)'
      BY <1>2, <1>7 DEF LatestQueued, Latest
    <2>4. Tracked(i)
      BY DEF TrackInv
    <2> QED BY ZenonT(30), <1>2, <1>3, <2>1, <2>2, <2>3, <2>4, TrackedStep DEF Inserting
  <1> QED
    BY <1>3, <1>4, <1>5, <1>8, UserTrack

(* invalidate unlinks the entry it finds: no other entry changes. *)
LEMMA RemoveCasTrack ==
    ASSUME TypeInv, BucketsOK, TrackInv, NEW t \in Threads, RemoveCas(t)
    PROVE  TrackInv'
  <1> DEFINE k == thr[t].key
  <1>1. Moves(t, "retire", k, bucket[k], thr[t].own, thr[t].op)
    BY Zenon, RemoveMoves
  <1>2. /\ thr[t].pc = "remove"
        /\ bucket' = [bucket EXCEPT ![k] = [info |-> None, ver |-> @.ver + 1]]
        /\ UNCHANGED <<lock, entry_gen, admitted, write_op_ch, m>>
    BY DEF RemoveCas, infoVars, flagVars, chVars, maintVars
  <1>3. k \in Keys /\ thr[t].own = None
    BY Zenon, <1>2 DEF TypeInv, LocalsOK, ThreadOK, Inserting
  <1>4. bucket'[k].info = None /\ \A j \in Keys : j # k => bucket'[j] = bucket[j]
    <2> HIDE DEF k
    <2>1. TypeOK /\ None \in Infos \cup {None}
      BY DEF TypeInv
    <2> QED BY Zenon, <1>2, <1>3, <2>1, BucketCas
  <1>5. OthersStand(t)
    BY Zenon, <1>1 DEF Moves, OthersStand
  <1>6. InsertOK(t)'
    BY <1>1, <1>3, FreshThread DEF Moves, Inserting
  <1>7. \A i \in Infos : Linked(i)' => Linked(i)
    BY <1>4, KeyOfType, InfosAssumption DEF Linked, KeyOf
  <1>8. ASSUME NEW u \in Threads, u # t PROVE Undisturbed(u)
    <2>1. thr[u].pc \in Inserting => lock'[thr[u].key] = u /\ thr[u].key \in Keys
      BY ZenonT(30), <1>2 DEF TrackInv, InsertOK, TypeInv, LocalsOK, ThreadOK, Inserting
    <2>2. thr[u].own # None => bucket'[thr[u].key].info = None
      BY ZenonT(30), <1>4, <2>1, InsertLocals
    <2>3. thr[u].pc = "cas" /\ thr[u].seen.info # None =>
            (bucket'[KeyOf(thr[u].seen.info)].info = thr[u].seen.info => Linked(thr[u].seen.info))
      BY Zenon, <1>4, KeyOfType, InfosAssumption, InsertLocals DEF Linked
    <2> QED BY ZenonT(30), <1>2, <2>1, <2>2, <2>3 DEF Undisturbed
  <1>9. ASSUME NEW i \in Infos PROVE Tracked(i)'
    <2>1. LatestQueued(i) => LatestQueued(i)'
      BY <1>2 DEF LatestQueued, Latest
    <2>2. Tracked(i)
      BY DEF TrackInv
    <2> QED BY ZenonT(30), <1>2, <1>5, <1>7, <2>1, <2>2, TrackedStep DEF Inserting
  <1> QED
    BY SMTT(30), <1>5, <1>6, <1>8, <1>9, UserTrack

(* The new generation of an invalidated entry concerns nobody: the entry is *)
(* no longer in the CHT, and it is not one that an insertion has made.     *)
LEMMA RemoveIncrTrack ==
    ASSUME TypeInv, BucketsOK, LifeInv, TrackInv, NEW t \in Threads, RemoveIncr(t)
    PROVE  TrackInv'
  <1> DEFINE n == thr[t].seen.info
             op == WriteOp("Remove", n, entry_gen'[n], 0, 0)
  <1>1. Moves(t, "send", None, NoBucket, None, op)
    BY Zenon, RemoveMoves
  <1>2. /\ thr[t].pc = "incr" /\ lock' = Release(thr[t].key, t)
        /\ entry_gen' = incr_entry_gen(n)
        /\ UNCHANGED <<bucket, admitted, write_op_ch, m>>
    BY DEF RemoveIncr, flagVars, chVars, maintVars
  <1>3. n \in Infos /\ thr[t].key \in Keys
    BY ZenonT(30), <1>2 DEF TypeInv, LocalsOK, ThreadOK
  <1>4. \A j \in Infos : j # n => entry_gen'[j] = entry_gen[j]
    BY SMTT(30), <1>2, <1>3 DEF incr_entry_gen, TypeInv, TypeOK
  <1>5. Sending(t, n, "Remove")
    BY <1>2 DEF Sending
  <1> HIDE DEF n, op
  <1>6. ~Linked(n) /\ Known(n)
    <2>1. Leaving(n)
      BY <1>5 DEF Leaving, Holds
    <2> QED BY ZenonT(30), <1>3, <1>5, <2>1 DEF LifeInv, RetireOnce, KnownOK
  <1>7. OthersStand(t)
    BY <1>1 DEF Moves, OthersStand
  <1>8. InsertOK(t)'
    BY <1>1, FreshThread DEF Moves, Inserting
  <1>9. ASSUME NEW u \in Threads, u # t PROVE Undisturbed(u)
    <2>1. ASSUME thr[u].pc \in Inserting PROVE lock'[thr[u].key] = u
      BY ZenonT(30), <1>2, <1>3, <1>9, <2>1, LocksKept
    <2>2. thr[u].own # None => thr[u].own \in Infos /\ thr[u].own # n
                                 /\ bucket[thr[u].key].info = None
      BY ZenonT(30), <1>3, <1>6, InsertLocals DEF LifeInv, FreshOK, Owns
    <2>3. thr[u].pc = "cas" /\ thr[u].seen.info # None => thr[u].seen.info \in Infos
      BY InsertLocals
    <2>4. Linked(thr[u].seen.info) => thr[u].seen.info # n
      BY <1>6
    <2> QED BY ZenonT(30), <1>2, <1>4, <2>1, <2>2, <2>3, <2>4 DEF Undisturbed, Linked
  <1>10. ASSUME NEW i \in Infos PROVE Tracked(i)'
    <2>1. Linked(i)' <=> Linked(i)
      BY <1>2 DEF Linked
    <2>2. Linked(i) => entry_gen'[i] = entry_gen[i]
      BY <1>4, <1>6
    <2>3. Linked(i) /\ LatestQueued(i) => LatestQueued(i)'
      BY Zenon, <1>2, <2>2 DEF LatestQueued, Latest
    <2>4. Tracked(i)
      BY DEF TrackInv
    <2> QED BY ZenonT(30), <1>2, <1>7, <2>1, <2>2, <2>3, <2>4, TrackedStep DEF Inserting
  <1> QED
    BY SMTT(30), <1>7, <1>8, <1>9, <1>10, UserTrack

(* Every step of a user thread. *)
LEMMA UserStepTrack ==
    ASSUME KeyLocks, TypeInv, BucketsOK, LifeInv, TrackInv, NEW t \in Threads, UserStep(t)
    PROVE  TrackInv'
  BY SMTT(30), AsideSteps, InsertingSteps, OnModifyTrack, InsertCasTrack, ScheduleWriteOpTrack,
     RemoveCasTrack, RemoveIncrTrack DEF UserStep

-----------------------------------------------------------------------------
(* Steps of the maintenance task *)

(* An entry that stays in the CHT without being admitted keeps the WriteOp  *)
(* of its last change, in the channel or as the work of the task.          *)
LEMMA MaintTrack ==
    ASSUME TypeInv, BucketsOK, TrackInv, UNCHANGED <<thr, lock, entry_gen>>,
           \A k \in Keys : bucket'[k].info \in {bucket[k].info, None},
           \A i \in Infos : Linked(i) /\ Linked(i)' /\ i \notin admitted' =>
             /\ i \notin admitted
             /\ LatestQueued(i) => LatestQueued(i)' \/ Latest(m'.work, i)
             /\ Latest(m.work, i) => Latest(m'.work, i)
    PROVE  TrackInv'
  <1>1. \A i \in Infos : Linked(i)' => Linked(i)
    BY Zenon, KeyOfType, InfosAssumption DEF Linked, KeyOf
  <1>2. ASSUME NEW u \in Threads PROVE InsertOK(u)'
    <2>1. thr[u].pc \in Inserting => lock'[thr[u].key] = u /\ thr[u].key \in Keys
      BY Zenon DEF TrackInv, InsertOK, TypeInv, LocalsOK, ThreadOK, Inserting
    <2>2. thr[u].own # None => bucket'[thr[u].key].info = None
      BY Zenon, <2>1, InsertLocals
    <2>3. thr[u].pc = "cas" /\ thr[u].seen.info # None =>
            (bucket'[KeyOf(thr[u].seen.info)].info = thr[u].seen.info => Linked(thr[u].seen.info))
      BY Zenon, KeyOfType, InfosAssumption, InsertLocals DEF Linked
    <2>4. Undisturbed(u)
      BY Zenon, <2>1, <2>2, <2>3 DEF Undisturbed
    <2> QED BY ZenonT(30), <2>4, StandingInsert DEF TrackInv
  <1>3. ASSUME NEW i \in Infos, Linked(i)', i \notin admitted'
        PROVE  (InsertsOf(KeyOf(i)) \/ LatestQueued(i) \/ LatestSent(i) \/ Latest(m.work, i))'
    <2>1. Tracked(i) /\ Linked(i) /\ i \notin admitted
      BY ZenonT(30), <1>1, <1>3 DEF TrackInv
    <2>2. InsertsOf(KeyOf(i)) => InsertsOf(KeyOf(i))'
      BY DEF InsertsOf, KeyOf
    <2>3. LatestSent(i) => LatestSent(i)'
      BY Zenon DEF LatestSent, Latest
    <2>4. Latest(m'.work, i) => Latest(m.work, i)'
      BY Zenon DEF Latest
    <2> QED BY ZenonT(30), <1>3, <2>1, <2>2, <2>3, <2>4 DEF Tracked
  <1> QED
    BY Zenon, <1>2, <1>3 DEF TrackInv, Tracked

(* The channel without its first WriteOp. *)
LEMMA LatestTail ==
    ASSUME TypeOK, write_op_ch # <<>>, write_op_ch' = Tail(write_op_ch), UNCHANGED entry_gen,
           NEW i \in Infos, LatestQueued(i)
    PROVE  LatestQueued(i)' \/ Latest(Head(write_op_ch), i)
  <1> DEFINE n == Len(write_op_ch)
  <1>0. write_op_ch \in Seq(WriteOps) /\ n \in Nat \ {0}
    BY DEF TypeOK
  <1>1. /\ Head(write_op_ch) = write_op_ch[1]
        /\ Len(write_op_ch') = n - 1
        /\ \A p \in 1..(n - 1) : write_op_ch'[p] = write_op_ch[p + 1]
    BY <1>0
  <1>2. \A p \in 1..n : p = 1 \/ (p - 1 \in 1..(n - 1) /\ (p - 1) + 1 = p)
    BY <1>0
  <1>3. PICK p \in 1..n : Latest(write_op_ch[p], i)
    BY DEF LatestQueued
  <1>4. CASE p = 1
    BY <1>1, <1>3, <1>4
  <1>5. CASE p # 1
    <2>1. PICK q \in 1..(n - 1) : q + 1 = p
      BY <1>2, <1>5
    <2>2. q \in 1..Len(write_op_ch') /\ write_op_ch'[q] = write_op_ch[p]
      BY <1>1, <2>1
    <2>3. Latest(write_op_ch[q], i)'
      BY SMTT(30), <1>3, <2>2 DEF Latest
    <2> QED BY <2>2, <2>3 DEF LatestQueued
  <1> QED
    BY SMTT(30), <1>4, <1>5

(* Maintenance takes entries out of the CHT only, and moves no generation. *)
LEMMA MaintStoreTrack ==
    ASSUME TypeInv, BucketsOK, TrackInv, Maintenance, UNCHANGED <<lock, entry_gen>>,
           \A i \in Infos : Linked(i) /\ Linked(i)' /\ i \notin admitted' =>
             /\ i \notin admitted
             /\ LatestQueued(i) => LatestQueued(i)' \/ Latest(m'.work, i)
             /\ Latest(m.work, i) => Latest(m'.work, i)
    PROVE  TrackInv'
  <1>1. UNCHANGED thr
    BY SMTT(30), MaintStore
  <1>2. \A k \in Keys : bucket'[k].info \in {bucket[k].info, None}
    <2>1. CASE UNCHANGED bucket
      BY <2>1
    <2>2. ASSUME NEW k \in Keys, cht_remove_and_retire(k)
          PROVE  \A j \in Keys : bucket'[j].info \in {bucket[j].info, None}
      <3>1. /\ TypeOK /\ None \in Infos \cup {None}
            /\ bucket' = [bucket EXCEPT ![k] = [info |-> None, ver |-> @.ver + 1]]
        BY <2>2 DEF TypeInv, cht_remove_and_retire
      <3>2. bucket'[k].info = None /\ \A j \in Keys : j # k => bucket'[j] = bucket[j]
        BY ZenonT(30), <3>1, BucketCas
      <3> QED BY SMTT(30), <3>2
    <2> QED BY SMTT(30), <2>1, <2>2, MaintStore
  <1> QED
    BY SMTT(30), <1>1, <1>2, MaintTrack

(* Steps that touch neither the flags nor the channel, nor the candidate. *)
LEMMA QuietTrack ==
    ASSUME TypeInv, BucketsOK, TrackInv, Maintenance,
           UNCHANGED <<lock, entry_gen, admitted, write_op_ch>>, m'.work = m.work
    PROVE  TrackInv'
  <1>1. \A i \in Infos : LatestQueued(i) => LatestQueued(i)'
    BY DEF LatestQueued, Latest
  <1>2. \A i \in Infos : Latest(m.work, i) => Latest(m'.work, i)
    OBVIOUS
  <1> QED
    BY SMTT(30), <1>1, <1>2, MaintStoreTrack

(* They are the steps of maintenance but for the ends of an admission, the  *)
(* WriteOps it receives and the removals it completes.                     *)
LEMMA QuietSteps ==
    ASSUME TypeInv, BucketsOK, TrackInv,
           \/ MaintStart \/ ApplyRead \/ ReadsDone \/ AdmitSkip \/ AdmitTake \/ AdmitDecide
           \/ VictimRemove \/ VictimSkip \/ WritesDone \/ EvictSkipDirty \/ EvictPeek
           \/ EvictSkip \/ MaintAgain \/ MaintDone \/ AdmitLook \/ CheckAgain \/ VictimCheck
           \/ CandidateCheck \/ EvictCheck \/ EvictClean \/ EvictRemove \/ EvictMiss
    PROVE  TrackInv'
  <1> DEFINE Frame == UNCHANGED <<lock, entry_gen, admitted, write_op_ch>>
             Same == m'.work = m.work
  <1>m. m \in MaintStates /\ MaintOK(mpc, m)
    BY DEF TypeInv, TypeOK, LocalsOK
  <1>f. Maintenance
    BY DEF Maintenance
  <1> USE DEF storeVars, infoVars, flagVars, chVars, userVars
  <1>1. CASE MaintStart
    <2>1. Frame /\ Same
      BY <1>1, <1>m DEF MaintStart, MaintOK, Working, IdleMaint
    <2> QED BY SMTT(30), <2>1, <1>f, QuietTrack
  <1>2. CASE ApplyRead \/ ReadsDone \/ WritesDone \/ VictimSkip
    <2>1. Frame /\ Same
      BY ZenonT(30), <1>2, <1>m DEF ApplyRead, ReadsDone, WritesDone, VictimSkip, MaintStates
    <2> QED BY <2>1, <1>f, QuietTrack
  <1>3. CASE AdmitSkip
    <2>1. Frame /\ Same
      BY SMTT(30), <1>3, <1>m DEF AdmitSkip, MaintStates
    <2> QED BY SMTT(30), <2>1, <1>f, QuietTrack
  <1>4. CASE AdmitTake
    <2>1. Frame /\ Same
      BY ZenonT(30), <1>4, <1>m DEF AdmitTake, MaintStates
    <2> QED BY <2>1, <1>f, QuietTrack
  <1>5. CASE AdmitDecide \/ AdmitLook \/ EvictClean \/ EvictMiss
    <2>1. Frame /\ Same
      BY Zenon, <1>5 DEF AdmitDecide, AdmitLook, EvictClean, EvictMiss
    <2> QED BY <2>1, <1>f, QuietTrack
  <1>6. CASE VictimRemove \/ EvictRemove
    <2>1. Frame /\ Same
      BY ZenonT(30), <1>6, <1>m DEF VictimRemove, EvictRemove, MaintStates
    <2> QED BY <2>1, <1>f, QuietTrack
  <1>7. CASE EvictSkipDirty \/ EvictPeek \/ EvictSkip
    <2>1. Frame /\ Same
      BY ZenonT(30), <1>7, <1>m DEF EvictSkipDirty, EvictPeek, EvictSkip, SkipOne, MaintStates
    <2> QED BY <2>1, <1>f, QuietTrack
  <1>8. CASE MaintAgain
    <2>1. m.work = NoOp
      BY <1>8, <1>m DEF MaintAgain, MaintOK, Working
    <2>2. Frame /\ Same
      BY ZenonT(30), <1>8, <1>m, <2>1 DEF MaintAgain, MaintStates, IdleMaint
    <2> QED BY SMTT(30), <2>2, <1>f, QuietTrack
  <1>9. CASE MaintDone
    <2>1. Frame /\ Same
      BY ZenonT(30), <1>9, <1>m DEF MaintDone, MaintOK, Working, IdleMaint
    <2> QED BY <2>1, <1>f, QuietTrack
  <1>10. CASE CheckAgain \/ VictimCheck \/ CandidateCheck \/ EvictCheck
    <2>0. Frame /\ \E b : m' = [m EXCEPT !.seen = b]
      BY Zenon, <1>10 DEF CheckAgain, VictimCheck, CandidateCheck, EvictCheck, Check
    <2>1. Frame /\ Same
      BY <2>0, <1>m DEF MaintStates
    <2> QED BY <2>1, <1>f, QuietTrack
  <1> QED
    BY SMTT(30), <1>1, <1>2, <1>3, <1>4, <1>5, <1>6, <1>7, <1>8, <1>9, <1>10

(* A candidate that is not admitted is unlinked, unless its WriteOp is not  *)
(* that of its last change any more: then another WriteOp is on its way.   *)
LEMMA RejectTrack ==
    ASSUME TypeInv, BucketsOK, TrackInv, RemoveCandidate \/ KeepCandidate
    PROVE  TrackInv'
  <1>1. UNCHANGED <<lock, entry_gen, admitted, write_op_ch>> /\ Maintenance
    BY DEF RemoveCandidate, KeepCandidate, storeVars, flagVars, chVars, Maintenance
  <1>2. \A i \in Infos : LatestQueued(i) => LatestQueued(i)'
    BY <1>1 DEF LatestQueued, Latest
  <1>3. ASSUME NEW i \in Infos, Linked(i), Linked(i)', Latest(m.work, i) PROVE FALSE
    <2>1. m.work.info = i /\ CandidateMatches(m.work)
      BY <1>3 DEF Latest, Linked, CandidateMatches
    <2>2. RemoveCandidate
      BY <2>1 DEF KeepCandidate
    <2>3. /\ KeyOf(i) \in Keys /\ TypeOK /\ None \in Infos \cup {None}
          /\ bucket' = [bucket EXCEPT ![KeyOf(i)] = [info |-> None, ver |-> @.ver + 1]]
      BY <2>1, <2>2, KeyOfType DEF RemoveCandidate, cht_remove_and_retire, TypeInv
    <2>4. bucket'[KeyOf(i)].info = None
      BY ZenonT(30), <2>3, BucketCas
    <2> QED BY ZenonT(30), <1>3, <2>4, InfosAssumption DEF Linked, KeyOf
  <1> QED
    BY ZenonT(30), <1>1, <1>2, <1>3, MaintStoreTrack

(* The policies forget an entry that is no longer in the CHT. *)
LEMMA ForgetTrack ==
    ASSUME TypeInv, BucketsOK, LifeInv, TrackInv, VictimRemoved \/ EvictRemoved
    PROVE  TrackInv'
  <1>1. /\ UNCHANGED <<lock, entry_gen, write_op_ch>> /\ Maintenance
        /\ admitted' = admitted \ {m.removed}
    BY DEF VictimRemoved, EvictRemoved, storeVars, infoVars, chVars, Maintenance, handle_remove
  <1>2. m'.work = m.work
    BY ZenonT(30) DEF VictimRemoved, EvictRemoved, TypeInv, TypeOK, MaintStates
  <1>3. \A i \in Infos : LatestQueued(i) => LatestQueued(i)'
    BY <1>1 DEF LatestQueued, Latest
  <1>4. \A i \in Infos : Linked(i) => i # m.removed
    BY DEF LifeInv, RetireOnce, Leaving
  <1>5. \A i \in Infos : Linked(i) /\ i \notin admitted' => i \notin admitted
    BY <1>1, <1>4
  <1>6. \A i \in Infos : Latest(m.work, i) => Latest(m'.work, i)
    BY SMTT(30), <1>2
  <1> QED
    BY SMTT(30), <1>1, <1>3, <1>5, <1>6, MaintStoreTrack

(* apply_writes takes a Remove: the entry is no longer in the CHT. *)
LEMMA ApplyRemoveTrack ==
    ASSUME TypeInv, BucketsOK, LifeInv, TrackInv, ApplyRemove
    PROVE  TrackInv'
  <1> DEFINE op == Head(write_op_ch)
  <1>1. /\ UNCHANGED <<lock, entry_gen>> /\ Maintenance
        /\ write_op_ch # <<>> /\ write_op_ch' = Tail(write_op_ch) /\ op.kind = "Remove"
        /\ admitted' = admitted \ {op.info}
    BY DEF ApplyRemove, Receive, handle_remove, storeVars, Maintenance
  <1>2. m'.work = m.work
    BY DEF ApplyRemove, TypeInv, TypeOK, MaintStates
  <1>3. TypeOK /\ Queued(op.info, "Remove")
    BY <1>1, QueueTail DEF TypeInv
  <1> HIDE DEF op
  <1>4. \A i \in Infos : Linked(i) => i # op.info
    BY Zenon, <1>3 DEF LifeInv, RetireOnce, Leaving
  <1>5. ASSUME NEW i \in Infos, Linked(i), i \notin admitted' PROVE i \notin admitted
    BY <1>1, <1>4, <1>5
  <1>6. ASSUME NEW i \in Infos, LatestQueued(i) PROVE LatestQueued(i)'
    <2>1. LatestQueued(i)' \/ Latest(op, i)
      BY <1>1, <1>3, <1>6, LatestTail DEF op
    <2> QED BY <1>1, <2>1 DEF Latest
  <1>7. \A i \in Infos : Latest(m.work, i) => Latest(m'.work, i)
    BY SMTT(30), <1>2
  <1> QED
    BY SMTT(30), <1>1, <1>5, <1>6, <1>7, MaintStoreTrack

(* apply_writes takes an Upsert: the entry is admitted or retired, or it    *)
(* becomes the candidate of an admission.                                  *)
LEMMA UpsertTrack ==
    ASSUME TypeInv, BucketsOK, LifeInv, TrackInv,
           \/ UpsertRetired \/ UpsertAdmitted \/ UpsertFits \/ UpsertTooBig \/ UpsertContends
    PROVE  TrackInv'
  <1> DEFINE op == Head(write_op_ch)
             All == UpsertRetired \/ UpsertAdmitted \/ UpsertFits \/ UpsertTooBig \/ UpsertContends
  <1>0. m \in MaintStates /\ MaintOK(mpc, m)
    BY DEF TypeInv, TypeOK, LocalsOK
  <1>1. /\ UNCHANGED <<lock, entry_gen>> /\ Maintenance
        /\ mpc = "writes" /\ write_op_ch # <<>> /\ write_op_ch' = Tail(write_op_ch)
    BY Zenon DEF UpsertRetired, UpsertAdmitted, UpsertFits, UpsertTooBig, UpsertContends, Receive,
           storeVars, infoVars, Maintenance
  <1>2. admitted \subseteq admitted'
    BY Zenon DEF UpsertRetired, UpsertAdmitted, UpsertFits, UpsertTooBig, UpsertContends, flagVars,
           handle_admit
  <1>3. ~Alive(op.info) \/ op.info \in admitted' \/ m'.work = op
    <2>1. CASE UpsertRetired
      BY <2>1 DEF UpsertRetired, is_alive, Alive
    <2>2. CASE UpsertAdmitted
      BY <2>2, <1>2 DEF UpsertAdmitted
    <2>3. CASE UpsertFits
      BY <2>3 DEF UpsertFits, handle_admit
    <2>4. CASE UpsertTooBig
      BY <2>4, <1>0 DEF UpsertTooBig, MaintStates
    <2>5. CASE UpsertContends
      BY ZenonT(30), <2>5, <1>0 DEF UpsertContends, MaintStates
    <2> QED BY ZenonT(30), <2>1, <2>2, <2>3, <2>4, <2>5
  <1>4. m.work = NoOp
    BY SMTT(30), <1>0, <1>1 DEF MaintOK, Working
  <1>5. ASSUME NEW i \in Infos PROVE ~Latest(m.work, i)
    BY <1>4 DEF NoOp, WriteOp, Latest
  <1> HIDE DEF op
  <1>6. ASSUME NEW i \in Infos, Linked(i), i \notin admitted', LatestQueued(i)
        PROVE  LatestQueued(i)' \/ Latest(m'.work, i)
    <2>1. LatestQueued(i)' \/ Latest(op, i)
      BY <1>1, <1>6, LatestTail DEF op, TypeInv
    <2>2. ASSUME Latest(op, i) PROVE m'.work = op
      <3>1. op.info = i /\ Alive(i)
        BY Zenon, <1>6, <2>2 DEF Latest, LifeInv, RetireOnce
      <3> QED BY <1>3, <1>6, <3>1
    <2> QED BY <2>1, <2>2
  <1>7. \A i \in Infos : i \notin admitted' => i \notin admitted
    BY SMTT(30), <1>2
  <1> QED
    BY SMTT(30), <1>1, <1>5, <1>6, <1>7, MaintStoreTrack

(* The candidate has won: it is admitted, unless it was retired meanwhile. *)
LEMMA AdmitCandidateTrack ==
    ASSUME TypeInv, BucketsOK, LifeInv, TrackInv, AdmitCandidate
    PROVE  TrackInv'
  <1>1. UNCHANGED <<lock, entry_gen, write_op_ch>> /\ Maintenance
    BY DEF AdmitCandidate, storeVars, chVars, Maintenance
  <1>2. /\ admitted \subseteq admitted'
        /\ ~Alive(m.work.info) \/ m.work.info \in admitted'
    BY DEF AdmitCandidate, handle_admit, is_alive, Alive
  <1>3. \A i \in Infos : LatestQueued(i) => LatestQueued(i)'
    BY <1>1 DEF LatestQueued, Latest
  <1>4. ASSUME NEW i \in Infos, Linked(i), i \notin admitted' PROVE ~Latest(m.work, i)
    <2>1. Alive(i)
      BY <1>4 DEF LifeInv, RetireOnce
    <2> QED BY SMTT(30), <1>2, <1>4, <2>1 DEF Latest
  <1>5. \A i \in Infos : i \notin admitted' => i \notin admitted
    BY <1>2
  <1> QED
    BY SMTT(30), <1>1, <1>3, <1>4, <1>5, MaintStoreTrack

(* Every step of the maintenance task. *)
LEMMA MaintenanceTrack ==
    ASSUME TypeInv, BucketsOK, LifeInv, TrackInv, Maintenance
    PROVE  TrackInv'
  BY SMTT(30), QuietSteps, RejectTrack, ForgetTrack, ApplyRemoveTrack, UpsertTrack, AdmitCandidateTrack
  DEF Maintenance

-----------------------------------------------------------------------------
(* The theorems *)

(* At first nothing is in the CHT and no thread runs. *)
LEMMA InitTrack == Init => TrackInv
  <1> SUFFICES ASSUME Init PROVE TrackInv
    OBVIOUS
  <1>1. ASSUME NEW t \in Threads PROVE InsertOK(t)
    BY Zenon DEF Init, InsertOK, IdleThread, Inserting
  <1>2. ASSUME NEW i \in Infos PROVE ~Linked(i)
    BY KeyOfType, InfosAssumption DEF Init, Linked, NoBucket
  <1> QED
    BY <1>1, <1>2 DEF TrackInv, Tracked

(* A step that leaves all of this alone. *)
LEMMA StutterTrack ==
    ASSUME TrackInv, UNCHANGED <<thr, bucket, lock, entry_gen, admitted, write_op_ch, m>>
    PROVE  TrackInv'
  <1>1. ASSUME NEW t \in Threads PROVE InsertOK(t)'
    BY StandingInsert, QuietUndisturbed DEF TrackInv
  <1>2. ASSUME NEW i \in Infos PROVE Tracked(i)'
    BY Zenon DEF TrackInv, Tracked, Linked, KeyOf, InsertsOf, LatestQueued, LatestSent, Latest
  <1> QED
    BY <1>1, <1>2 DEF TrackInv

=============================================================================

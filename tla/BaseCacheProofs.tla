-------------------------- MODULE BaseCacheProofs ---------------------------
(***************************************************************************)
(* The safety of BaseCache, for every value of the constants: the steps of *)
(* the maintenance task, the inductive invariant about the life of an entry,*)
(* and the refinement of EntryLifecycle.                                   *)
(***************************************************************************)
EXTENDS BaseCacheTracking

-----------------------------------------------------------------------------
(* The life of an entry: steps of the maintenance task *)

(* The predicates about the threads, which maintenance leaves alone. *)
ThreadsSame ==
    /\ \A u \in Threads, i \in Infos :
         /\ Retiring(u, i)' <=> Retiring(u, i)
         /\ Sending(u, i, "Upsert")' <=> Sending(u, i, "Upsert")
         /\ Sending(u, i, "Remove")' <=> Sending(u, i, "Remove")
         /\ Sees(u, i)' <=> Sees(u, i)
         /\ Prepared(u, i)' <=> Prepared(u, i)
         /\ Owns(u, i)' <=> Owns(u, i)
         /\ Holds(u, i)' <=> Holds(u, i)
    /\ \A i \in Infos : Allocated(i)' <=> Allocated(i)

(* They depend on the locals of the threads and on the allocations only. *)
LEMMA ThreadsFrame ==
    ASSUME UNCHANGED <<thr, allocs>>
    PROVE  ThreadsSame
  <1>1. \A u \in Threads, i \in Infos : /\ Retiring(u, i)' <=> Retiring(u, i)
                                        /\ Sending(u, i, "Upsert")' <=> Sending(u, i, "Upsert")
                                        /\ Sending(u, i, "Remove")' <=> Sending(u, i, "Remove")
    BY DEF Retiring, Sending
  <1>2. \A u \in Threads, i \in Infos : /\ Sees(u, i)' <=> Sees(u, i)
                                        /\ Prepared(u, i)' <=> Prepared(u, i)
                                        /\ Owns(u, i)' <=> Owns(u, i)
    BY DEF Sees, Prepared, Owns
  <1>3. \A u \in Threads, i \in Infos : Holds(u, i)' <=> Holds(u, i)
    BY <1>1 DEF Holds
  <1>4. \A i \in Infos : Allocated(i)' <=> Allocated(i)
    BY DEF Allocated
  <1> QED
    BY <1>1, <1>2, <1>3, <1>4 DEF ThreadsSame

(* The CHT and the retired flags stay: maintenance takes WriteOps, changes  *)
(* the admission flags and forgets what it has removed.                    *)
LEMMA PolicyStep ==
    ASSUME TypeInv, LifeInv, TypeOK', UNCHANGED <<thr, allocs, bucket, retired>>, UniqueRemoves',
           \A i \in Infos :
             /\ Queued(i, "Upsert")' => Queued(i, "Upsert")
             /\ Queued(i, "Remove")' => Queued(i, "Remove")
             /\ Queued(i, "Remove") => Queued(i, "Remove")' \/ i \notin admitted'
             /\ m'.removed = i => m.removed = i
             /\ m.removed = i => m'.removed = i \/ i \notin admitted'
             /\ m'.work.info = i => Known(i) /\ i \notin admitted'
             /\ i \in admitted' => i \in admitted \/ (Known(i) /\ Alive(i)),
           m'.work.info \in Infos \cup {None}
    PROVE  LifeInv'
  <1>t. ThreadsSame
    BY ThreadsFrame
  <1>a. admitted' \subseteq Infos /\ admitted \subseteq Infos
    BY Zenon DEF TypeInv, TypeOK
  <1>1. \A i \in Infos :
          /\ Linked(i)' <=> Linked(i)
          /\ Alive(i)' <=> Alive(i)
    BY DEF Linked, Alive
  <1>2. \A i \in Infos : Known(i)' <=> Known(i)
    BY SMTT(30), <1>t, <1>1 DEF ThreadsSame, Known
  <1>3. KnownOK'
    BY SMTT(30), <1>t, <1>2 DEF ThreadsSame, LifeInv, KnownOK
  <1>4. FreshOK'
    BY <1>t, <1>2 DEF ThreadsSame, LifeInv, FreshOK
  <1>5. CandidateOK'
    BY <1>a, InfosAssumption DEF CandidateOK
  <1>6. \A i \in Infos : Leaving(i)' => Leaving(i)
    BY <1>t DEF ThreadsSame, Leaving
  <1>7. RetireOnce'
    BY ZenonT(30), <1>t, <1>1, <1>6 DEF ThreadsSame, LifeInv, RetireOnce
  <1>8. NoOrphan'
    <2>1. \A i \in Infos : i \in admitted' => Linked(i) \/ Leaving(i)
      BY <1>a DEF LifeInv, NoOrphan, Known, Leaving, Holds
    <2>2. \A i \in Infos : i \in admitted' /\ Leaving(i) => Leaving(i)'
      BY <1>t DEF ThreadsSame, Leaving
    <2> QED BY <1>a, <1>1, <2>1, <2>2 DEF NoOrphan
  <1> QED
    BY SMTT(30), <1>3, <1>4, <1>5, <1>7, <1>8 DEF LifeInv

(* cht_remove_if_and_retire: the entry leaves the CHT and is retired.  It   *)
(* is the removed entry, or it is not admitted.                            *)
LEMMA RetireStep ==
    ASSUME TypeInv, BucketsOK, LifeInv, UNCHANGED <<thr, allocs, admitted, write_op_ch>>,
           NEW k \in Keys, bucket[k].info # None, cht_remove_and_retire(k), m.removed = None,
           m'.removed = bucket[k].info \/ (m'.removed = None /\ bucket[k].info \notin admitted),
           m'.work.info = m.work.info \/ m'.work.info = None
    PROVE  LifeInv' /\ LifeStep
  <1> DEFINE n == bucket[k].info
  <1>t. ThreadsSame
    BY ThreadsFrame
  <1>a. admitted \subseteq Infos /\ TypeOK
    BY DEF TypeInv, TypeOK
  <1>n. n \in Infos /\ KeyOf(n) = k
    BY <1>a DEF TypeOK, Buckets, BucketsOK
  <1>x. Linked(n)
    BY <1>n DEF Linked
  <1>l. \A i \in Infos : /\ Linked(i)' <=> Linked(i) /\ i # n
                         /\ Alive(i)' <=> Alive(i) /\ i # n
    <2>0. bucket' = [bucket EXCEPT ![k] = [info |-> None, ver |-> @.ver + 1]]
             /\ retired' = retired \cup {n}
      BY DEF cht_remove_and_retire
    <2>1. bucket'[k].info = None /\ \A j \in Keys : j # k => bucket'[j] = bucket[j]
      BY ZenonT(30), <1>a, <2>0, BucketCas
    <2>2. \A i \in Infos : KeyOf(i) \in Keys
      BY KeyOfType
    <2> QED BY SMTT(30), <1>n, <2>0, <2>1, <2>2, InfosAssumption DEF Linked, Alive
  <1>r. m'.removed = n \/ (m'.removed = None /\ n \notin admitted)
    OBVIOUS
  <1> HIDE DEF n
  <1>q. \A i \in Infos :
          /\ Queued(i, "Upsert")' <=> Queued(i, "Upsert")
          /\ Queued(i, "Remove")' <=> Queued(i, "Remove")
    BY SMTT(30) DEF Queued
  <1>2. \A i \in Infos : Known(i)' <=> Known(i)
    BY SMTT(30), <1>t, <1>l, <1>x DEF ThreadsSame, Known
  <1>3. KnownOK'
    BY SMTT(30), <1>t, <1>q, <1>2, InfosAssumption DEF ThreadsSame, LifeInv, KnownOK
  <1>4. FreshOK'
    BY SMTT(30), <1>t, <1>2 DEF ThreadsSame, LifeInv, FreshOK
  <1>5. CandidateOK'
    BY SMTT(30), <1>a, InfosAssumption DEF LifeInv, CandidateOK
  <1>6. \A i \in Infos : /\ Leaving(i)' => Leaving(i) \/ i = n
                         /\ Leaving(i) => Leaving(i)'
                         /\ m'.removed = i => i = n
    BY SMTT(30), <1>t, <1>q, <1>r, InfosAssumption DEF ThreadsSame, Leaving
  <1>7. RetireOnce'
    <2>1. ~Queued(n, "Remove") /\ \A u \in Threads : ~Holds(u, n)
      BY SMTT(30), <1>n, <1>x DEF LifeInv, RetireOnce, Leaving
    <2>2. UniqueRemoves'
      BY DEF LifeInv, RetireOnce, UniqueRemoves
    <2>3. \A i \in Infos : i = n => \A u \in Threads : ~Retiring(u, i)
      BY SMTT(30), <2>1 DEF Holds
    <2>4. \A i \in Infos : Leaving(i)' => ~Linked(i)'
      BY SMTT(30), <1>l, <1>6 DEF LifeInv, RetireOnce
    <2>5. \A i \in Infos : /\ Linked(i)' => Alive(i)'
                           /\ Queued(i, "Remove")' \/ m'.removed = i => ~Alive(i)'
                           /\ Queued(i, "Remove")' => m'.removed # i
      BY ZenonT(30), <1>l, <1>q, <1>6, <2>1 DEF LifeInv, RetireOnce
    <2>6. \A i \in Infos : \A u \in Threads :
            /\ Retiring(u, i)' => Alive(i)'
            /\ Sending(u, i, "Remove")' => ~Alive(i)'
      BY ZenonT(30), <1>t, <1>l, <2>1, <2>3 DEF ThreadsSame, LifeInv, RetireOnce
    <2>7. \A i \in Infos : \A u \in Threads :
            Holds(u, i)' => ~Queued(i, "Remove")' /\ m'.removed # i
      BY ZenonT(30), <1>t, <1>q, <1>6, <2>1 DEF ThreadsSame, LifeInv, RetireOnce
    <2>8. \A i \in Infos : \A u, v \in Threads : Holds(u, i)' /\ Holds(v, i)' => u = v
      BY ZenonT(30), <1>t DEF ThreadsSame, LifeInv, RetireOnce
    <2> QED BY SMTT(30), <2>2, <2>4, <2>5, <2>6, <2>7, <2>8 DEF RetireOnce
  <1>8. NoOrphan'
    <2>1. \A i \in admitted : i = n => Leaving(i)'
      BY <1>r DEF Leaving
    <2> QED BY SMTT(30), <1>a, <1>l, <1>6, <2>1 DEF LifeInv, NoOrphan
  <1>9. LifeStep
    <2>0. PICK c \in Infos : c = n
      BY <1>n
    <2>1. \A i \in Infos : i # c => Kept(i)
      BY SMTT(30), <2>0, <1>l, <1>6 DEF Kept
    <2>2. CASE m'.removed = n
      <3>1. Leaving(c)'
        BY <2>0, <2>2 DEF Leaving
      <3>2. LeavesCht(c)
        BY SMTT(30), <2>0, <3>1, <1>l, <1>x DEF LeavesCht
      <3> QED BY SMTT(30), <2>1, <3>2 DEF LifeStep
    <2>3. CASE m'.removed = None /\ n \notin admitted
      <3>1. ~Leaving(c)
        BY <2>0, <1>x DEF LifeInv, RetireOnce
      <3>2. ~Leaving(c)'
        BY ZenonT(30), <2>3, <3>1, <1>t, <1>q, InfosAssumption DEF ThreadsSame, Leaving
      <3>3. Declines(c)
        BY SMTT(30), <2>0, <2>3, <3>2, <1>l, <1>x DEF Declines, Gone
      <3> QED BY SMTT(30), <2>1, <3>3 DEF LifeStep
    <2> QED BY SMTT(30), <1>r, <2>2, <2>3
  <1> QED
    BY SMTT(30), <1>3, <1>4, <1>5, <1>7, <1>8, <1>9 DEF LifeInv

(* A step that changes no queue and no flag, and keeps or drops the work. *)
LEMMA QuietStep ==
    ASSUME TypeInv, LifeInv, TypeOK',
           UNCHANGED <<thr, allocs, bucket, retired, admitted, write_op_ch>>,
           m'.removed = m.removed, m'.work = m.work \/ m'.work = NoOp
    PROVE  LifeInv' /\ LifeStep
  <1>1. m.work.info \in Infos \cup {None} /\ NoOp.info = None
    BY ZenonT(30), Defaults DEF TypeInv, TypeOK, MaintStates, WriteOps
  <1>2. m'.work.info = m.work.info \/ m'.work.info = None
    BY <1>1
  <1>3. UniqueRemoves'
    BY DEF LifeInv, RetireOnce, UniqueRemoves
  <1>4. \A i \in Infos : /\ Queued(i, "Upsert")' <=> Queued(i, "Upsert")
                         /\ Queued(i, "Remove")' <=> Queued(i, "Remove")
    BY DEF Queued
  <1>5. \A i \in Infos : m.work.info = i => Known(i) /\ i \notin admitted
    BY DEF LifeInv, KnownOK, CandidateOK
  <1>6. LifeInv'
    BY SMTT(30), <1>1, <1>2, <1>3, <1>4, <1>5, InfosAssumption, PolicyStep
  <1>7. LifeStep
    <2>1. ThreadsSame
      BY ThreadsFrame
    <2>2. \A i \in Infos : /\ Linked(i)' <=> Linked(i)
                           /\ Alive(i)' <=> Alive(i)
      BY DEF Linked, Alive
    <2>3. \A i \in Infos : Leaving(i)' <=> Leaving(i)
      BY Zenon, <2>1, <1>4 DEF ThreadsSame, Leaving
    <2> QED BY <2>2, <2>3 DEF LifeStep, KeptAll, Kept
  <1> QED
    BY <1>6, <1>7

(* The maintenance steps that change nothing an entry's life depends on. *)
LEMMA QuietLife ==
    ASSUME TypeInv, LifeInv, TypeOK',
           \/ MaintStart \/ ApplyRead \/ ReadsDone \/ AdmitSkip \/ AdmitTake \/ AdmitDecide
           \/ VictimSkip \/ KeepCandidate \/ WritesDone \/ EvictSkipDirty \/ EvictPeek
           \/ EvictSkip \/ MaintAgain \/ MaintDone \/ AdmitLook \/ CheckAgain \/ VictimCheck
           \/ CandidateCheck \/ EvictCheck \/ EvictClean \/ EvictMiss
    PROVE  LifeInv' /\ LifeStep
  <1> USE DEF storeVars, infoVars, flagVars, chVars, userVars
  <1> DEFINE Frame == UNCHANGED <<thr, allocs, bucket, retired, admitted, write_op_ch>>
             Same == m'.removed = m.removed /\ (m'.work = m.work \/ m'.work = NoOp)
  <1>m. m \in MaintStates /\ MaintOK(mpc, m)
    BY DEF TypeInv, TypeOK, LocalsOK
  <1>i. IdleMaint.work = NoOp /\ IdleMaint.removed = None
    BY DEF IdleMaint
  <1>1. CASE MaintStart
    <2>1. Frame /\ Same
      BY <1>1, <1>m DEF MaintStart, MaintOK, IdleMaint
    <2> QED BY <2>1, QuietStep
  <1>2. CASE ApplyRead \/ ReadsDone \/ WritesDone \/ VictimSkip
    <2>1. Frame /\ Same
      BY ZenonT(30), <1>2, <1>m DEF ApplyRead, ReadsDone, WritesDone, VictimSkip, MaintStates
    <2> QED BY <2>1, QuietStep
  <1>3. CASE AdmitSkip
    <2>1. Frame /\ Same
      BY <1>3, <1>m DEF AdmitSkip, MaintStates
    <2> QED BY <2>1, QuietStep
  <1>4. CASE AdmitTake
    <2>1. Frame /\ Same
      BY ZenonT(30), <1>4, <1>m DEF AdmitTake, MaintStates
    <2> QED BY <2>1, QuietStep
  <1>5. CASE AdmitDecide \/ AdmitLook \/ EvictClean \/ EvictMiss
    <2>1. Frame /\ Same
      BY ZenonT(30), <1>5 DEF AdmitDecide, AdmitLook, EvictClean, EvictMiss
    <2> QED BY <2>1, QuietStep
  <1>6. CASE KeepCandidate
    <2>1. Frame /\ Same
      BY SMTT(30), <1>6, <1>m DEF KeepCandidate, MaintStates
    <2> QED BY <2>1, QuietStep
  <1>7. CASE EvictSkipDirty \/ EvictPeek \/ EvictSkip
    <2>1. Frame /\ Same
      BY ZenonT(30), <1>7, <1>m DEF EvictSkipDirty, EvictPeek, EvictSkip, SkipOne, MaintStates
    <2> QED BY <2>1, QuietStep
  <1>8. CASE MaintAgain
    <2>1. m.removed = None
      BY <1>8, <1>m DEF MaintAgain, MaintOK
    <2>2. Frame /\ Same
      BY ZenonT(30), <1>8, <1>m, <2>1 DEF MaintAgain, MaintStates, IdleMaint
    <2> QED BY <2>2, QuietStep
  <1>9. CASE MaintDone
    <2>1. Frame /\ Same
      BY SMTT(30), <1>9, <1>m, <1>i DEF MaintDone, MaintOK
    <2> QED BY SMTT(30), <2>1, QuietStep
  <1>10. CASE CheckAgain \/ VictimCheck \/ CandidateCheck \/ EvictCheck
    <2>0. Frame /\ \E b : m' = [m EXCEPT !.seen = b]
      BY Zenon, <1>10 DEF CheckAgain, VictimCheck, CandidateCheck, EvictCheck, Check
    <2>1. Frame /\ Same
      BY SMTT(30), <2>0, <1>m DEF MaintStates
    <2> QED BY SMTT(30), <2>1, QuietStep
  <1> QED
    BY SMTT(30), <1>1, <1>2, <1>3, <1>4, <1>5, <1>6, <1>7, <1>8, <1>9, <1>10

(* The policies learn of an entry, or change nothing. *)
LEMMA TrackStep ==
    ASSUME LifeInv, UNCHANGED <<thr, allocs, bucket, retired>>, m'.removed = m.removed,
           \A i \in Infos : Queued(i, "Remove")' <=> Queued(i, "Remove"),
           NEW n \in Infos, Known(n),
           \/ admitted' = admitted
           \/ admitted' = admitted \cup {n} /\ Alive(n)
    PROVE  LifeStep
  <1>1. ThreadsSame
    BY SMTT(30), ThreadsFrame
  <1>2. \A i \in Infos : /\ Linked(i)' <=> Linked(i)
                         /\ Alive(i)' <=> Alive(i)
    BY DEF Linked, Alive
  <1>3. \A i \in Infos : Leaving(i)' <=> Leaving(i)
    BY ZenonT(30), <1>1 DEF ThreadsSame, Leaving
  <1>4. \A i \in Infos : Kept(i)
    BY SMTT(30), <1>2, <1>3 DEF Kept
  <1>5. Alive(n) => Linked(n) \/ Leaving(n)
    BY SMTT(30) DEF Known, Leaving, Holds
  <1> QED
    BY <1>4, <1>5 DEF LifeStep, KeptAll, Tracks

(* The removal of an entry reaches the policies. *)
LEMMA ForgetStep ==
    ASSUME LifeInv, UNCHANGED <<thr, allocs, bucket, retired>>,
           NEW n \in Infos, Leaving(n), ~Alive(n), ~Queued(n, "Remove")', m'.removed # n,
           \A t \in Threads : ~Holds(t, n), admitted' = admitted \ {n},
           \A i \in Infos : i # n => /\ Queued(i, "Remove")' <=> Queued(i, "Remove")
                                     /\ m'.removed = i <=> m.removed = i
    PROVE  LifeStep
  <1>1. ThreadsSame
    BY SMTT(30), ThreadsFrame
  <1>2. \A i \in Infos : /\ Linked(i)' <=> Linked(i)
                         /\ Alive(i)' <=> Alive(i)
    BY DEF Linked, Alive
  <1>3. \A i \in Infos : i # n => Kept(i)
    BY Zenon, <1>1, <1>2 DEF ThreadsSame, Leaving, Kept
  <1>4. ~Linked(n) /\ ~Leaving(n)'
    BY ZenonT(30), <1>1 DEF ThreadsSame, Leaving, LifeInv, RetireOnce
  <1>5. Forgets(n)
    BY SMTT(30), <1>2, <1>4 DEF Forgets, Gone
  <1> QED
    BY SMTT(30), <1>3, <1>5 DEF LifeStep

(* apply_writes takes an Upsert and admits the entry, keeps it as the       *)
(* candidate of an admission, or is done with it.                          *)
LEMMA ReceiveUpsert ==
    ASSUME TypeInv, LifeInv, TypeOK', Receive("Upsert"),
           UNCHANGED <<thr, allocs, bucket, retired>>, m'.removed = m.removed,
           LET op == Head(write_op_ch) IN
             \/ admitted' = admitted /\ m'.work = NoOp
             \/ admitted' = admitted /\ m'.work = op /\ op.info \notin admitted
             \/ admitted' = admitted \cup {op.info} /\ m'.work = NoOp /\ Alive(op.info)
    PROVE  LifeInv' /\ LifeStep
  <1> DEFINE op == Head(write_op_ch)
  <1>1. write_op_ch # <<>> /\ write_op_ch' = Tail(write_op_ch) /\ op.kind = "Upsert" /\ TypeOK
    BY DEF Receive, TypeInv
  <1>2. /\ op \in WriteOps
        /\ Queued(op.info, op.kind)
        /\ \A i \in Infos : /\ Queued(i, "Upsert")' => Queued(i, "Upsert")
                            /\ Queued(i, "Remove")' => Queued(i, "Remove")
                            /\ Queued(i, "Remove") => Queued(i, "Remove")'
        /\ UniqueRemoves'
    BY ZenonT(30), <1>1, QueueTail DEF LifeInv, RetireOnce
  <1>3. op.info \in Infos /\ Known(op.info)
    BY SMTT(30), <1>1, <1>2 DEF WriteOps, LifeInv, KnownOK
  <1> HIDE DEF op
  <1>c. \/ admitted' = admitted /\ m'.work = NoOp
        \/ admitted' = admitted /\ m'.work = op /\ op.info \notin admitted
        \/ admitted' = admitted \cup {op.info} /\ m'.work = NoOp /\ Alive(op.info)
    BY DEF op
  <1>4. m'.work.info = None \/ (m'.work.info = op.info /\ op.info \notin admitted')
    BY SMTT(30), <1>c, Defaults
  <1>5. \A i \in Infos : i \in admitted' => i \in admitted \/ (Known(i) /\ Alive(i))
    BY SMTT(30), <1>c, <1>3
  <1>6. LifeInv'
    BY SMTT(30), <1>2, <1>3, <1>4, <1>5, InfosAssumption, PolicyStep
  <1>7. LifeStep
    <2>1. \A i \in Infos : Queued(i, "Remove")' <=> Queued(i, "Remove")
      BY <1>2
    <2> QED BY SMTT(30), <1>3, <1>c, <2>1, TrackStep
  <1> QED
    BY SMTT(30), <1>6, <1>7

(* handle_remove of an entry the CHT no longer holds. *)
LEMMA ForgetLife ==
    ASSUME TypeInv, LifeInv, TypeOK', VictimRemoved \/ EvictRemoved
    PROVE  LifeInv' /\ LifeStep
  <1>m. m \in MaintStates
    BY DEF TypeInv, TypeOK
  <1>1. UNCHANGED <<thr, allocs, bucket, retired, write_op_ch>> /\ admitted' = admitted \ {m.removed}
           /\ m'.removed = None /\ m'.work = m.work
    <2>1. UNCHANGED <<thr, allocs, bucket, retired, write_op_ch>> /\ admitted' = admitted \ {m.removed}
      BY DEF VictimRemoved, EvictRemoved, handle_remove, storeVars, infoVars, chVars, userVars
    <2>2. CASE VictimRemoved
      BY <1>m, <2>1, <2>2 DEF VictimRemoved, MaintStates
    <2>3. CASE EvictRemoved
      <3>1. m' = [m EXCEPT !.removed = None, !.evict = m'.evict]
        BY SMTT(30), <1>m, <2>3 DEF EvictRemoved, MaintStates
      <3> QED BY ZenonT(30), <1>m, <2>1, <3>1 DEF MaintStates
    <2> QED BY <2>2, <2>3
  <1>2. m.work.info \in Infos \cup {None}
    BY <1>m, Defaults DEF MaintStates, WriteOps
  <1>3. UniqueRemoves'
    BY ZenonT(30), <1>1 DEF LifeInv, RetireOnce, UniqueRemoves
  <1>4. \A i \in Infos : /\ Queued(i, "Upsert")' <=> Queued(i, "Upsert")
                         /\ Queued(i, "Remove")' <=> Queued(i, "Remove")
    BY <1>1 DEF Queued
  <1>5. \A i \in Infos : m.work.info = i => Known(i) /\ i \notin admitted
    BY DEF LifeInv, KnownOK, CandidateOK
  <1>6. LifeInv'
    BY ZenonT(30), <1>1, <1>2, <1>3, <1>4, <1>5, InfosAssumption, PolicyStep
  <1>7. LifeStep
    <2>1. m.removed \in Infos
      BY <1>m DEF VictimRemoved, EvictRemoved, TypeInv, LocalsOK, MaintOK, MaintStates
    <2>n. PICK n \in Infos : n = m.removed
      BY SMTT(30), <2>1
    <2>2. /\ Leaving(n) /\ ~Alive(n) /\ ~Queued(n, "Remove")
          /\ \A t \in Threads : ~Holds(t, n)
      BY <2>n DEF LifeInv, RetireOnce, Leaving
    <2>3. m'.removed # n /\ ~Queued(n, "Remove")'
      BY ZenonT(30), <1>1, <1>4, <2>2, InfosAssumption
    <2>4. \A i \in Infos : i # n => (m'.removed = i <=> m.removed = i)
      BY ZenonT(30), <1>1, <2>n, InfosAssumption
    <2>5. admitted' = admitted \ {n}
      BY Zenon, <1>1, <2>n
    <2> QED BY ZenonT(30), <1>1, <1>4, <2>2, <2>3, <2>4, <2>5, ForgetStep
  <1> QED
    BY SMTT(30), <1>6, <1>7

(* handle_remove of the entry of a WriteOp::Remove. *)
LEMMA ApplyRemoveLife ==
    ASSUME TypeInv, LifeInv, TypeOK', ApplyRemove
    PROVE  LifeInv' /\ LifeStep
  <1> DEFINE op == Head(write_op_ch)
  <1>m. m \in MaintStates /\ m.work = NoOp
    BY DEF TypeInv, TypeOK, LocalsOK, MaintOK, ApplyRemove, Receive, Working
  <1>1. UNCHANGED <<thr, allocs, bucket, retired>> /\ admitted' = admitted \ {op.info}
           /\ m'.removed = m.removed /\ m'.work = NoOp
    BY <1>m DEF ApplyRemove, handle_remove, storeVars, userVars, MaintStates
  <1>2. write_op_ch # <<>> /\ write_op_ch' = Tail(write_op_ch) /\ op.kind = "Remove" /\ TypeOK
    BY DEF ApplyRemove, Receive, TypeInv
  <1>3. /\ \A i \in Infos : /\ Queued(i, "Upsert")' => Queued(i, "Upsert")
                            /\ Queued(i, "Remove")' => Queued(i, "Remove")
                            /\ Queued(i, "Remove") => Queued(i, "Remove")' \/ op.info = i
                            /\ op.info = i => ~Queued(i, "Remove")'
        /\ UniqueRemoves'
        /\ op \in WriteOps
        /\ Queued(op.info, "Remove")
    BY ZenonT(30), <1>2, QueueTail DEF LifeInv, RetireOnce
  <1>4. m'.work.info = None
    BY SMTT(30), <1>1, Defaults
  <1> HIDE DEF op
  <1>5. LifeInv'
    BY SMTT(30), <1>1, <1>3, <1>4, InfosAssumption, PolicyStep
  <1>6. LifeStep
    <2>0. op.info \in Infos
      BY <1>3 DEF WriteOps
    <2>n. PICK n \in Infos : n = op.info
      BY <2>0
    <2>1. Queued(n, "Remove") /\ ~Queued(n, "Remove")'
      BY SMTT(30), <1>3, <2>n
    <2>2. /\ Leaving(n) /\ ~Alive(n) /\ m.removed # n
          /\ \A t \in Threads : ~Holds(t, n)
      BY <2>1 DEF LifeInv, RetireOnce, Leaving
    <2>3. \A i \in Infos : i # n => (Queued(i, "Remove")' <=> Queued(i, "Remove"))
      BY SMTT(30), <1>3, <2>n
    <2>4. admitted' = admitted \ {n} /\ m'.removed # n
      BY SMTT(30), <1>1, <2>n, <2>2
    <2> QED BY ZenonT(30), <1>1, <2>1, <2>2, <2>3, <2>4, ForgetStep
  <1> QED
    BY SMTT(30), <1>5, <1>6

(* handle_upsert up to the admission of a candidate that has to wait for    *)
(* its victims.                                                            *)
LEMMA UpsertLife ==
    ASSUME TypeInv, LifeInv, TypeOK',
           UpsertRetired \/ UpsertAdmitted \/ UpsertFits \/ UpsertTooBig \/ UpsertContends
    PROVE  LifeInv' /\ LifeStep
  <1> DEFINE op == Head(write_op_ch)
  <1>0. Receive("Upsert") /\ mpc = "writes"
    BY ZenonT(30) DEF UpsertRetired, UpsertAdmitted, UpsertFits, UpsertTooBig, UpsertContends, Receive
  <1>m. m \in MaintStates /\ m.work = NoOp
    BY <1>0 DEF TypeInv, TypeOK, LocalsOK, MaintOK, Working
  <1>1. UNCHANGED <<thr, allocs, bucket, retired>>
    BY ZenonT(30) DEF UpsertRetired, UpsertAdmitted, UpsertFits, UpsertTooBig, UpsertContends,
           storeVars, infoVars, flagVars, userVars
  <1>2. CASE UpsertRetired \/ UpsertAdmitted
    <2>1. admitted' = admitted
      BY <1>2 DEF UpsertRetired, UpsertAdmitted, flagVars
    <2>2. m' = [m EXCEPT !.left = @ - 1]
      BY <1>2 DEF UpsertRetired, UpsertAdmitted
    <2>3. m'.work = NoOp /\ m'.removed = m.removed
      BY SMTT(30), <2>2, <1>m DEF MaintStates
    <2> QED BY SMTT(30), <1>0, <1>1, <2>1, <2>3, ReceiveUpsert
  <1>3. CASE UpsertFits
    <2>1. admitted' = admitted \cup {op.info} /\ Alive(op.info)
      BY <1>3 DEF UpsertFits, handle_admit, is_alive, Alive
    <2>2. m' = [m EXCEPT !.left = @ - 1]
      BY <1>3 DEF UpsertFits
    <2>3. m'.work = NoOp /\ m'.removed = m.removed
      BY <2>2, <1>m DEF MaintStates
    <2> QED BY SMTT(30), <1>0, <1>1, <2>1, <2>3, ReceiveUpsert
  <1>4. CASE UpsertTooBig \/ UpsertContends
    <2>1. admitted' = admitted /\ op.info \notin admitted
      BY Zenon, <1>4 DEF UpsertTooBig, UpsertContends, flagVars
    <2>2. m'.work = op /\ m'.removed = m.removed
      <3>1. CASE UpsertTooBig
        BY <3>1, <1>m DEF UpsertTooBig, MaintStates
      <3>2. CASE UpsertContends
        BY ZenonT(30), <3>2, <1>m DEF UpsertContends, MaintStates
      <3> QED BY <1>4, <3>1, <3>2
    <2> QED BY SMTT(30), <1>0, <1>1, <2>1, <2>2, ReceiveUpsert
  <1> QED
    BY <1>2, <1>3, <1>4

(* The end of the admitted branch of handle_upsert. *)
LEMMA AdmitCandidateLife ==
    ASSUME TypeInv, LifeInv, TypeOK', AdmitCandidate
    PROVE  LifeInv' /\ LifeStep
  <1> DEFINE n == m.work.info
  <1>m. m \in MaintStates /\ n \in Infos
    BY WorkTypes DEF AdmitCandidate, Working
  <1>1. UNCHANGED <<thr, allocs, bucket, retired, write_op_ch>>
           /\ m'.removed = m.removed /\ m'.work = NoOp
    BY <1>m DEF AdmitCandidate, storeVars, chVars, userVars, MaintStates
  <1>2. \/ admitted' = admitted
        \/ admitted' = admitted \cup {n} /\ Alive(n)
    BY DEF AdmitCandidate, handle_admit, is_alive, Alive
  <1>3. Known(n)
    BY SMTT(30), <1>m DEF LifeInv, KnownOK
  <1>4. UniqueRemoves'
    BY SMTT(30), <1>1 DEF LifeInv, RetireOnce, UniqueRemoves
  <1>5. \A i \in Infos : /\ Queued(i, "Upsert")' <=> Queued(i, "Upsert")
                         /\ Queued(i, "Remove")' <=> Queued(i, "Remove")
    BY <1>1 DEF Queued
  <1>6. m'.work.info = None
    BY <1>1, Defaults
  <1> HIDE DEF n
  <1>7. \A i \in Infos : i \in admitted' => i \in admitted \/ (Known(i) /\ Alive(i))
    BY SMTT(30), <1>2, <1>3
  <1>8. LifeInv'
    BY SMTT(30), <1>1, <1>2, <1>4, <1>5, <1>6, <1>7, InfosAssumption, PolicyStep
  <1>9. LifeStep
    BY ZenonT(30), <1>m, <1>1, <1>2, <1>3, <1>5, TrackStep
  <1> QED
    BY <1>8, <1>9

(* The three removals of maintenance: a victim, an evicted entry, and a     *)
(* candidate that is too big or was rejected.                              *)
LEMMA UnlinkLife ==
    ASSUME TypeInv, BucketsOK, LifeInv, VictimRemove \/ EvictRemove \/ RemoveCandidate
    PROVE  LifeInv' /\ LifeStep
  <1> USE DEF infoVars, chVars, policyVars, userVars
  <1>m. m \in MaintStates /\ MaintOK(mpc, m)
    BY DEF TypeInv, TypeOK, LocalsOK
  <1>r. m.removed = None
    BY <1>m DEF VictimRemove, EvictRemove, RemoveCandidate, MaintOK
  <1>1. CASE VictimRemove
    <2> DEFINE k == Head(m.victims).key
    <2>1. m.victims \in Seq(Victims) /\ m.victims # <<>>
      BY <1>1, <1>m DEF VictimRemove, MaintStates
    <2>2. Head(m.victims) \in Victims
      BY <2>1
    <2>3. k \in Keys
      BY <2>2 DEF Victims
    <2>4. bucket[k].info # None /\ cht_remove_and_retire(k)
             /\ UNCHANGED <<thr, allocs, admitted, write_op_ch>>
             /\ m'.removed = bucket[k].info /\ m'.work = m.work
      BY SMTT(30), <1>1, <1>m DEF VictimRemove, Checked, MaintStates
    <2> HIDE DEF k
    <2> QED BY SMTT(30), <1>r, <2>3, <2>4, RetireStep
  <1>2. CASE EvictRemove
    <2> DEFINE k == m.evict.key
    <2>1. k \in Keys
      BY <1>2, <1>m DEF EvictRemove, MaintOK
    <2>2. bucket[k].info # None /\ cht_remove_and_retire(k)
             /\ UNCHANGED <<thr, allocs, admitted, write_op_ch>>
             /\ m'.removed = bucket[k].info /\ m'.work = m.work
      BY SMTT(30), <1>2, <1>m DEF EvictRemove, Checked, MaintStates
    <2> HIDE DEF k
    <2> QED BY SMTT(30), <1>r, <2>1, <2>2, RetireStep
  <1>3. CASE RemoveCandidate
    <2> DEFINE k == KeyOf(m.work.info)
    <2>0. m.work.info \in Infos
      BY <1>3, WorkTypes DEF RemoveCandidate, Working
    <2>1. k \in Keys
      BY <2>0, KeyOfType
    <2>a. bucket[k].info = m.work.info
      BY <1>3, <1>m DEF RemoveCandidate, Checked, MaintOK
    <2>2. bucket[k].info = m.work.info /\ cht_remove_and_retire(k)
             /\ UNCHANGED <<thr, allocs, admitted, write_op_ch>>
             /\ m'.removed = None /\ m'.work = NoOp
      BY SMTT(30), <1>3, <1>m, <1>r, <2>a DEF RemoveCandidate, MaintStates
    <2>3. m.work.info \notin admitted /\ m'.work.info = None
      BY SMTT(30), <2>2, Defaults DEF LifeInv, CandidateOK
    <2> HIDE DEF k
    <2> QED BY SMTT(30), <1>r, <2>0, <2>1, <2>2, <2>3, InfosAssumption, RetireStep
  <1> QED
    BY SMTT(30), <1>1, <1>2, <1>3

(* Whatever the maintenance task does keeps LifeInv. *)
LEMMA MaintLife ==
    ASSUME TypeInv, BucketsOK, LifeInv, Maintenance
    PROVE  LifeInv' /\ LifeStep
  <1>1. TypeOK'
    BY MaintTypes DEF TypeInv
  <1> QED
    BY SMTT(30), <1>1, QuietLife, ForgetLife, ApplyRemoveLife, UpsertLife, AdmitCandidateLife, UnlinkLife
    DEF Maintenance

-----------------------------------------------------------------------------
(* An empty cache satisfies the invariants. *)
LEMMA InitLife == Init => BucketsOK /\ LifeInv
  <1> SUFFICES ASSUME Init PROVE BucketsOK /\ LifeInv
    OBVIOUS
  <1>t. /\ \A t \in Threads : thr[t] = IdleThread
        /\ \A k \in Keys : bucket[k] = NoBucket
        /\ m = IdleMaint /\ admitted = {} /\ retired = {} /\ write_op_ch = <<>>
    BY DEF Init
  <1>i. IdleThread.pc = "idle" /\ IdleThread.own = None
    BY DEF IdleThread
  <1>j. \A t \in Threads : thr[t].pc = "idle" /\ thr[t].own = None
    BY SMTT(30), <1>t, <1>i
  <1>b. BucketsOK
    <2>1. \A k \in Keys : bucket[k].info = None
      BY SMTT(30), <1>t, Defaults
    <2> QED BY SMTT(30), <1>j, <2>1 DEF BucketsOK
  <1>1. \A i \in Infos : /\ ~Linked(i) /\ Alive(i)
                         /\ ~Queued(i, "Upsert") /\ ~Queued(i, "Remove")
                         /\ m.removed # i /\ m.work.info # i
    <2>1. \A i \in Infos : KeyOf(i) \in Keys
      BY SMTT(30), KeyOfType
    <2>2. \A i \in Infos : ~Linked(i) /\ Alive(i)
      BY SMTT(30), <1>t, <2>1, InfosAssumption DEF Linked, Alive, NoBucket
    <2>3. \A i \in Infos : ~Queued(i, "Upsert") /\ ~Queued(i, "Remove")
      BY SMTT(30), <1>t DEF Queued
    <2>4. \A i \in Infos : m.removed # i /\ m.work.info # i
      BY SMTT(30), <1>t, Defaults, InfosAssumption DEF IdleMaint
    <2> QED BY <2>2, <2>3, <2>4
  <1>2. \A t \in Threads, i \in Infos :
          ~Retiring(t, i) /\ ~Sending(t, i, "Upsert") /\ ~Sending(t, i, "Remove")
            /\ ~Sees(t, i) /\ ~Prepared(t, i) /\ ~Owns(t, i) /\ ~Holds(t, i)
    <2>2. \A t \in Threads, i \in Infos :
            ~Retiring(t, i) /\ ~Sending(t, i, "Upsert") /\ ~Sending(t, i, "Remove")
      BY <1>j DEF Retiring, Sending
    <2>3. \A t \in Threads, i \in Infos : ~Sees(t, i) /\ ~Prepared(t, i) /\ ~Owns(t, i)
      BY <1>j, InfosAssumption DEF Sees, Prepared, Owns, Inserting
    <2> QED BY SMTT(30), <2>2, <2>3 DEF Holds
  <1>3. \A i \in Infos : ~Known(i) /\ ~Leaving(i)
    BY Zenon, <1>1, <1>2 DEF Known, Leaving
  <1>4. KnownOK /\ FreshOK
    BY ZenonT(30), <1>t, <1>1, <1>2, <1>3 DEF KnownOK, FreshOK
  <1>5. UniqueRemoves
    BY <1>t DEF UniqueRemoves
  <1>6. RetireOnce
    BY ZenonT(30), <1>1, <1>2, <1>3, <1>5 DEF RetireOnce
  <1>7. NoOrphan /\ CandidateOK
    BY <1>t DEF NoOrphan, CandidateOK
  <1> QED
    BY SMTT(30), <1>b, <1>4, <1>6, <1>7 DEF LifeInv

(* A step that changes no variable of the invariants keeps them. *)
LEMMA StutterLife ==
    ASSUME TypeInv, BucketsOK, LifeInv, TypeOK',
           UNCHANGED <<bucket, retired, admitted, write_op_ch, thr, allocs, m>>
    PROVE  BucketsOK' /\ LifeInv' /\ LifeStep
  <1>1. BucketsOK'
    BY Zenon DEF BucketsOK, SeesBucket
  <1>2. LifeInv' /\ LifeStep
    BY QuietStep
  <1> QED
    BY <1>1, <1>2

(* Every step of a thread, of maintenance and of the clock keeps IInv and   *)
(* takes at most one entry one step further in its life.                   *)
LEMMA InvInductive == IInv /\ [Next]_vars => IInv' /\ LifeStep
  <1> SUFFICES ASSUME IInv, [Next]_vars PROVE IInv' /\ LifeStep
    OBVIOUS
  <1> USE DEF storeVars, infoVars, flagVars, chVars, policyVars, userVars, maintVars
  <1>0. TypeInv /\ BucketsOK /\ LifeInv /\ TypeInv' /\ TypeOK'
    BY SMTT(30), NextTypes DEF IInv, TypeInv
  <1>1. CASE Tick
    BY SMTT(30), <1>0, <1>1, StutterLife DEF Tick, IInv, TypeInv
  <1>2. ASSUME NEW t \in Threads, UserStep(t) PROVE IInv' /\ LifeStep
    BY SMTT(30), <1>0, <1>2, UserBuckets, UserLife DEF IInv, TypeInv
  <1>3. CASE Maintenance
    BY SMTT(30), <1>0, <1>3, MaintBuckets, MaintLife DEF IInv, TypeInv
  <1>4. CASE UNCHANGED vars
    BY <1>0, <1>4, StutterLife DEF vars, IInv, TypeInv
  <1> QED
    BY SMTT(30), <1>1, <1>2, <1>3, <1>4 DEF Next

(* The inductive invariant holds in every state of the cache: what threads, *)
(* the channel and maintenance hold of an entry always agrees with the CHT *)
(* and with the flags of its EntryInfo.                                    *)
THEOREM InvHolds == Spec => []IInv
  <1>1. Init => IInv
    BY InitTypes, InitLife DEF IInv, TypeInv
  <1> QED
    BY <1>1, InvInductive, PTL DEF Spec

(* An admitted entry is in the CHT, or the task that unlinked it will take  *)
(* it out of the deque: no interleaving of insert, invalidate, get and     *)
(* run_pending_tasks leaves an orphan node (issue 590), whatever the       *)
(* number of keys and threads, the capacity, the policy, the channel sizes *)
(* and the batch sizes, with or without key locks.                         *)
THEOREM NoOrphanHolds == Spec => []NoOrphan
  <1>1. IInv => NoOrphan
    BY DEF IInv, LifeInv
  <1> QED
    BY <1>1, InvHolds, PTL

(* An entry is unlinked and retired by one task, once: the debug assertion  *)
(* of EntryInfo::retire cannot fail, and no entry is removed from the      *)
(* deque for two WriteOps.                                                 *)
THEOREM RetireOnceHolds == Spec => []RetireOnce
  <1>1. IInv => RetireOnce
    BY DEF IInv, LifeInv
  <1> QED
    BY <1>1, InvHolds, PTL

-----------------------------------------------------------------------------
(* The life of an entry *)

(* The stage that the refinement mapping gives an entry. *)
LEMMA Stages ==
    ASSUME NEW i \in Infos
    PROVE  /\ Linked(i) => StageOf(i) = "linked"
           /\ ~Linked(i) /\ Leaving(i) => StageOf(i) = "leaving"
           /\ ~Linked(i) /\ ~Leaving(i) /\ ~Alive(i) => StageOf(i) = "gone"
           /\ ~Linked(i) /\ ~Leaving(i) /\ Alive(i) => StageOf(i) = "free"
           /\ Linked(i)' => StageOf(i)' = "linked"
           /\ ~Linked(i)' /\ Leaving(i)' => StageOf(i)' = "leaving"
           /\ ~Linked(i)' /\ ~Leaving(i)' /\ ~Alive(i)' => StageOf(i)' = "gone"
           /\ ~Linked(i)' /\ ~Leaving(i)' /\ Alive(i)' => StageOf(i)' = "free"
  BY DEF StageOf

(* A step of the life of one entry is a step of EntryLifecycle. *)
LEMMA LifecycleStep ==
    ASSUME LifeStep
    PROVE  [Lifecycle!Next]_(Lifecycle!lifecycleVars)
  <1> DEFINE St == [i \in Infos |-> StageOf(i)]
  <1>k. \A i \in Infos : Kept(i) => StageOf(i)' = StageOf(i)
    BY Stages DEF Kept
  <1>1. CASE KeptAll
    <2>1. St' = St /\ admitted' = admitted
      BY <1>1, <1>k DEF KeptAll
    <2> QED BY <2>1 DEF Lifecycle!lifecycleVars
  <1>2. ASSUME NEW n \in Infos, \A i \in Infos : i # n => Kept(i),
               Links(n) \/ Tracks(n) \/ LeavesCht(n) \/ Forgets(n) \/ Declines(n)
        PROVE  Lifecycle!Next
    <2>1. ASSUME NEW x, StageOf(n)' = x PROVE St' = [St EXCEPT ![n] = x]
      BY ZenonT(30), <1>2, <1>k, <2>1
    <2>2. CASE Links(n)
      <3>1. StageOf(n) = "free" /\ StageOf(n)' = "linked" /\ admitted' = admitted
        BY SMTT(30), <2>2, Stages DEF Links
      <3>2. \A j \in Infos : j[1] = n[1] => StageOf(j) # "linked"
        BY <2>2, Stages DEF Links, KeyOf
      <3> QED BY ZenonT(30), <2>1, <3>1, <3>2 DEF Lifecycle!Next, Lifecycle!Link, Lifecycle!Moves
    <2>3. CASE Tracks(n)
      <3>1. StageOf(n) \in {"linked", "leaving"} /\ admitted' = admitted \cup {n}
        BY SMTT(30), <2>3, Stages DEF Tracks
      <3>2. St' = St
        BY SMTT(30), <1>2, <1>k, <2>3 DEF Tracks
      <3> QED BY SMTT(30), <3>1, <3>2 DEF Lifecycle!Next, Lifecycle!Track
    <2>4. CASE LeavesCht(n)
      <3>1. StageOf(n) = "linked" /\ StageOf(n)' = "leaving" /\ admitted' = admitted
        BY <2>4, Stages DEF LeavesCht
      <3> QED BY SMTT(30), <2>1, <3>1 DEF Lifecycle!Next, Lifecycle!Unlink, Lifecycle!Moves
    <2>5. CASE Forgets(n)
      <3>1. StageOf(n) = "leaving" /\ StageOf(n)' = "gone" /\ admitted' = admitted \ {n}
        BY <2>5, Stages DEF Forgets, Gone
      <3> QED BY ZenonT(30), <2>1, <3>1 DEF Lifecycle!Next, Lifecycle!Forget, Lifecycle!Moves
    <2>6. CASE Declines(n)
      <3>1. /\ StageOf(n) = "linked" /\ StageOf(n)' = "gone"
            /\ admitted' = admitted /\ n \notin admitted
        BY SMTT(30), <2>6, Stages DEF Declines, Gone
      <3> QED BY ZenonT(30), <2>1, <3>1 DEF Lifecycle!Next, Lifecycle!Decline, Lifecycle!Moves
    <2> QED BY SMTT(30), <1>2, <2>2, <2>3, <2>4, <2>5, <2>6
  <1> QED
    BY SMTT(30), <1>1, <1>2 DEF LifeStep

(* The entries of an empty cache are free. *)
LEMMA LifecycleInit == Init => Lifecycle!Init
  <1> SUFFICES ASSUME Init PROVE Lifecycle!Init
    BY SMTT(30)
  <1>1. \A i \in Infos : ~Linked(i) /\ Alive(i) /\ ~Leaving(i)
    <2>1. \A i \in Infos : KeyOf(i) \in Keys
      BY SMTT(30), KeyOfType
    <2>2. \A i \in Infos : ~Linked(i) /\ Alive(i)
      BY SMTT(30), <2>1, InfosAssumption DEF Init, Linked, Alive, NoBucket
    <2>a. write_op_ch = <<>> /\ m.removed = None
      BY DEF Init, IdleMaint
    <2>3. \A i \in Infos : ~Queued(i, "Remove") /\ m.removed # i
      BY SMTT(30), <2>a, InfosAssumption DEF Queued
    <2>4. \A t \in Threads : thr[t].pc = "idle"
      BY DEF Init, IdleThread
    <2> QED BY SMTT(30), <2>2, <2>3, <2>4 DEF Leaving, Holds, Retiring, Sending
  <1>2. \A i \in Infos : StageOf(i) = "free"
    BY <1>1, Stages
  <1> QED
    BY <1>2 DEF Init, Lifecycle!Init

(* The cache implements EntryLifecycle: whatever insertions, removals,      *)
(* reads and maintenance do, and in whatever order, every EntryInfo enters *)
(* the CHT at most once, is unlinked once, is forgotten by the policies    *)
(* once, and is never seen by them again.                                  *)
THEOREM LifecycleRefined == Spec => ImplementsLifecycle
  <1>1. IInv /\ [Next]_vars => [Lifecycle!Next]_(Lifecycle!lifecycleVars)
    BY InvInductive, LifecycleStep
  <1> QED
    BY <1>1, LifecycleInit, InvHolds, PTL DEF Spec, ImplementsLifecycle, Lifecycle!Spec

-----------------------------------------------------------------------------
(* The admission flags, the access-order deque and entry_count agree in     *)
(* every state of the cache: move_to_back_ao and unlink_ao never meet an   *)
(* entry without its node, no entry has two nodes, and handle_remove never *)
(* takes entry_count below zero.                                           *)
THEOREM DequeMirrorsAdmittedHolds == Spec => []DequeMirrorsAdmitted
  <1>1. Init => DequeMirrorsAdmitted
    BY DEF Init, DequeMirrorsAdmitted
  <1>2. IInv /\ DequeMirrorsAdmitted /\ [Next]_vars => DequeMirrorsAdmitted'
    <2> SUFFICES ASSUME IInv, DequeMirrorsAdmitted, [Next]_vars PROVE DequeMirrorsAdmitted'
      OBVIOUS
    <2>0. TypeInv /\ BucketsOK /\ LifeInv
      BY SMTT(30) DEF IInv, TypeInv
    <2>1. CASE Tick \/ UNCHANGED vars
      BY <2>1 DEF Tick, vars, flagVars, policyVars, maintVars, DequeMirrorsAdmitted
    <2>2. ASSUME NEW t \in Threads, UserStep(t) PROVE DequeMirrorsAdmitted'
      BY <2>2, UserDeque
    <2>3. CASE Maintenance
      BY SMTT(30), <2>0, <2>3, QuietDeque, MoveDeque, ChangeDeque DEF Maintenance
    <2> QED BY SMTT(30), <2>1, <2>2, <2>3 DEF Next
  <1> QED
    BY <1>1, <1>2, InvHolds, PTL DEF Spec

-----------------------------------------------------------------------------
(* TrackInv holds in every reachable state, when keys are locked. *)
LEMMA TrackHolds == ASSUME KeyLocks PROVE Spec => []TrackInv
  <1>1. IInv /\ TrackInv /\ [Next]_vars => TrackInv'
    <2> SUFFICES ASSUME IInv, TrackInv, [Next]_vars PROVE TrackInv'
      OBVIOUS
    <2>0. TypeInv /\ BucketsOK /\ LifeInv
      BY SMTT(30) DEF IInv, TypeInv
    <2>1. CASE Tick \/ UNCHANGED vars
      BY <2>1, StutterTrack
      DEF Tick, vars, storeVars, infoVars, flagVars, chVars, userVars, maintVars
    <2>2. ASSUME NEW t \in Threads, UserStep(t) PROVE TrackInv'
      BY SMTT(30), <2>0, <2>2, UserStepTrack
    <2>3. CASE Maintenance
      BY <2>0, <2>3, MaintenanceTrack
    <2> QED BY <2>1, <2>2, <2>3 DEF Next
  <1> QED
    BY <1>1, InitTrack, InvHolds, PTL DEF Spec

(* With key locks no entry escapes the policies: an entry of the CHT that   *)
(* is not admitted has a WriteOp on its way, is the candidate of an        *)
(* admission, or somebody is inserting its key.                            *)
THEOREM LinkedIsTrackedHolds == ASSUME KeyLocks PROVE Spec => []LinkedIsTracked
  <1>1. IInv /\ TrackInv => LinkedIsTracked
    <2> SUFFICES ASSUME IInv, TrackInv, NEW k \in Keys,
                        bucket[k].info # None, bucket[k].info \notin admitted
                 PROVE  LET i == bucket[k].info IN
                        \/ Queued(i, "Upsert")
                        \/ m.work.info = i
                        \/ \E t \in Threads :
                             \/ Sending(t, i, "Upsert")
                             \/ thr[t].pc \in {"load", "modify", "cas"} /\ thr[t].key = k
      BY Zenon DEF LinkedIsTracked
    <2> DEFINE i == bucket[k].info
    <2>1. i \in Infos /\ KeyOf(i) = k
      BY Zenon DEF IInv, TypeOK, Buckets, BucketsOK
    <2>2. Linked(i)
      BY <2>1 DEF Linked
    <2> HIDE DEF i
    <2>3. InsertsOf(k) \/ LatestQueued(i) \/ LatestSent(i) \/ Latest(m.work, i)
      BY SMTT(30), <2>1, <2>2 DEF TrackInv, Tracked, i
    <2>4. InsertsOf(k) => \E t \in Threads :
            thr[t].pc \in {"load", "modify", "cas"} /\ thr[t].key = k
      BY DEF InsertsOf, Inserting
    <2>5. LatestQueued(i) => Queued(i, "Upsert")
      BY DEF LatestQueued, Latest, Queued
    <2>6. LatestSent(i) => \E t \in Threads : Sending(t, i, "Upsert")
      BY DEF LatestSent, Latest, Sending
    <2>7. Latest(m.work, i) => m.work.info = i
      BY DEF Latest
    <2> QED BY ZenonT(30), <2>3, <2>4, <2>5, <2>6, <2>7 DEF i
  <1> QED
    BY <1>1, InvHolds, TrackHolds, PTL

(* With key locks the WriteOp that do_insert_with_hash returns is about the *)
(* entry that its CAS has put into the CHT: the reading of the serial      *)
(* numbers of its two closures is right, whatever the CAS was retried for. *)
THEOREM InsertReportsHolds == ASSUME KeyLocks PROVE Spec => InsertReportsLinked
  <1> DEFINE Reports == \A t \in Threads :
               InsertCas(t) => thr'[t].op.info = bucket'[thr[t].key].info
  <1>1. ASSUME IInv, TrackInv PROVE Reports
    <2> SUFFICES ASSUME NEW t \in Threads, InsertCas(t)
                 PROVE  thr'[t].op.info = bucket'[thr[t].key].info
      OBVIOUS
    <2>1. TypeInv /\ BucketsOK
      BY <1>1 DEF IInv, TypeInv
    <2>2. thr'[t].op = thr[t].op
      BY Zenon, <2>1, InsertMoves DEF Moves
    <2> DEFINE i == IF thr[t].seen.info = None THEN thr[t].own ELSE thr[t].seen.info
    <2>3. Latest(thr[t].op, i) /\ bucket'[thr[t].key].info = i
      BY ZenonT(30), <1>1, <2>1, CasLatest
    <2> HIDE DEF i
    <2> QED BY SMTT(30), <2>2, <2>3 DEF Latest
  <1>2. IInv /\ TrackInv /\ [Next]_vars => [Reports]_vars
    BY <1>1
  <1> QED
    BY <1>2, InvHolds, TrackHolds, PTL DEF Spec, InsertReportsLinked

=============================================================================

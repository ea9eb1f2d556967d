----------------------- MODULE ValueInitializerProofs -----------------------
(***************************************************************************)
(* Proofs about ValueInitializer, for any threads, keys, methods and       *)
(* bounds.                                                                 *)
(***************************************************************************)
EXTENDS ValueInitializer, TLAPS

Pcs == {"idle", "lookup", "register", "wait", "check", "evaluate", "insert", "remove",
        "unregister", "unlock"}
Kinds == {"none", "ReadExisting", "Initialized", "InitErr", "downcast failed",
          "too many retries", "unexpected", "panic", "Unchanged", "StillNone", "Err",
          "ReplacedWith", "Inserted", "Removed"}
Results == [kind : Kinds, val : Values \cup {None}, key : BOOLEAN]
CallType == [pc : Pcs, n : 0 .. MaxCalls, key : Keys, api : Apis \cup {get_with},
             retries : Nat, existing : Calls \cup {None}, old : Values \cup {None},
             res : Results]

(* The calls have their types.                                             *)
Fields ==
    /\ call \in [Threads -> CallType]
    /\ \A t \in Threads : Active(t) => call[t].api \in Apis /\ call[t].n \in 1 .. MaxCalls

(* So have the cache and the waiters.                                      *)
DataFields ==
    /\ outside \in 0 .. MaxOutside
    /\ cache \in [Keys -> Values \cup {None}]
    /\ \A w \in DOMAIN waiters : waiters[w] \in Calls
    /\ \A c \in DOMAIN wval :
           /\ wval[c].val \in Values \cup {None}
           /\ wval[c].state \in {"Computing", "Ready", "ReadyErr", "ReadyNone",
                                 "InitClosurePanicked"}

(* The call holds the lock of a waiter of its own.                         *)
Owns(t) == Registered(t) \/ call[t].pc = "unlock"

(* The call has registered no waiter yet, or never does.                   *)
Early(t) ==
    \/ call[t].pc \in {"lookup", "register", "wait"}
    \/ Active(t) /\ call[t].api.fun = "insert"

(* Methods without a waiter stay out of the steps that use one.            *)
DirectOnly ==
    \A t \in Threads :
        /\ Active(t) /\ call[t].api.fun = "insert"
               => call[t].pc \in {"lookup", "evaluate", "insert"}
        /\ call[t].pc = "remove" => call[t].api.fun = "compute"

RegisteredInMap ==
    \A t \in Threads :
        Registered(t) => WKey(t) \in DOMAIN waiters /\ waiters[WKey(t)] = Id(t)

OwnersHoldLock ==
    \A t \in Threads : Owns(t) => Id(t) \in wlock /\ Id(t) \in DOMAIN wval

(* Waiters belong to calls of the present or the past.                     *)
WaitersArePast ==
    /\ \A t \in Threads : Early(t) => Id(t) \notin DOMAIN wval
    /\ \A c \in DOMAIN wval : c \in Threads \X Nat /\ c[2] <= call[c[1]].n

(* The call has set the result of its waiter.                              *)
Done(t) ==
    \/ call[t].pc \in {"unregister", "unlock"}
    \/ call[t].pc \in {"insert", "remove"} /\ call[t].api.fun = "compute"

(* A waiter is unlocked only when its result is there.                     *)
UnlockedIsDone ==
    /\ \A c \in DOMAIN wval : c \notin wlock => wval[c].state # "Computing"
    /\ \A t \in Threads :
           Done(t) => wval[Id(t)].state # "Computing"

(* What a waiter holds is meant for a call of this method.                 *)
MeantFor(w, api) ==
    /\ w.state = "ReadyErr" => w.type = api.err
    /\ w.state = "ReadyNone" => api.fun = "compute"

ResultsFit ==
    /\ \A t \in Threads : Owns(t) => MeantFor(wval[Id(t)], call[t].api)
    /\ \A t \in Threads : call[t].pc = "wait"
           => call[t].existing \in DOMAIN wval /\ MeantFor(wval[call[t].existing], call[t].api)
    /\ \A t, u \in Threads :
           call[t].pc = "wait" /\ call[t].existing = Id(u) /\ Owns(u) => WKey(t) = WKey(u)

IInv ==
    /\ Fields
    /\ DataFields
    /\ DirectOnly
    /\ RegisteredInMap
    /\ WaitersAreOwned
    /\ OwnersHoldLock
    /\ WaitersArePast
    /\ UnlockedIsDone
    /\ ResultsFit
    /\ NoInternalPanic
-----------------------------------------------------------------------------
(* A step of thread t leaves the calls of the others alone and those       *)
(* fields of its own call that it does not name.                           *)
Others(t) == \A u \in Threads \ {t} : call'[u] = call[u]

SameCall(t) ==
    /\ Others(t)
    /\ call'[t].n = call[t].n /\ call'[t].key = call[t].key /\ call'[t].api = call[t].api

(* A thread that moves on with the same call.                              *)
LEMMA MovedFields ==
    ASSUME Fields, NEW t \in Threads, NEW x \in CallType, Active(t),
           x.n = call[t].n, x.key = call[t].key, x.api = call[t].api,
           call' = [call EXCEPT ![t] = x]
    PROVE  Fields' /\ SameCall(t) /\ call'[t] = x
  BY DEF Fields, SameCall, Others, Active

(* Goto(t, pc) moves t and changes nothing else.                           *)
LEMMA GotoFields ==
    ASSUME Fields, NEW t \in Threads, NEW pc \in Pcs, Active(t), Goto(t, pc)
    PROVE  /\ Fields'
           /\ SameCall(t)
           /\ call'[t].pc = pc
           /\ call'[t].res = call[t].res
           /\ call'[t].existing = call[t].existing
<1> DEFINE x == [call[t] EXCEPT !.pc = pc]
<1>1. call[t] \in CallType
  BY DEF Fields
<1>2. /\ x \in CallType
      /\ x.n = call[t].n /\ x.key = call[t].key /\ x.api = call[t].api
      /\ x.pc = pc
      /\ x.res = call[t].res
      /\ x.existing = call[t].existing
  BY <1>1 DEF CallType, Pcs
<1>3. call' = [call EXCEPT ![t] = x]
  BY <1>1 DEF Goto
<1> HIDE DEF x
<1> QED
  BY Zenon, <1>2, <1>3, MovedFields

(* Finish(t, pc, res) moves t and sets its result.                         *)
LEMMA FinishFields ==
    ASSUME Fields, NEW t \in Threads, NEW pc \in Pcs, NEW res \in Results, Active(t), Finish(t, pc, res)
    PROVE  /\ Fields'
           /\ SameCall(t)
           /\ call'[t].pc = pc
           /\ call'[t].res = res
           /\ call'[t].existing = call[t].existing
<1> DEFINE x == [call[t] EXCEPT !.pc = pc, !.res = res]
<1>1. call[t] \in CallType
  BY DEF Fields
<1>2. /\ x \in CallType
      /\ x.n = call[t].n /\ x.key = call[t].key /\ x.api = call[t].api
      /\ x.pc = pc
      /\ x.res = res
      /\ x.existing = call[t].existing
  BY ZenonT(30), <1>1 DEF CallType, Pcs
<1>3. call' = [call EXCEPT ![t] = x]
  BY Zenon, <1>1 DEF Finish
<1> HIDE DEF x
<1> QED
  BY Zenon, <1>2, <1>3, MovedFields

(* The step of t to "wait" notes the waiter it found.                      *)
LEMMA WaitFields ==
    ASSUME Fields, NEW t \in Threads, NEW w \in Calls, Active(t), 
           call' = [call EXCEPT ![t].pc = "wait", ![t].existing = w]
    PROVE  /\ Fields'
           /\ SameCall(t)
           /\ call'[t].pc = "wait"
           /\ call'[t].res = call[t].res
           /\ call'[t].existing = w
<1> DEFINE x == [call[t] EXCEPT !.pc = "wait", !.existing = w]
<1>1. call[t] \in CallType
  BY DEF Fields
<1>2. /\ x \in CallType
      /\ x.n = call[t].n /\ x.key = call[t].key /\ x.api = call[t].api
      /\ x.pc = "wait"
      /\ x.res = call[t].res
      /\ x.existing = w
  BY Zenon, <1>1 DEF CallType, Pcs
<1>3. call' = [call EXCEPT ![t] = x]
  BY Zenon, <1>1
<1> HIDE DEF x
<1> QED
  BY Zenon, <1>2, <1>3, MovedFields

(* A retry counts and goes back to the registration.                       *)
LEMMA RetryFields ==
    ASSUME Fields, NEW t \in Threads, NEW r \in Nat, Active(t), 
           call' = [call EXCEPT ![t].pc = "register", ![t].retries = r]
    PROVE  /\ Fields'
           /\ SameCall(t)
           /\ call'[t].pc = "register"
           /\ call'[t].res = call[t].res
           /\ call'[t].existing = call[t].existing
<1> DEFINE x == [call[t] EXCEPT !.pc = "register", !.retries = r]
<1>1. call[t] \in CallType
  BY DEF Fields
<1>2. /\ x \in CallType
      /\ x.n = call[t].n /\ x.key = call[t].key /\ x.api = call[t].api
      /\ x.pc = "register"
      /\ x.res = call[t].res
      /\ x.existing = call[t].existing
  BY Zenon, <1>1 DEF CallType, Pcs
<1>3. call' = [call EXCEPT ![t] = x]
  BY Zenon, <1>1
<1> HIDE DEF x
<1> QED
  BY Zenon, <1>2, <1>3, MovedFields

(* GetEntry notes the value it saw.                                        *)
LEMMA OldFields ==
    ASSUME Fields, NEW t \in Threads, NEW v \in Values \cup {None}, Active(t), 
           call' = [call EXCEPT ![t].pc = "evaluate", ![t].old = v]
    PROVE  /\ Fields'
           /\ SameCall(t)
           /\ call'[t].pc = "evaluate"
           /\ call'[t].res = call[t].res
           /\ call'[t].existing = call[t].existing
<1> DEFINE x == [call[t] EXCEPT !.pc = "evaluate", !.old = v]
<1>1. call[t] \in CallType
  BY DEF Fields
<1>2. /\ x \in CallType
      /\ x.n = call[t].n /\ x.key = call[t].key /\ x.api = call[t].api
      /\ x.pc = "evaluate"
      /\ x.res = call[t].res
      /\ x.existing = call[t].existing
  BY Zenon, <1>1 DEF CallType, Pcs
<1>3. call' = [call EXCEPT ![t] = x]
  BY Zenon, <1>1
<1> HIDE DEF x
<1> QED
  BY Zenon, <1>2, <1>3, MovedFields

(* The results that the steps build.                                       *)
LEMMA ResultType ==
    ASSUME NEW kind \in Kinds, NEW val \in Values \cup {None}, NEW key \in BOOLEAN
    PROVE  Result(kind, val, key) \in Results /\ Result(kind, val, key).kind = kind
  BY DEF Result, Results

(* The record of a call that has just begun.                               *)
LEMMA IdleType ==
    /\ Idle \in CallType
    /\ Idle.res = NoResult /\ Idle.pc = "idle" /\ Idle.n = 0 /\ Idle.api = get_with
<1>1. NoResult \in Results
  <2>1. "none" \in Kinds
    BY DEF Kinds
  <2>2. FALSE \in BOOLEAN
    BY Zenon
  <2>3. None \in Values \cup {None}
    BY Zenon
  <2> QED
    BY <2>1, <2>2, <2>3, ResultType, Zenon DEF NoResult
<1>2. AnyKey \in Keys
  BY KeysAssumption DEF AnyKey
<1>3. 0 \in 0 .. MaxCalls
  BY BoundsAssumption
<1> QED
  BY <1>1, <1>2, <1>3 DEF Idle, CallType, Pcs

(* A new call has the next number.                                         *)
LEMMA BeginFields ==
    ASSUME Fields, NEW t \in Threads, NEW k \in Keys, NEW api \in Apis, Begin(t, k, api)
    PROVE  /\ Fields'
           /\ Others(t)
           /\ call'[t].n = call[t].n + 1
           /\ call'[t].api = api
           /\ call'[t].pc = IF api.lookup THEN "lookup" ELSE "register"
           /\ call'[t].res = NoResult
<1> DEFINE pc == IF api.lookup THEN "lookup" ELSE "register"
           new == [Idle EXCEPT !.pc = pc, !.n = call[t].n + 1, !.key = k, !.api = api]
<1>1. call[t].n \in 0 .. MaxCalls /\ call[t].n < MaxCalls
  BY DEF Fields, CallType, Begin
<1>2. pc \in Pcs /\ call[t].n + 1 \in 1 .. MaxCalls /\ call[t].n + 1 \in 0 .. MaxCalls
  BY <1>1, BoundsAssumption DEF Pcs
<1> HIDE DEF pc
<1>3. /\ new \in CallType
      /\ new.n = call[t].n + 1
      /\ new.api = api
      /\ new.pc = pc
      /\ new.res = NoResult
  BY Zenon, <1>2, IdleType DEF CallType
<1>4. call' = [call EXCEPT ![t] = new]
  BY DEF Begin, pc
<1> HIDE DEF new
<1> QED
  BY <1>2, <1>3, <1>4 DEF Fields, Others, Active, pc

-----------------------------------------------------------------------------
(* Results fit as long as the waiters stay the same and no thread starts   *)
(* to wait or to own one.                                                  *)
LEMMA ResultsFitFrame ==
    ASSUME ResultsFit, UNCHANGED wval,
           \A v \in Threads : /\ Id(v)' = Id(v) /\ WKey(v)' = WKey(v)
                              /\ call'[v].api = call[v].api
                              /\ Owns(v)' => Owns(v)
                              /\ call'[v].pc = "wait" => /\ call[v].pc = "wait"
                                                       /\ call'[v].existing = call[v].existing
    PROVE  ResultsFit'
<1>1. \A v \in Threads : Owns(v)' => MeantFor(wval[Id(v)], call[v].api)'
  <2> SUFFICES ASSUME NEW v \in Threads, Owns(v)
               PROVE  MeantFor(wval[Id(v)], call[v].api)
    BY DEF MeantFor
  <2> QED
    BY DEF ResultsFit
<1>2. \A v \in Threads : call'[v].pc = "wait"
          => /\ call'[v].existing \in DOMAIN wval'
             /\ MeantFor(wval[call[v].existing], call[v].api)'
  <2> SUFFICES ASSUME NEW v \in Threads, call[v].pc = "wait"
               PROVE  /\ call[v].existing \in DOMAIN wval
                      /\ MeantFor(wval[call[v].existing], call[v].api)
    BY DEF MeantFor
  <2> QED
    BY DEF ResultsFit
<1>3. \A v, x \in Threads :
          call'[v].pc = "wait" /\ call'[v].existing = Id(x)' /\ Owns(x)'
              => WKey(v)' = WKey(x)'
  <2> SUFFICES ASSUME NEW v \in Threads, NEW x \in Threads,
                      call[v].pc = "wait", call[v].existing = Id(x), Owns(x)
               PROVE  WKey(v) = WKey(x)
    OBVIOUS
  <2> QED
    BY DEF ResultsFit
<1> QED
  BY <1>1, <1>2, <1>3 DEF ResultsFit

(* Finished waiters stay finished as long as nothing is unlocked.          *)
LEMMA UnlockedFrame ==
    ASSUME UnlockedIsDone, UNCHANGED <<wval, wlock>>,
           \A v \in Threads : /\ Id(v)' = Id(v)
                              /\ Done(v)' => Done(v) \/ wval[Id(v)].state # "Computing"
    PROVE  UnlockedIsDone'
<1>1. \A v \in Threads : Done(v)' => wval'[Id(v)'].state # "Computing"
  <2> SUFFICES ASSUME NEW v \in Threads, Done(v)'
               PROVE  wval[Id(v)].state # "Computing"
    OBVIOUS
  <2> QED
    BY DEF UnlockedIsDone
<1> QED
  BY <1>1 DEF UnlockedIsDone

-----------------------------------------------------------------------------
(* A thread that moves without touching any waiter, to a place where it    *)
(* has one if and only if it had one before, keeps the invariant.          *)
LEMMA MoveInv ==
    ASSUME IInv, NEW t \in Threads, Active(t), Fields', DataFields', SameCall(t),
           UNCHANGED <<waiters, wval, wlock>>,
           Registered(t)' <=> Registered(t),
           call'[t].pc \notin {"wait", "unlock"}, call[t].pc # "unlock",
           Early(t)' => Early(t),
           Done(t)' => wval[Id(t)].state # "Computing",
           Active(t)' /\ call'[t].api.fun = "insert"
               => call'[t].pc \in {"lookup", "evaluate", "insert"},
           call'[t].pc = "remove" => call'[t].api.fun = "compute",
           call'[t].res.kind \notin {"unexpected", "downcast failed"}
    PROVE  IInv'
<1> USE DEF SameCall, Others, Id, WKey
<1>1. \A u \in Threads : u # t => call'[u] = call[u]
  OBVIOUS
<1>2. \A u \in Threads : Id(u)' = Id(u) /\ WKey(u)' = WKey(u)
  BY <1>1
<1>3. \A u \in Threads : /\ Registered(u)' <=> Registered(u)
                         /\ Owns(u)' <=> Owns(u)
                         /\ Early(u)' => Early(u)
  BY <1>1 DEF Registered, Owns, Early, Active
<1> USE DEF IInv
<1>4. DirectOnly'
  BY <1>1 DEF SameCall, Others, DirectOnly, Active
<1> HIDE DEF Id, WKey, SameCall, Others
<1>5. RegisteredInMap' /\ WaitersAreOwned'
  BY <1>2, <1>3 DEF RegisteredInMap, WaitersAreOwned
<1>6. OwnersHoldLock'
  BY <1>2, <1>3 DEF OwnersHoldLock
<1>7. WaitersArePast'
  <2>1. \A u \in Threads : call'[u].n = call[u].n
    BY <1>1 DEF SameCall
  <2> QED
    BY <1>2, <1>3, <2>1 DEF WaitersArePast
<1>8. UnlockedIsDone'
  <2>1. \A u \in Threads : u # t => (Done(u)' <=> Done(u))
    BY <1>1 DEF Done
  <2> QED
    BY <1>2, <2>1, UnlockedFrame
<1>9. ResultsFit'
  <2>1. \A u \in Threads :
            /\ call'[u].api = call[u].api
            /\ call'[u].pc = "wait" => /\ call[u].pc = "wait"
                                     /\ call'[u].existing = call[u].existing
    BY <1>1 DEF SameCall
  <2> QED
    BY <1>2, <1>3, <2>1, ResultsFitFrame
<1>10. NoInternalPanic'
  BY <1>1 DEF NoInternalPanic
<1> QED
  BY <1>4, <1>5, <1>6, <1>7, <1>8, <1>9, <1>10

(* A thread that sets the result of its own waiter, one that is meant for  *)
(* calls like its own, and stays registered keeps the invariant.           *)
LEMMA SetInv ==
    ASSUME IInv, NEW t \in Threads, Fields', DataFields', SameCall(t),
           Registered(t), Registered(t)', NEW w, SetWaiter(t, w),
           UNCHANGED <<waiters, wlock>>,
           w.state # "Computing", MeantFor(w, call[t].api),
           call'[t].pc = "remove" => call'[t].api.fun = "compute",
           call'[t].res.kind \notin {"unexpected", "downcast failed"}
    PROVE  IInv'
<1>1. \A u \in Threads : u # t => call'[u] = call[u]
  BY DEF SameCall, Others
<1>2. \A u \in Threads : Id(u)' = Id(u) /\ WKey(u)' = WKey(u)
  BY <1>1 DEF SameCall, Id, WKey
<1>3. \A u \in Threads : /\ Registered(u)' <=> Registered(u)
                         /\ Owns(u)' <=> Owns(u)
                         /\ Early(u)' => Early(u)
  BY <1>1 DEF Registered, Owns, Early, Active
<1>4. \A u \in Threads : call'[u].api = call[u].api /\ call'[u].n = call[u].n
  BY <1>1 DEF SameCall
<1>5. Owns(t) /\ call[t].pc # "wait" /\ call'[t].pc \notin {"wait", "unlock"}
  BY DEF Registered, Owns
<1>6. Id(t) \in DOMAIN wval
  BY <1>5 DEF IInv, OwnersHoldLock
<1>7. /\ DOMAIN wval' = DOMAIN wval
      /\ wval'[Id(t)] = w
      /\ \A c \in DOMAIN wval : c # Id(t) => wval'[c] = wval[c]
  BY <1>6 DEF SetWaiter
<1>8. \A u \in Threads : u # t => Id(u) # Id(t)
  BY DEF Id
<1> HIDE DEF Id, WKey
<1> USE DEF IInv
<1>9. DirectOnly'
  BY <1>1, <1>5 DEF DirectOnly, Active, Registered
<1>10. RegisteredInMap' /\ WaitersAreOwned'
  BY <1>2, <1>3 DEF RegisteredInMap, WaitersAreOwned
<1>11. OwnersHoldLock'
  BY <1>2, <1>3, <1>7 DEF OwnersHoldLock
<1>12. WaitersArePast'
  BY <1>2, <1>3, <1>4, <1>7 DEF WaitersArePast
<1>13. UnlockedIsDone'
  <2>1. \A c \in DOMAIN wval' : c \notin wlock' => wval'[c].state # "Computing"
    BY <1>7 DEF UnlockedIsDone
  <2>2. \A u \in Threads : Done(u)' => wval'[Id(u)'].state # "Computing"
    <3> SUFFICES ASSUME NEW u \in Threads, Done(u)'
                 PROVE  wval'[Id(u)].state # "Computing"
      BY <1>2
    <3>1. CASE u = t
      BY <3>1, <1>7
    <3>2. CASE u # t
      <4>1. Done(u)
        BY <3>2, <1>1 DEF Done
      <4>2. Owns(u)
        BY <4>1 DEF Done, Owns, Registered, DirectOnly, Active
      <4> QED
        BY <3>2, <4>1, <4>2, <1>7, <1>8 DEF UnlockedIsDone, OwnersHoldLock
    <3> QED
      BY <3>1, <3>2
  <2> QED
    BY <2>1, <2>2 DEF UnlockedIsDone
<1>14. ResultsFit'
  <2>1. \A u \in Threads : call'[u].pc = "wait"
            => call[u].pc = "wait" /\ call'[u].existing = call[u].existing
    BY <1>1, <1>5
  <2>2. \A u \in Threads : Owns(u)' => MeantFor(wval[Id(u)], call[u].api)'
    <3> SUFFICES ASSUME NEW u \in Threads, Owns(u)
                 PROVE  MeantFor(wval'[Id(u)], call[u].api)
      BY <1>2, <1>3, <1>4 DEF MeantFor
    <3>1. CASE u = t
      BY <3>1, <1>7
    <3>2. CASE u # t
      BY <3>2, <1>7, <1>8 DEF ResultsFit, OwnersHoldLock
    <3> QED
      BY <3>1, <3>2
  <2>3. \A u \in Threads : call'[u].pc = "wait"
            => /\ call'[u].existing \in DOMAIN wval'
               /\ MeantFor(wval[call[u].existing], call[u].api)'
    <3> SUFFICES ASSUME NEW u \in Threads, call[u].pc = "wait"
                 PROVE  /\ call[u].existing \in DOMAIN wval'
                        /\ MeantFor(wval'[call[u].existing], call[u].api)
      BY <2>1, <1>4 DEF MeantFor
    <3>1. CASE call[u].existing = Id(t)
      <4>1. call[u].api.type = call[t].api.type
        BY <3>1, <1>5 DEF ResultsFit, WKey
      <4>2. call[u].api \in Apis /\ call[t].api \in Apis
        BY <1>5 DEF Fields, Active, Owns, Registered
      <4>3. call[u].api.fun # "insert" /\ call[t].api.fun # "insert"
        BY DEF DirectOnly, Active, Registered
      <4>4. call[u].api.fun = call[t].api.fun /\ call[u].api.err = call[t].api.err
        BY <4>1, <4>2, <4>3, ApisAssumption
      <4> QED
        BY <3>1, <4>4, <1>6, <1>7 DEF MeantFor
    <3>2. CASE call[u].existing # Id(t)
      BY <3>2, <1>7 DEF ResultsFit
    <3> QED
      BY <3>1, <3>2
  <2>4. \A u, v \in Threads :
            call'[u].pc = "wait" /\ call'[u].existing = Id(v)' /\ Owns(v)'
                => WKey(u)' = WKey(v)'
    <3> SUFFICES ASSUME NEW u \in Threads, NEW v \in Threads,
                        call'[u].pc = "wait", call'[u].existing = Id(v)', Owns(v)'
                 PROVE  WKey(u)' = WKey(v)'
      OBVIOUS
    <3>1. call[u].pc = "wait" /\ call[u].existing = Id(v)
      BY <1>2, <2>1
    <3>2. Owns(v) /\ WKey(u)' = WKey(u) /\ WKey(v)' = WKey(v)
      BY <1>2, <1>3
    <3> QED
      BY <3>1, <3>2 DEF ResultsFit
  <2> QED
    BY <2>2, <2>3, <2>4 DEF ResultsFit
<1>15. NoInternalPanic'
  BY <1>1 DEF NoInternalPanic
<1> QED
  BY <1>9, <1>10, <1>11, <1>12, <1>13, <1>14, <1>15

-----------------------------------------------------------------------------
(* Facts about the record of a call in progress.                           *)
LEMMA CallFacts ==
    ASSUME IInv, NEW t \in Threads, Active(t)
    PROVE  /\ call[t].api \in Apis
           /\ call[t].key \in Keys
           /\ call[t].pc \in Pcs
           /\ call[t].retries \in Nat
           /\ call[t].old \in Values \cup {None}
           /\ cache[call[t].key] \in Values \cup {None}
           /\ Id(t) \in Calls /\ Id(t) \in Values
           /\ call[t].api.need_key \in BOOLEAN /\ call[t].api.get_key \in BOOLEAN
           /\ call[t].res.kind \notin {"unexpected", "downcast failed"}
<1>1. call[t] \in CallType /\ call[t].api \in Apis /\ call[t].n \in 1 .. MaxCalls
  BY DEF IInv, Fields
<1>2. Id(t) \in Calls
  BY <1>1 DEF Id, Calls
<1>3. Id(t) \in Values
  BY <1>2 DEF Values
<1>4. cache[call[t].key] \in Values \cup {None}
  BY <1>1 DEF IInv, DataFields, CallType
<1>5. call[t].api.need_key \in BOOLEAN /\ call[t].api.get_key \in BOOLEAN
  BY <1>1, ApisAssumption
<1> QED
  BY <1>1, <1>2, <1>3, <1>4, <1>5 DEF CallType, IInv, NoInternalPanic

(* A lookup finds a value of the key, or none.                             *)
LEMMA LookupsType ==
    ASSUME IInv, NEW t \in Threads, Active(t), NEW v \in Lookups(t)
    PROVE  v \in Values \cup {None}
  BY CallFacts DEF Lookups

(* Kinds of results that steps build.                                      *)
LEMMA OkResult ==
    ASSUME NEW kind \in Kinds \ {"unexpected", "downcast failed"},
           NEW val \in Values \cup {None}, NEW key \in BOOLEAN
    PROVE  /\ Result(kind, val, key) \in Results
           /\ Result(kind, val, key).kind \notin {"unexpected", "downcast failed"}
  BY ResultType

(* The lookup before the registration keeps the invariant.                 *)
LEMMA LookupInv ==
    ASSUME IInv, NEW t \in Threads, Lookup(t)
    PROVE  IInv'
<1>1. Active(t) /\ call[t].pc = "lookup"
  BY DEF Lookup, Active
<1>2. PICK v \in Lookups(t) :
          IF v # None
          THEN Finish(t, "idle", Result("ReadExisting", v, call[t].api.get_key))
          ELSE Goto(t, IF call[t].api.fun = "insert" THEN "evaluate" ELSE "register")
  BY DEF Lookup
<1>3. UNCHANGED <<cache, waiters, wval, wlock, outside>> /\ DataFields'
  BY DEF Lookup, IInv, DataFields
<1>4. CASE v # None
  <2> DEFINE r == Result("ReadExisting", v, call[t].api.get_key)
  <2>1. r \in Results /\ r.kind \notin {"unexpected", "downcast failed"}
    BY <1>1, <1>2, CallFacts, LookupsType, OkResult DEF Kinds
  <2>2. Finish(t, "idle", r)
    BY <1>2, <1>4
  <2> HIDE DEF r
  <2>3. /\ Fields' /\ SameCall(t) /\ call'[t].pc = "idle" /\ call'[t].res = r
    BY <1>1, <2>1, <2>2, FinishFields DEF IInv, Pcs
  <2> QED
    BY <1>1, <1>3, <2>1, <2>3, MoveInv DEF Registered, Early, Active, Done
<1>5. CASE v = None /\ call[t].api.fun = "insert"
  <2>1. /\ Fields' /\ SameCall(t) /\ call'[t].pc = "evaluate" /\ call'[t].res = call[t].res
    BY SMTT(30), <1>1, <1>2, <1>5, GotoFields DEF IInv, Pcs
  <2> QED
    BY <1>1, <1>3, <1>5, <2>1, CallFacts, MoveInv DEF Registered, Early, Active, Done, SameCall
<1>6. CASE v = None /\ call[t].api.fun # "insert"
  <2>1. /\ Fields' /\ SameCall(t) /\ call'[t].pc = "register" /\ call'[t].res = call[t].res
    BY <1>1, <1>2, <1>6, GotoFields DEF IInv, Pcs
  <2> QED
    BY <1>1, <1>3, <1>6, <2>1, CallFacts, MoveInv DEF Registered, Early, Active, Done, SameCall
<1> QED
  BY <1>4, <1>5, <1>6

(* Reading somebody else's waiter reaches none of the internal panics.     *)
LEMMA ReadWaiterInv ==
    ASSUME IInv, NEW t \in Threads, ReadWaiter(t)
    PROVE  IInv'
<1> DEFINE w == wval[call[t].existing]
<1>1. Active(t) /\ call[t].pc = "wait" /\ call[t].api.fun = "init"
  BY DEF ReadWaiter, Active
<1>2. /\ w.val \in Values \cup {None}
      /\ w.state # "Computing" /\ w.state # "ReadyNone"
      /\ w.state = "ReadyErr" => w.type = call[t].api.err
  BY <1>1 DEF IInv, ResultsFit, UnlockedIsDone, ReadWaiter, DataFields, MeantFor
<1>3. UNCHANGED <<cache, waiters, wval, wlock, outside>> /\ DataFields'
  BY DEF ReadWaiter, IInv, DataFields
<1>4. ASSUME NEW r \in Results, r.kind \notin {"unexpected", "downcast failed"},
             Finish(t, "idle", r)
      PROVE  IInv'
  <2>1. /\ Fields' /\ SameCall(t) /\ call'[t].pc = "idle" /\ call'[t].res = r
    BY <1>1, <1>4, FinishFields DEF IInv, Pcs
  <2> QED
    BY <1>1, <1>3, <1>4, <2>1, MoveInv DEF Registered, Early, Active, Done
<1>5. FALSE \in BOOLEAN /\ call[t].api.need_key \in BOOLEAN /\ None \in Values \cup {None}
  BY <1>1, CallFacts, Zenon
<1>6. CASE w.state = "Ready"
  <2>1. Finish(t, "idle", Result("ReadExisting", w.val, call[t].api.need_key))
    BY <1>6 DEF ReadWaiter
  <2>2. "ReadExisting" \in Kinds \ {"unexpected", "downcast failed"}
    BY DEF Kinds
  <2> QED
    BY <1>2, <1>4, <1>5, <2>1, <2>2, OkResult
<1>7. CASE w.state = "ReadyErr"
  <2>1. Finish(t, "idle", Result("InitErr", w.val, FALSE))
    BY Zenon, <1>2, <1>7 DEF ReadWaiter
  <2>2. "InitErr" \in Kinds \ {"unexpected", "downcast failed"}
    BY DEF Kinds
  <2>3. /\ Result("InitErr", w.val, FALSE) \in Results
        /\ Result("InitErr", w.val, FALSE).kind \notin {"unexpected", "downcast failed"}
    BY <1>2, <1>5, <2>2, OkResult, Zenon
  <2> QED
    BY <1>4, <2>1, <2>3, Zenon
<1>8. CASE w.state = "InitClosurePanicked"
  <2>1. CASE call[t].retries + 1 < MAX_RETRIES
    <3>1. call' = [call EXCEPT ![t].pc = "register", ![t].retries = call[t].retries + 1]
      BY <1>8, <2>1 DEF ReadWaiter
    <3>a. call[t].retries \in Nat
      BY <1>1, CallFacts
    <3>2. call[t].retries + 1 \in Nat
      BY <3>a
    <3>3. /\ Fields' /\ SameCall(t) /\ call'[t].pc = "register" /\ call'[t].res = call[t].res
      BY Zenon, <1>1, <3>1, <3>2, RetryFields DEF IInv
    <3> QED
      BY <1>1, <1>3, <3>3, CallFacts, MoveInv DEF Registered, Early, Active, Done, SameCall
  <2>2. CASE ~(call[t].retries + 1 < MAX_RETRIES)
    <3>1. Finish(t, "idle", Result("too many retries", None, FALSE))
      BY <1>8, <2>2 DEF ReadWaiter
    <3>2. "too many retries" \in Kinds \ {"unexpected", "downcast failed"}
      BY DEF Kinds
    <3>3. /\ Result("too many retries", None, FALSE) \in Results
          /\ Result("too many retries", None, FALSE).kind
                 \notin {"unexpected", "downcast failed"}
      BY <1>5, <3>2, OkResult, Zenon
    <3> QED
      BY <1>4, <3>1, <3>3, Zenon
  <2> QED
    BY <2>1, <2>2
<1> QED
  <2>1. w.state \in {"Computing", "Ready", "ReadyErr", "ReadyNone", "InitClosurePanicked"}
    BY <1>1 DEF IInv, ResultsFit, DataFields
  <2> QED
    BY SMTT(30), <1>2, <1>6, <1>7, <1>8, <2>1

(* A compute call that waited finds a finished waiter and retries.         *)
LEMMA WaitForOthersInv ==
    ASSUME IInv, NEW t \in Threads, WaitForOthers(t)
    PROVE  IInv'
<1>1. Active(t) /\ call[t].pc = "wait" /\ call[t].api.fun = "compute"
  BY DEF WaitForOthers, Active
<1>2. wval[call[t].existing].state # "Computing"
  BY <1>1 DEF IInv, ResultsFit, UnlockedIsDone, WaitForOthers
<1>3. UNCHANGED <<cache, waiters, wval, wlock, outside>> /\ DataFields'
  BY DEF WaitForOthers, IInv, DataFields
<1>4. Goto(t, "register")
  <2>1. Computing.state = "Computing"
    BY DEF Computing
  <2> QED
    BY Zenon, <1>2, <2>1 DEF WaitForOthers
<1>5. /\ Fields' /\ SameCall(t) /\ call'[t].pc = "register" /\ call'[t].res = call[t].res
  BY <1>1, <1>4, GotoFields DEF IInv, Pcs
<1> QED
  BY <1>1, <1>3, <1>5, CallFacts, MoveInv DEF Registered, Early, Active, Done, SameCall

(* The value of a waiter that is set has its type.                         *)
LEMMA SetData ==
    ASSUME IInv, NEW t \in Threads, NEW w, SetWaiter(t, w),
           w.val \in Values \cup {None},
           w.state \in {"Computing", "Ready", "ReadyErr", "ReadyNone", "InitClosurePanicked"},
           UNCHANGED <<cache, waiters, outside>>
    PROVE  DataFields'
<1>1. DOMAIN wval' = DOMAIN wval
  BY DEF SetWaiter
<1>2. \A c \in DOMAIN wval : wval'[c] = w \/ wval'[c] = wval[c]
  BY DEF SetWaiter
<1> QED
  BY <1>1, <1>2 DEF IInv, DataFields

(* The second lookup, which may end the call with a hit.                   *)
LEMMA CheckAgainInv ==
    ASSUME IInv, NEW t \in Threads, CheckAgain(t)
    PROVE  IInv'
<1>1. Active(t) /\ call[t].pc = "check" /\ call[t].api.fun = "init"
  BY DEF CheckAgain, Active
<1>2. PICK v \in Lookups(t) :
          IF v # None
          THEN /\ SetWaiter(t, Ready(v))
               /\ Finish(t, "unregister", Result("ReadExisting", v, call[t].api.need_key))
          ELSE Goto(t, "evaluate") /\ UNCHANGED wval
  BY DEF CheckAgain
<1>3. UNCHANGED <<cache, waiters, wlock, outside>>
  BY DEF CheckAgain
<1>v. v \in Values \cup {None}
  BY <1>1, LookupsType
<1>4. CASE v # None
  <2> DEFINE r == Result("ReadExisting", v, call[t].api.need_key)
  <2>1. r \in Results /\ r.kind \notin {"unexpected", "downcast failed"}
    BY <1>1, <1>v, CallFacts, OkResult DEF Kinds
  <2>2. Finish(t, "unregister", r) /\ SetWaiter(t, Ready(v))
    BY <1>2, <1>4
  <2> HIDE DEF r
  <2>3. /\ Fields' /\ SameCall(t) /\ call'[t].pc = "unregister" /\ call'[t].res = r
    BY <1>1, <2>1, <2>2, FinishFields DEF IInv, Pcs
  <2>4. Ready(v).state = "Ready" /\ Ready(v).val = v
    BY DEF Ready
  <2>5. DataFields'
    BY <1>v, <1>3, <2>2, <2>4, SetData
  <2>6. MeantFor(Ready(v), call[t].api)
    BY <2>4 DEF MeantFor
  <2>7. Registered(t) /\ Registered(t)'
    BY SMTT(30), <1>1, <2>3 DEF Registered, SameCall
  <2> QED
    BY <1>3, <2>1, <2>2, <2>3, <2>4, <2>5, <2>6, <2>7, SetInv
<1>5. CASE v = None
  <2>1. /\ Fields' /\ SameCall(t) /\ call'[t].pc = "evaluate" /\ call'[t].res = call[t].res
    BY <1>1, <1>2, <1>5, GotoFields DEF IInv, Pcs
  <2>2. UNCHANGED wval /\ DataFields'
    BY Zenon, <1>2, <1>3, <1>5 DEF IInv, DataFields
  <2> QED
    BY <1>1, <1>3, <2>1, <2>2, CallFacts, MoveInv DEF Registered, Early, Active, Done, SameCall
<1> QED
  BY <1>4, <1>5

(* try_compute reads the entry.                                            *)
LEMMA GetEntryInv ==
    ASSUME IInv, NEW t \in Threads, GetEntry(t)
    PROVE  IInv'
<1>1. Active(t) /\ call[t].pc = "check" /\ call[t].api.fun = "compute"
  BY DEF GetEntry, Active
<1>2. UNCHANGED <<cache, waiters, wval, wlock, outside>> /\ DataFields'
  BY DEF GetEntry, IInv, DataFields
<1>3. cache[call[t].key] \in Values \cup {None}
  BY <1>1, CallFacts
<1>4. /\ Fields' /\ SameCall(t) /\ call'[t].pc = "evaluate" /\ call'[t].res = call[t].res
  BY Zenon, <1>1, <1>3, OldFields DEF GetEntry, IInv
<1> QED
  BY Zenon, <1>1, <1>2, <1>4, CallFacts, MoveInv DEF Registered, Early, Active, Done, SameCall

(* A result without a value.                                               *)
LEMMA EmptyResult ==
    ASSUME NEW kind \in Kinds \ {"unexpected", "downcast failed"}
    PROVE  /\ Result(kind, None, FALSE) \in Results
           /\ Result(kind, None, FALSE).kind \notin {"unexpected", "downcast failed"}
           /\ Result(kind, None, TRUE) \in Results
           /\ Result(kind, None, TRUE).kind \notin {"unexpected", "downcast failed"}
<1>1. FALSE \in BOOLEAN /\ TRUE \in BOOLEAN /\ None \in Values \cup {None}
  BY Zenon
<1> QED
  BY <1>1, OkResult, Zenon

(* A registered thread that sets its waiter and leaves the cache alone.    *)
LEMMA SetStep ==
    ASSUME IInv, NEW t \in Threads, Registered(t), NEW w, SetWaiter(t, w),
           w.val \in Values \cup {None},
           w.state \in {"Ready", "ReadyErr", "ReadyNone", "InitClosurePanicked"},
           MeantFor(w, call[t].api), UNCHANGED <<cache, waiters, wlock, outside>>,
           Fields', SameCall(t), call'[t].pc \in {"insert", "remove", "unregister"},
           call'[t].pc = "remove" => call[t].api.fun = "compute",
           call'[t].res.kind \notin {"unexpected", "downcast failed"}
    PROVE  IInv'
<1>1. DataFields'
  BY SetData
<1>2. Registered(t)'
  BY DEF Registered, SameCall
<1> QED
  BY <1>1, <1>2, SetInv DEF SameCall

(* A panic of the closure, with or without a waiter.                       *)
LEMMA ClosurePanicsInv ==
    ASSUME IInv, NEW t \in Threads, ClosurePanics(t)
    PROVE  IInv'
<1> DEFINE r == Result("panic", None, FALSE)
<1>1. Active(t) /\ call[t].pc = "evaluate"
  BY DEF ClosurePanics, Active
<1>2. UNCHANGED <<cache, waiters, wlock, outside>>
  BY DEF ClosurePanics
<1>3. r \in Results /\ r.kind \notin {"unexpected", "downcast failed"}
  BY EmptyResult DEF Kinds
<1> HIDE DEF r
<1>4. CASE call[t].api.fun = "insert"
  <2>1. Finish(t, "idle", r) /\ UNCHANGED wval /\ DataFields'
    BY Zenon, <1>2, <1>4 DEF ClosurePanics, r, IInv, DataFields
  <2>2. /\ Fields' /\ SameCall(t) /\ call'[t].pc = "idle" /\ call'[t].res = r
    BY <1>1, <1>3, <2>1, FinishFields DEF IInv, Pcs
  <2> QED
    BY <1>1, <1>2, <1>3, <1>4, <2>1, <2>2, MoveInv DEF Registered, Early, Active, Done
<1>5. CASE call[t].api.fun # "insert"
  <2>1. Finish(t, "unregister", r) /\ SetWaiter(t, InitClosurePanicked)
    BY Zenon, <1>5 DEF ClosurePanics, r
  <2>2. /\ Fields' /\ SameCall(t) /\ call'[t].pc = "unregister" /\ call'[t].res = r
    BY <1>1, <1>3, <2>1, FinishFields DEF IInv, Pcs
  <2>3. /\ InitClosurePanicked.state = "InitClosurePanicked"
        /\ InitClosurePanicked.val \in Values \cup {None}
    BY DEF InitClosurePanicked, Computing
  <2>4. MeantFor(InitClosurePanicked, call[t].api)
    BY <2>3 DEF MeantFor
  <2>5. Registered(t)
    BY <1>1, <1>5 DEF Registered
  <2> QED
    BY <1>2, <1>3, <2>1, <2>2, <2>3, <2>4, <2>5, SetStep
<1> QED
  BY <1>4, <1>5

(* The closure of get_with and its relatives returns.                      *)
LEMMA EvaluateInitInv ==
    ASSUME IInv, NEW t \in Threads, EvaluateInit(t)
    PROVE  IInv'
<1>1. Active(t) /\ call[t].pc = "evaluate" /\ call[t].api.fun \in {"init", "insert"}
  BY DEF EvaluateInit, Active
<1>2. UNCHANGED <<cache, waiters, wlock, outside>>
  BY DEF EvaluateInit
<1>3. CASE Goto(t, "insert") /\ UNCHANGED wval
  <2>1. /\ Fields' /\ SameCall(t) /\ call'[t].pc = "insert" /\ call'[t].res = call[t].res
    BY <1>1, <1>3, GotoFields DEF IInv, Pcs
  <2>2. DataFields'
    BY <1>2, <1>3 DEF IInv, DataFields
  <2> QED
    BY <1>1, <1>2, <1>3, <2>1, <2>2, CallFacts, MoveInv
       DEF Registered, Early, Active, Done, SameCall
<1>4. CASE /\ "Err" \in call[t].api.outs
           /\ SetWaiter(t, ReadyErr(Id(t), call[t].api.err))
           /\ Finish(t, "unregister", Result("InitErr", Id(t), FALSE))
  <2> DEFINE r == Result("InitErr", Id(t), FALSE)
             w == ReadyErr(Id(t), call[t].api.err)
  <2>1. r \in Results /\ r.kind \notin {"unexpected", "downcast failed"}
    <3>1. FALSE \in BOOLEAN
      BY Zenon
    <3>2. Id(t) \in Values \cup {None}
      BY <1>1, CallFacts
    <3>3. "InitErr" \in Kinds \ {"unexpected", "downcast failed"}
      BY DEF Kinds
    <3> QED
      BY <3>1, <3>2, <3>3, OkResult, Zenon
  <2>2. w.state = "ReadyErr" /\ w.val = Id(t) /\ w.type = call[t].api.err
    BY DEF ReadyErr
  <2>3. w.val \in Values \cup {None}
    BY <1>1, <2>2, CallFacts
  <2>4. call[t].api.fun # "insert"
    <3>1. call[t].api \in Apis
      BY <1>1, CallFacts
    <3> QED
      BY <3>1, <1>4, ApisAssumption
  <2> HIDE DEF r, w
  <2>5. Finish(t, "unregister", r) /\ SetWaiter(t, w)
    BY ZenonT(30), <1>4 DEF r, w
  <2>6. /\ Fields' /\ SameCall(t) /\ call'[t].pc = "unregister" /\ call'[t].res = r
    BY <1>1, <2>1, <2>5, FinishFields DEF IInv, Pcs
  <2>7. MeantFor(w, call[t].api) /\ Registered(t)
    BY <1>1, <2>2, <2>4 DEF MeantFor, Registered
  <2> QED
    BY <1>2, <2>1, <2>2, <2>3, <2>5, <2>6, <2>7, SetStep
<1> QED
  BY Zenon, <1>3, <1>4 DEF EvaluateInit

(* The closure of a compute call returns.                                  *)
LEMMA EvaluateComputeInv ==
    ASSUME IInv, NEW t \in Threads, EvaluateCompute(t)
    PROVE  IInv'
<1>1. /\ Active(t) /\ call[t].pc = "evaluate" /\ call[t].api.fun = "compute"
      /\ Registered(t)
  BY DEF EvaluateCompute, Active, Registered
<1>2. UNCHANGED <<cache, waiters, wlock, outside>> /\ SetWaiter(t, ReadyNone)
  BY DEF EvaluateCompute
<1>3. ReadyNone.state = "ReadyNone" /\ ReadyNone.val \in Values \cup {None}
  BY DEF ReadyNone, Computing
<1>4. MeantFor(ReadyNone, call[t].api)
  BY <1>1, <1>3 DEF MeantFor
<1>5. ASSUME NEW r \in Results, r.kind \notin {"unexpected", "downcast failed"},
             Finish(t, "unregister", r)
      PROVE  IInv'
  <2>1. /\ Fields' /\ SameCall(t) /\ call'[t].pc = "unregister" /\ call'[t].res = r
    BY <1>1, <1>5, FinishFields DEF IInv, Pcs
  <2> QED
    BY <1>1, <1>2, <1>3, <1>4, <1>5, <2>1, SetStep
<1>6. ASSUME NEW pc \in {"insert", "remove"}, Goto(t, pc)
      PROVE  IInv'
  <2>1. /\ Fields' /\ SameCall(t) /\ call'[t].pc = pc /\ call'[t].res = call[t].res
    BY <1>1, <1>6, GotoFields DEF IInv, Pcs
  <2> QED
    BY ZenonT(30), <1>1, <1>2, <1>3, <1>4, <2>1, CallFacts, SetStep
<1>7. NopResult(t) \in Results /\ NopResult(t).kind \notin {"unexpected", "downcast failed"}
  <2>1. TRUE \in BOOLEAN
    BY Zenon
  <2>2. call[t].old \in Values \cup {None}
    BY <1>1, CallFacts
  <2>3. /\ "Unchanged" \in Kinds \ {"unexpected", "downcast failed"}
        /\ "StillNone" \in Kinds \ {"unexpected", "downcast failed"}
    BY DEF Kinds
  <2>4. /\ Result("Unchanged", call[t].old, TRUE) \in Results
        /\ Result("Unchanged", call[t].old, TRUE).kind \notin {"unexpected", "downcast failed"}
    BY <2>1, <2>2, <2>3, OkResult, Zenon
  <2>5. /\ Result("StillNone", None, TRUE) \in Results
        /\ Result("StillNone", None, TRUE).kind \notin {"unexpected", "downcast failed"}
    BY <2>3, EmptyResult, Zenon
  <2> QED
    BY <2>4, <2>5, Zenon DEF NopResult
<1>8. /\ Result("Err", None, FALSE) \in Results
      /\ Result("Err", None, FALSE).kind \notin {"unexpected", "downcast failed"}
  <2>1. "Err" \in Kinds \ {"unexpected", "downcast failed"}
    BY DEF Kinds
  <2> QED
    BY <2>1, EmptyResult, Zenon
<1>9. \/ Finish(t, "unregister", NopResult(t))
      \/ Finish(t, "unregister", Result("Err", None, FALSE))
      \/ Goto(t, "insert")
      \/ Goto(t, "remove")
  BY Zenon DEF EvaluateCompute
<1> QED
  <2>1. CASE Finish(t, "unregister", NopResult(t))
    BY <1>5, <1>7, <2>1, Zenon
  <2>2. CASE Finish(t, "unregister", Result("Err", None, FALSE))
    BY <1>5, <1>8, <2>2, Zenon
  <2>3. CASE Goto(t, "insert")
    BY <1>6, <2>3, Zenon
  <2>4. CASE Goto(t, "remove")
    BY <1>6, <2>4, Zenon
  <2> QED
    BY Zenon, <1>9, <2>1, <2>2, <2>3, <2>4

(* What an insertion does to the cache.                                    *)
LEMMA PutData ==
    ASSUME IInv, NEW t \in Threads, Active(t), Put(t)
    PROVE  cache' \in [Keys -> Values \cup {None}]
<1>1. Id(t) \in Values \cup {None} /\ cache \in [Keys -> Values \cup {None}]
  BY CallFacts DEF IInv, DataFields
<1>2. CASE is_map_disabled
  BY <1>1, <1>2 DEF Put
<1>3. CASE ~is_map_disabled
  <2>1. cache' = [cache EXCEPT ![call[t].key] = Id(t)]
    BY <1>3 DEF Put
  <2> QED
    BY Zenon, <1>1, <2>1
<1> QED
  BY SMTT(30), <1>2, <1>3

(* The insertion of or_insert, which has no waiter.                        *)
LEMMA InsertDirectlyInv ==
    ASSUME IInv, NEW t \in Threads, InsertDirectly(t)
    PROVE  IInv'
<1> DEFINE r == Result("Initialized", Id(t), TRUE)
<1>1. Active(t) /\ call[t].pc = "insert" /\ call[t].api.fun = "insert"
  BY DEF InsertDirectly, Active
<1>2. UNCHANGED <<waiters, wval, wlock, outside>> /\ Put(t)
  BY DEF InsertDirectly
<1>3. DataFields'
  BY <1>1, <1>2, PutData DEF IInv, DataFields
<1>4. r \in Results /\ r.kind \notin {"unexpected", "downcast failed"}
  <2>1. TRUE \in BOOLEAN
    BY Zenon
  <2>2. Id(t) \in Values \cup {None}
    BY <1>1, CallFacts
  <2>3. "Initialized" \in Kinds \ {"unexpected", "downcast failed"}
    BY DEF Kinds
  <2> QED
    BY <2>1, <2>2, <2>3, OkResult, Zenon
<1> HIDE DEF r
<1>5. Finish(t, "idle", r)
  BY Zenon DEF InsertDirectly, r
<1>6. /\ Fields' /\ SameCall(t) /\ call'[t].pc = "idle" /\ call'[t].res = r
  BY <1>1, <1>4, <1>5, FinishFields DEF IInv, Pcs
<1> QED
  BY <1>1, <1>2, <1>3, <1>4, <1>6, MoveInv DEF Registered, Early, Active, Done

(* The insertion of try_init_or_read sets the waiter.                      *)
LEMMA InsertInitInv ==
    ASSUME IInv, NEW t \in Threads, InsertInit(t)
    PROVE  IInv'
<1> DEFINE r == Result("Initialized", Id(t), call[t].api.need_key)
<1>1. Active(t) /\ call[t].pc = "insert" /\ call[t].api.fun = "init" /\ Registered(t)
  BY DEF InsertInit, Active, Registered
<1>2. UNCHANGED <<waiters, wlock, outside>> /\ Put(t) /\ SetWaiter(t, Ready(Id(t)))
  BY SMTT(30) DEF InsertInit
<1>3. r \in Results /\ r.kind \notin {"unexpected", "downcast failed"}
  BY <1>1, CallFacts, OkResult DEF Kinds
<1> HIDE DEF r
<1>4. Finish(t, "unregister", r)
  BY DEF InsertInit, r
<1>5. /\ Fields' /\ SameCall(t) /\ call'[t].pc = "unregister" /\ call'[t].res = r
  BY <1>1, <1>3, <1>4, FinishFields DEF IInv, Pcs
<1>6. Ready(Id(t)).state = "Ready" /\ Ready(Id(t)).val \in Values \cup {None}
  BY <1>1, CallFacts DEF Ready
<1>7. DataFields'
  <2>1. DOMAIN wval' = DOMAIN wval
    BY <1>2 DEF SetWaiter
  <2>2. \A c \in DOMAIN wval : wval'[c] = Ready(Id(t)) \/ wval'[c] = wval[c]
    BY <1>2 DEF SetWaiter
  <2>3. cache' \in [Keys -> Values \cup {None}]
    BY <1>1, <1>2, PutData
  <2> QED
    BY <1>2, <1>6, <2>1, <2>2, <2>3 DEF IInv, DataFields
<1>8. MeantFor(Ready(Id(t)), call[t].api)
  BY <1>6 DEF MeantFor
<1>9. Registered(t)'
  BY SMTT(30), <1>1, <1>5 DEF Registered, SameCall
<1> QED
  BY <1>1, <1>2, <1>3, <1>5, <1>6, <1>7, <1>8, <1>9, SetInv

(* Operations of try_compute on the cache.                                 *)
LEMMA ComputeStep ==
    ASSUME IInv, NEW t \in Threads, call[t].pc \in {"insert", "remove"},
           call[t].api.fun = "compute", UNCHANGED <<waiters, wval, wlock, outside>>,
           cache' \in [Keys -> Values \cup {None}],
           NEW r \in Results, r.kind \notin {"unexpected", "downcast failed"},
           Finish(t, "unregister", r)
    PROVE  IInv'
<1>1. Active(t) /\ Done(t)
  BY DEF Active, Done
<1>2. /\ Fields' /\ SameCall(t) /\ call'[t].pc = "unregister" /\ call'[t].res = r
  BY ZenonT(30), <1>1, FinishFields DEF IInv, Pcs
<1>3. DataFields'
  BY DEF IInv, DataFields
<1>4. wval[Id(t)].state # "Computing"
  BY <1>1 DEF IInv, UnlockedIsDone
<1> QED
  BY ZenonT(30), <1>1, <1>2, <1>3, <1>4, MoveInv DEF Registered, Early, Active, SameCall

(* The insertion of try_compute.                                           *)
LEMMA InsertComputeInv ==
    ASSUME IInv, NEW t \in Threads, InsertCompute(t)
    PROVE  IInv'
<1> DEFINE kind == IF call[t].old # None THEN "ReplacedWith" ELSE "Inserted"
           r == Result(kind, Id(t), TRUE)
<1>1. Active(t) /\ call[t].pc = "insert" /\ call[t].api.fun = "compute"
  BY DEF InsertCompute, Active
<1>2. kind \in Kinds \ {"unexpected", "downcast failed"}
  BY DEF Kinds
<1> HIDE DEF kind
<1>3. r \in Results /\ r.kind \notin {"unexpected", "downcast failed"}
  <2>1. TRUE \in BOOLEAN
    BY Zenon
  <2>2. Id(t) \in Values \cup {None}
    BY <1>1, CallFacts
  <2> QED
    BY <1>2, <2>1, <2>2, OkResult, Zenon
<1> HIDE DEF r
<1>4. Finish(t, "unregister", r) /\ Put(t) /\ UNCHANGED <<waiters, wval, wlock, outside>>
  BY Zenon DEF InsertCompute, r, kind
<1> QED
  BY <1>1, <1>3, <1>4, PutData, ComputeStep

(* The removal of try_compute.                                             *)
LEMMA RemoveInv ==
    ASSUME IInv, NEW t \in Threads, Remove(t)
    PROVE  IInv'
<1> DEFINE k == call[t].key
           r == IF cache[k] # None THEN Result("Removed", cache[k], TRUE)
                                   ELSE Result("StillNone", None, TRUE)
<1>1. Active(t) /\ call[t].pc = "remove"
  BY DEF Remove, Active
<1>2. call[t].api.fun = "compute"
  BY <1>1 DEF IInv, DirectOnly
<1>3. r \in Results /\ r.kind \notin {"unexpected", "downcast failed"}
  <2>1. TRUE \in BOOLEAN
    BY Zenon
  <2>2. cache[k] \in Values \cup {None}
    BY <1>1, CallFacts
  <2>3. /\ "Removed" \in Kinds \ {"unexpected", "downcast failed"}
        /\ "StillNone" \in Kinds \ {"unexpected", "downcast failed"}
    BY DEF Kinds
  <2>4. /\ Result("Removed", cache[k], TRUE) \in Results
        /\ Result("Removed", cache[k], TRUE).kind \notin {"unexpected", "downcast failed"}
    BY <2>1, <2>2, <2>3, OkResult, Zenon
  <2>5. /\ Result("StillNone", None, TRUE) \in Results
        /\ Result("StillNone", None, TRUE).kind \notin {"unexpected", "downcast failed"}
    BY <2>3, EmptyResult, Zenon
  <2> QED
    BY <2>4, <2>5, Zenon
<1>4. cache' \in [Keys -> Values \cup {None}]
  <2>1. cache' = [cache EXCEPT ![k] = None] /\ cache \in [Keys -> Values \cup {None}]
    BY DEF Remove, IInv, DataFields
  <2> QED
    BY ZenonT(30), <2>1
<1> HIDE DEF r
<1>5. Finish(t, "unregister", r) /\ UNCHANGED <<waiters, wval, wlock, outside>>
  BY Zenon DEF Remove, r
<1> QED
  BY <1>1, <1>2, <1>3, <1>4, <1>5, ComputeStep

(* A waiter is offered, or the one that is already there is waited for.    *)
LEMMA TryInsertWaiterInv ==
    ASSUME IInv, NEW t \in Threads, try_insert_waiter(t)
    PROVE  IInv'
<1>1. Active(t) /\ call[t].pc = "register" /\ ~Registered(t) /\ ~Owns(t) /\ Early(t)
  BY SMTT(30) DEF try_insert_waiter, Active, Registered, Owns, Early
<1>0. Id(t) \notin DOMAIN wval /\ Id(t) \in Calls /\ call[t].api.fun # "insert"
  BY <1>1, CallFacts DEF IInv, WaitersArePast, DirectOnly
<1>2. UNCHANGED <<cache, outside>>
  BY DEF try_insert_waiter
<1>3. CASE WKey(t) \in DOMAIN waiters
  <2> DEFINE c == waiters[WKey(t)]
  <2>1. /\ call' = [call EXCEPT ![t].pc = "wait", ![t].existing = c]
        /\ UNCHANGED <<waiters, wval, wlock>>
    BY <1>3 DEF try_insert_waiter
  <2>2. c \in Calls
    BY <1>3 DEF IInv, DataFields
  <2>3. PICK u \in Threads : Registered(u) /\ c = Id(u) /\ WKey(t) = WKey(u)
    BY <1>3 DEF IInv, WaitersAreOwned
  <2> HIDE DEF c
  <2>4. /\ Fields' /\ SameCall(t) /\ call'[t].pc = "wait" /\ call'[t].existing = c
        /\ call'[t].res = call[t].res
    BY Zenon, <1>1, <2>1, <2>2, WaitFields DEF IInv
  <2>5. \A v \in Threads : v # t => call'[v] = call[v]
    BY <2>4 DEF SameCall, Others
  <2>6. \A v \in Threads : /\ Id(v)' = Id(v) /\ WKey(v)' = WKey(v)
                           /\ call'[v].api = call[v].api /\ call'[v].n = call[v].n
    BY <2>4, <2>5 DEF SameCall, Id, WKey
  <2>7. \A v \in Threads : /\ Registered(v)' <=> Registered(v)
                           /\ Owns(v)' <=> Owns(v)
                           /\ Early(v)' => Early(v)
                           /\ Done(v)' <=> Done(v)
    BY <1>1, <2>4, <2>5 DEF Registered, Owns, Early, Active, Done
  <2>8. DataFields' /\ DirectOnly'
    BY ZenonT(30), <1>0, <1>1, <1>2, <2>1, <2>4, <2>5 DEF IInv, DataFields, DirectOnly, Active, SameCall
  <2>9. RegisteredInMap' /\ WaitersAreOwned' /\ OwnersHoldLock'
    BY <2>1, <2>6, <2>7 DEF IInv, RegisteredInMap, WaitersAreOwned, OwnersHoldLock
  <2>10. WaitersArePast'
    BY Zenon, <2>1, <2>6, <2>7 DEF IInv, WaitersArePast
  <2>11. UnlockedIsDone'
    BY <2>1, <2>6, <2>7 DEF IInv, UnlockedIsDone
  <2>12. ResultsFit'
    <3>1. \A v \in Threads : Owns(v)' => MeantFor(wval[Id(v)], call[v].api)'
      <4> SUFFICES ASSUME NEW v \in Threads, Owns(v)' PROVE MeantFor(wval[Id(v)], call[v].api)'
        BY Zenon
      <4>1. Owns(v)
        BY <2>7
      <4>2. MeantFor(wval[Id(v)], call[v].api)
        BY <4>1 DEF IInv, ResultsFit
      <4> QED
        BY <2>1, <2>6, <4>2 DEF MeantFor
    <3>2. \A v \in Threads : call'[v].pc = "wait"
              => /\ call'[v].existing \in DOMAIN wval'
                 /\ MeantFor(wval[call[v].existing], call[v].api)'
      <4> SUFFICES ASSUME NEW v \in Threads, call'[v].pc = "wait"
                   PROVE  /\ call'[v].existing \in DOMAIN wval
                          /\ MeantFor(wval[call'[v].existing], call[v].api)
        BY ZenonT(30), <2>1, <2>6 DEF MeantFor
      <4>1. CASE v = t
        <5>1. c \in DOMAIN wval /\ MeantFor(wval[c], call[u].api)
          BY <2>3 DEF IInv, OwnersHoldLock, ResultsFit, Owns
        <5>2. call[u].api \in Apis /\ call[t].api \in Apis
          BY <1>1, <2>3 DEF IInv, Fields, Active, Registered
        <5>3. call[u].api.type = call[t].api.type /\ call[u].api.fun # "insert"
          BY <2>3 DEF WKey, Registered
        <5>4. call[u].api.fun = call[t].api.fun /\ call[u].api.err = call[t].api.err
          BY <1>0, <5>2, <5>3, ApisAssumption
        <5> QED
          BY <4>1, <2>4, <5>1, <5>4 DEF MeantFor
      <4>2. CASE v # t
        BY <4>2, <2>5 DEF IInv, ResultsFit
      <4> QED
        BY <4>1, <4>2
    <3>3. \A v, x \in Threads :
              call'[v].pc = "wait" /\ call'[v].existing = Id(x)' /\ Owns(x)'
                  => WKey(v)' = WKey(x)'
      <4> SUFFICES ASSUME NEW v \in Threads, NEW x \in Threads, call'[v].pc = "wait",
                          call'[v].existing = Id(x), Owns(x)
                   PROVE  WKey(v) = WKey(x)
        BY <2>6, <2>7
      <4>1. CASE v = t
        <5>1. x = u
          BY <4>1, <2>3, <2>4 DEF Id
        <5> QED
          BY <4>1, <5>1, <2>3
      <4>2. CASE v # t
        BY <4>2, <2>5 DEF IInv, ResultsFit
      <4> QED
        BY SMTT(30), <4>1, <4>2
    <3> QED
      BY <3>1, <3>2, <3>3 DEF ResultsFit
  <2>13. NoInternalPanic'
    BY <2>4, <2>5 DEF IInv, NoInternalPanic
  <2> QED
    BY <2>4, <2>8, <2>9, <2>10, <2>11, <2>12, <2>13 DEF IInv
<1>4. CASE WKey(t) \notin DOMAIN waiters
  <2>1. /\ Goto(t, "check")
        /\ DOMAIN waiters' = DOMAIN waiters \cup {WKey(t)}
        /\ waiters'[WKey(t)] = Id(t)
        /\ \A w \in DOMAIN waiters : waiters'[w] = waiters[w]
        /\ DOMAIN wval' = DOMAIN wval \cup {Id(t)}
        /\ wval'[Id(t)] = Computing
        /\ \A c \in DOMAIN wval : wval'[c] = wval[c]
        /\ wlock' = wlock \cup {Id(t)}
    BY <1>0, <1>4 DEF try_insert_waiter
  <2>2. /\ Fields' /\ SameCall(t) /\ call'[t].pc = "check"
        /\ call'[t].res = call[t].res
    BY <1>1, <2>1, GotoFields DEF IInv, Pcs
  <2>3. \A v \in Threads : v # t => call'[v] = call[v]
    BY <2>2 DEF SameCall, Others
  <2>4. \A v \in Threads : /\ Id(v)' = Id(v) /\ WKey(v)' = WKey(v)
                           /\ call'[v].api = call[v].api /\ call'[v].n = call[v].n
    BY SMTT(30), <2>2, <2>3 DEF SameCall, Id, WKey
  <2>5. /\ Registered(t)' /\ Owns(t)' /\ ~Early(t)' /\ ~Done(t)'
        /\ \A v \in Threads : v # t => /\ Registered(v)' <=> Registered(v)
                                       /\ Owns(v)' <=> Owns(v)
                                       /\ Early(v)' <=> Early(v)
                                       /\ Done(v)' <=> Done(v)
                                       /\ Id(v) # Id(t)
    BY <1>0, <2>2, <2>3 DEF Registered, Owns, Early, Active, Done, Id, SameCall
  <2>6. Computing.state = "Computing" /\ Computing.val = None
    BY DEF Computing
  <2>7. DataFields' /\ DirectOnly'
    <3>1. DirectOnly'
      BY SMTT(30), <1>0, <2>2, <2>3 DEF IInv, DirectOnly, Active, SameCall
    <3>2. \A w \in DOMAIN waiters' : waiters'[w] \in Calls
      BY <1>0, <2>1 DEF IInv, DataFields
    <3>3. \A c \in DOMAIN wval' : wval'[c] = Computing \/ (c \in DOMAIN wval /\ wval'[c] = wval[c])
      BY <2>1
    <3> QED
      BY <1>2, <2>6, <3>1, <3>2, <3>3 DEF IInv, DataFields
  <2>8. RegisteredInMap'
    <3> SUFFICES ASSUME NEW v \in Threads, Registered(v)'
                 PROVE  WKey(v) \in DOMAIN waiters' /\ waiters'[WKey(v)] = Id(v)
      BY <2>4 DEF RegisteredInMap
    <3>1. CASE v = t
      BY <3>1, <2>1
    <3>2. CASE v # t
      BY Zenon, <3>2, <2>1, <2>5 DEF IInv, RegisteredInMap
    <3> QED
      BY <3>1, <3>2
  <2>9. WaitersAreOwned'
    <3> SUFFICES ASSUME NEW w \in DOMAIN waiters'
                 PROVE  \E v \in Threads : Registered(v)' /\ waiters'[w] = Id(v)' /\ w = WKey(v)'
      BY DEF WaitersAreOwned
    <3>1. CASE w = WKey(t)
      BY Zenon, <3>1, <2>1, <2>4, <2>5
    <3>2. CASE w # WKey(t)
      <4>1. w \in DOMAIN waiters /\ waiters'[w] = waiters[w]
        BY <3>2, <2>1
      <4>2. PICK v \in Threads : Registered(v) /\ waiters[w] = Id(v) /\ w = WKey(v)
        BY SMTT(30), <4>1 DEF IInv, WaitersAreOwned
      <4>3. Registered(v)'
        BY <4>2, <1>1, <2>5
      <4> QED
        BY <4>1, <4>2, <4>3, <2>4
    <3> QED
      BY <3>1, <3>2
  <2>10. OwnersHoldLock'
    BY Zenon, <2>1, <2>4, <2>5 DEF IInv, OwnersHoldLock
  <2>11. WaitersArePast'
    <3>1. \A v \in Threads : Early(v)' => Id(v)' \notin DOMAIN wval'
      BY <2>1, <2>4, <2>5 DEF IInv, WaitersArePast
    <3>2. Id(t) \in Threads \X Nat /\ Id(t)[2] <= call[Id(t)[1]].n
      <4>1. call[t].n \in Nat
        BY <1>1 DEF IInv, Fields
      <4> QED
        BY <4>1 DEF Id
    <3>3. \A c \in DOMAIN wval' : c \in Threads \X Nat /\ c[2] <= call[c[1]].n
      BY <2>1, <3>2 DEF IInv, WaitersArePast
    <3>4. \A c \in Threads \X Nat : c[1] \in Threads
      OBVIOUS
    <3>5. \A c \in DOMAIN wval' : c \in Threads \X Nat /\ c[2] <= call'[c[1]].n
      BY <2>4, <3>3, <3>4
    <3> QED
      BY <3>1, <3>5 DEF WaitersArePast
  <2>12. UnlockedIsDone'
    <3>1. \A v \in Threads : Done(v)' => wval'[Id(v)'].state # "Computing"
      <4> SUFFICES ASSUME NEW v \in Threads, Done(v)'
                   PROVE  wval'[Id(v)].state # "Computing"
        BY <2>4
      <4>1. v # t /\ Done(v)
        BY <2>5
      <4>2. Owns(v)
        BY SMTT(30), <4>1 DEF IInv, Done, Owns, Registered, DirectOnly, Active
      <4> QED
        BY <4>1, <4>2, <2>1 DEF IInv, UnlockedIsDone, OwnersHoldLock
    <3>2. \A c \in DOMAIN wval' : c \notin wlock' => wval'[c].state # "Computing"
      BY SMTT(30), <2>1 DEF IInv, UnlockedIsDone
    <3> QED
      BY SMTT(30), <3>1, <3>2 DEF UnlockedIsDone
  <2>13. ResultsFit'
    <3>1. \A v \in Threads : Owns(v)' => MeantFor(wval[Id(v)], call[v].api)'
      <4> SUFFICES ASSUME NEW v \in Threads, Owns(v)'
                   PROVE  MeantFor(wval'[Id(v)], call[v].api)
        BY SMTT(30), <2>4 DEF MeantFor
      <4>1. CASE v = t
        BY <4>1, <2>1, <2>6 DEF MeantFor
      <4>2. CASE v # t
        BY Zenon, <4>2, <2>1, <2>5 DEF IInv, OwnersHoldLock, ResultsFit
      <4> QED
        BY SMTT(30), <4>1, <4>2
    <3>2. \A v \in Threads : call'[v].pc = "wait"
              => call[v].pc = "wait" /\ call'[v].existing = call[v].existing /\ v # t
      BY SMTT(30), <2>2, <2>3
    <3>3. \A v \in Threads : call'[v].pc = "wait"
              => /\ call'[v].existing \in DOMAIN wval'
                 /\ MeantFor(wval[call[v].existing], call[v].api)'
      <4> SUFFICES ASSUME NEW v \in Threads, call'[v].pc = "wait"
                   PROVE  /\ call'[v].existing \in DOMAIN wval'
                          /\ MeantFor(wval'[call'[v].existing], call'[v].api)
        BY DEF MeantFor
      <4>1. call[v].pc = "wait" /\ call'[v].existing = call[v].existing
        BY <3>2
      <4>2. call'[v].api = call[v].api
        BY SMTT(30), <2>4
      <4>3. /\ call[v].existing \in DOMAIN wval
            /\ MeantFor(wval[call[v].existing], call[v].api)
        BY <4>1 DEF IInv, ResultsFit
      <4>4. /\ call[v].existing \in DOMAIN wval'
            /\ wval'[call[v].existing] = wval[call[v].existing]
        BY <4>3, <2>1
      <4> QED
        BY <4>1, <4>2, <4>3, <4>4
    <3>4. \A v, x \in Threads :
              call'[v].pc = "wait" /\ call'[v].existing = Id(x)' /\ Owns(x)'
                  => WKey(v)' = WKey(x)'
      <4> SUFFICES ASSUME NEW v \in Threads, NEW x \in Threads, call'[v].pc = "wait",
                          call'[v].existing = Id(x), Owns(x)'
                   PROVE  WKey(v) = WKey(x)
        BY ZenonT(30), <2>4
      <4>1. x # t
        BY SMTT(30), <1>0, <3>2 DEF IInv, ResultsFit
      <4> QED
        BY Zenon, <4>1, <2>5, <3>2 DEF IInv, ResultsFit
    <3> QED
      BY <3>1, <3>3, <3>4 DEF ResultsFit
  <2>14. NoInternalPanic'
    BY <2>2, <2>3 DEF IInv, NoInternalPanic
  <2> QED
    BY <2>2, <2>7, <2>8, <2>9, <2>10, <2>11, <2>12, <2>13, <2>14 DEF IInv
<1> QED
  BY <1>3, <1>4

(* The waiter leaves the map; its owner keeps the lock.                    *)
LEMMA RemoveWaiterInv ==
    ASSUME IInv, NEW t \in Threads, remove_waiter(t)
    PROVE  IInv'
<1>1. Active(t) /\ call[t].pc = "unregister" /\ Done(t)
  BY DEF remove_waiter, Active, Done
<1>2. Registered(t) /\ Owns(t) /\ call[t].api.fun # "insert"
  BY <1>1 DEF IInv, DirectOnly, Active, Registered, Owns
<1>3. /\ UNCHANGED <<cache, wval, wlock, outside>>
      /\ DOMAIN waiters' = DOMAIN waiters \ {WKey(t)}
      /\ \A w \in DOMAIN waiters : w # WKey(t) => waiters'[w] = waiters[w]
  BY SMTT(30) DEF remove_waiter
<1>4. /\ Fields' /\ SameCall(t) /\ call'[t].pc = "unlock" /\ call'[t].res = call[t].res
  BY <1>1, GotoFields DEF remove_waiter, IInv, Pcs
<1>5. \A v \in Threads : v # t => call'[v] = call[v]
  BY <1>4 DEF SameCall, Others
<1>6. \A v \in Threads : /\ Id(v)' = Id(v) /\ WKey(v)' = WKey(v)
                         /\ call'[v].api = call[v].api /\ call'[v].n = call[v].n
  BY SMTT(30), <1>4, <1>5 DEF SameCall, Id, WKey
<1>7. /\ ~Registered(t)'
      /\ \A v \in Threads : /\ Owns(v)' <=> Owns(v)
                            /\ Early(v)' => Early(v)
                            /\ Done(v)' <=> Done(v)
      /\ \A v \in Threads : v # t => (Registered(v)' <=> Registered(v)) /\ Id(v) # Id(t)
  BY <1>1, <1>2, <1>4, <1>5 DEF Registered, Owns, Early, Active, Done, Id, SameCall
<1>8. DataFields' /\ DirectOnly'
  <2>1. DirectOnly'
    BY SMTT(30), <1>2, <1>4, <1>5 DEF IInv, DirectOnly, Active, SameCall
  <2> QED
    BY ZenonT(30), <1>3, <2>1 DEF IInv, DataFields
<1>9. RegisteredInMap'
  <2> SUFFICES ASSUME NEW v \in Threads, Registered(v)'
               PROVE  WKey(v) \in DOMAIN waiters' /\ waiters'[WKey(v)] = Id(v)
    BY <1>6 DEF RegisteredInMap
  <2>1. v # t /\ Registered(v) /\ Id(v) # Id(t)
    BY <1>7
  <2>2. WKey(v) # WKey(t) /\ WKey(v) \in DOMAIN waiters /\ waiters[WKey(v)] = Id(v)
    BY <1>2, <2>1 DEF IInv, RegisteredInMap
  <2> QED
    BY <1>3, <2>2
<1>10. WaitersAreOwned'
  <2> SUFFICES ASSUME NEW w \in DOMAIN waiters'
               PROVE  \E v \in Threads : Registered(v)' /\ waiters'[w] = Id(v)' /\ w = WKey(v)'
    BY DEF WaitersAreOwned
  <2>1. w \in DOMAIN waiters /\ w # WKey(t) /\ waiters'[w] = waiters[w]
    BY <1>3
  <2>2. PICK v \in Threads : Registered(v) /\ waiters[w] = Id(v) /\ w = WKey(v)
    BY <2>1 DEF IInv, WaitersAreOwned
  <2>3. v # t
    BY <2>1, <2>2
  <2> QED
    BY Zenon, <1>6, <1>7, <2>1, <2>2, <2>3
<1>a. UNCHANGED <<wval, wlock>>
  BY <1>3
<1>b. \A v \in Threads : /\ Owns(v)' => Owns(v)
                         /\ Early(v)' => Early(v)
                         /\ Done(v)' => Done(v)
  BY <1>7
<1>11. OwnersHoldLock' /\ WaitersArePast'
  <2>1. OwnersHoldLock'
    BY <1>a, <1>6, <1>b DEF IInv, OwnersHoldLock
  <2>2. WaitersArePast'
    BY SMTT(30), <1>a, <1>6, <1>b DEF IInv, WaitersArePast
  <2> QED
    BY SMTT(30), <2>1, <2>2
<1>12. UnlockedIsDone'
  BY SMTT(30), <1>a, <1>6, <1>b, UnlockedFrame DEF IInv
<1>13. ResultsFit'
  <2>1. \A v \in Threads : call'[v].pc = "wait"
            => call[v].pc = "wait" /\ call'[v].existing = call[v].existing
    BY <1>4, <1>5
  <2> QED
    BY <1>a, <1>6, <1>b, <2>1, ResultsFitFrame DEF IInv
<1>14. NoInternalPanic'
  BY <1>4, <1>5 DEF IInv, NoInternalPanic
<1> QED
  BY Zenon, <1>4, <1>8, <1>9, <1>10, <1>11, <1>12, <1>13, <1>14 DEF IInv

(* The lock is released, after the result was set.                         *)
LEMMA UnlockInv ==
    ASSUME IInv, NEW t \in Threads, Unlock(t)
    PROVE  IInv'
<1>1. Active(t) /\ call[t].pc = "unlock" /\ Done(t) /\ ~Registered(t)
  BY DEF Unlock, Active, Done, Registered
<1>2. UNCHANGED <<cache, waiters, wval, outside>> /\ wlock' = wlock \ {Id(t)}
  BY SMTT(30) DEF Unlock
<1>3. /\ Fields' /\ SameCall(t) /\ call'[t].pc = "idle" /\ call'[t].res = call[t].res
  BY <1>1, GotoFields DEF Unlock, IInv, Pcs
<1>4. \A v \in Threads : v # t => call'[v] = call[v]
  BY <1>3 DEF SameCall, Others
<1>5. \A v \in Threads : /\ Id(v)' = Id(v) /\ WKey(v)' = WKey(v)
                         /\ call'[v].api = call[v].api /\ call'[v].n = call[v].n
  BY SMTT(30), <1>3, <1>4 DEF SameCall, Id, WKey
<1>6. /\ ~Owns(t)' /\ ~Done(t)' /\ ~Early(t)'
      /\ \A v \in Threads : Registered(v)' <=> Registered(v)
      /\ \A v \in Threads : v # t => /\ Owns(v)' <=> Owns(v)
                                     /\ Early(v)' <=> Early(v)
                                     /\ Done(v)' <=> Done(v)
                                     /\ Id(v) # Id(t)
  BY <1>1, <1>3, <1>4 DEF Registered, Owns, Early, Active, Done, Id, SameCall
<1>7. DataFields' /\ DirectOnly'
  <2>1. DirectOnly'
    BY <1>3, <1>4 DEF IInv, DirectOnly, Active, SameCall
  <2> QED
    BY ZenonT(30), <1>2, <2>1 DEF IInv, DataFields
<1>8. RegisteredInMap' /\ WaitersAreOwned'
  <2>1. RegisteredInMap'
    BY Zenon, <1>2, <1>5, <1>6 DEF IInv, RegisteredInMap
  <2>2. ASSUME NEW w \in DOMAIN waiters'
        PROVE  \E v \in Threads : Registered(v)' /\ waiters'[w] = Id(v)' /\ w = WKey(v)'
    <3>1. PICK v \in Threads : Registered(v) /\ waiters[w] = Id(v) /\ w = WKey(v)
      BY <1>2, <2>2 DEF IInv, WaitersAreOwned
    <3> QED
      BY Zenon, <3>1, <1>2, <1>5, <1>6
  <2> QED
    BY <2>1, <2>2 DEF WaitersAreOwned
<1>9. OwnersHoldLock'
  BY Zenon, <1>2, <1>5, <1>6 DEF IInv, OwnersHoldLock
<1>10. WaitersArePast'
  BY ZenonT(30), <1>2, <1>5, <1>6 DEF IInv, WaitersArePast
<1>11. UnlockedIsDone'
  <2>1. wval[Id(t)].state # "Computing"
    BY Zenon, <1>1 DEF IInv, UnlockedIsDone
  <2>2. \A c \in DOMAIN wval : c \notin wlock' => wval[c].state # "Computing"
    BY <1>2, <2>1 DEF IInv, UnlockedIsDone
  <2>3. \A v \in Threads : Done(v)' => wval'[Id(v)'].state # "Computing"
    BY Zenon, <1>2, <1>5, <1>6 DEF IInv, UnlockedIsDone
  <2> QED
    BY Zenon, <1>2, <2>2, <2>3 DEF UnlockedIsDone
<1>12. ResultsFit'
  <2>1. \A v \in Threads : call'[v].pc = "wait"
            => call[v].pc = "wait" /\ call'[v].existing = call[v].existing
    BY <1>3, <1>4
  <2> QED
    BY Zenon, <1>2, <1>5, <1>6, <2>1, ResultsFitFrame DEF IInv
<1>13. NoInternalPanic'
  BY <1>3, <1>4 DEF IInv, NoInternalPanic
<1> QED
  BY Zenon, <1>3, <1>7, <1>8, <1>9, <1>10, <1>11, <1>12, <1>13 DEF IInv

(* A new call has a number of its own.                                     *)
LEMMA BeginInv ==
    ASSUME IInv, NEW t \in Threads, NEW k \in Keys, NEW api \in Apis, Begin(t, k, api)
    PROVE  IInv'
<1>1. ~Active(t) /\ call[t].pc = "idle"
  BY DEF Begin, Active
<1>2. UNCHANGED <<cache, waiters, wval, wlock, outside>>
  BY DEF Begin
<1>3. /\ Fields' /\ Others(t) /\ call'[t].n = call[t].n + 1 /\ call'[t].api = api
      /\ call'[t].pc = IF api.lookup THEN "lookup" ELSE "register"
      /\ call'[t].res = NoResult
  BY BeginFields DEF IInv
<1>4. call[t].n \in Nat
  <2>1. call[t].n \in 0 .. MaxCalls
    BY SMTT(30) DEF IInv, Fields, CallType
  <2> QED
    BY <2>1, BoundsAssumption
<1>5. \A v \in Threads : v # t => call'[v] = call[v]
  BY SMTT(30), <1>3 DEF Others
<1>6. \A v \in Threads : v # t => /\ Id(v)' = Id(v) /\ WKey(v)' = WKey(v)
                                  /\ Registered(v)' <=> Registered(v)
                                  /\ Owns(v)' <=> Owns(v)
                                  /\ Early(v)' <=> Early(v)
                                  /\ Done(v)' <=> Done(v)
  BY <1>5 DEF Id, WKey, Registered, Owns, Early, Done, Active
<1>7. call'[t].pc \in {"lookup", "register"}
  BY SMTT(30), <1>3
<1>8. /\ ~Registered(t)' /\ ~Owns(t)' /\ ~Done(t)'
      /\ ~Registered(t) /\ ~Owns(t)
  BY <1>1, <1>7 DEF Registered, Owns, Done
<1>9. Id(t)' \notin DOMAIN wval
  <2>1. Id(t)' = <<t, call[t].n + 1>>
    BY <1>3 DEF Id
  <2>2. <<t, call[t].n + 1>>[2] = call[t].n + 1 /\ <<t, call[t].n + 1>>[1] = t
    OBVIOUS
  <2>3. <<t, call[t].n + 1>> \in DOMAIN wval => call[t].n + 1 <= call[t].n
    BY <2>2 DEF IInv, WaitersArePast
  <2>4. ~(call[t].n + 1 <= call[t].n)
    BY SMTT(30), <1>4
  <2> QED
    BY <2>1, <2>3, <2>4
<1>10. DataFields' /\ DirectOnly'
  <2>1. api.fun = "insert" => api.lookup
    BY ApisAssumption
  <2>2. api.fun = "insert" => call'[t].pc = "lookup"
    BY <1>3, <2>1
  <2>3. DirectOnly'
    BY <1>3, <1>5, <1>7, <2>2 DEF IInv, DirectOnly, Active
  <2> QED
    BY <1>2, <2>3 DEF IInv, DataFields
<1>11. RegisteredInMap' /\ OwnersHoldLock'
  BY Zenon, <1>2, <1>6, <1>8 DEF IInv, RegisteredInMap, OwnersHoldLock
<1>12. WaitersAreOwned'
  <2> SUFFICES ASSUME NEW w \in DOMAIN waiters
               PROVE  \E v \in Threads : Registered(v)' /\ waiters[w] = Id(v)' /\ w = WKey(v)'
    BY <1>2 DEF WaitersAreOwned
  <2>1. PICK v \in Threads : Registered(v) /\ waiters[w] = Id(v) /\ w = WKey(v)
    BY DEF IInv, WaitersAreOwned
  <2>2. v # t
    BY <1>8, <2>1
  <2> QED
    BY <1>6, <2>1, <2>2
<1>13. WaitersArePast'
  <2>1. \A v \in Threads : Early(v)' => Id(v)' \notin DOMAIN wval'
    <3>1. \A v \in Threads : v # t /\ Early(v)' => Id(v)' \notin DOMAIN wval
      BY Zenon, <1>6 DEF IInv, WaitersArePast
    <3> QED
      BY <1>2, <1>9, <3>1
  <2>2. \A c \in DOMAIN wval : c \in Threads \X Nat /\ c[2] <= call'[c[1]].n
    <3> SUFFICES ASSUME NEW c \in DOMAIN wval
                 PROVE  c \in Threads \X Nat /\ c[2] <= call'[c[1]].n
      OBVIOUS
    <3>1. c \in Threads \X Nat /\ c[2] <= call[c[1]].n
      BY DEF IInv, WaitersArePast
    <3>2. c[1] \in Threads /\ c[2] \in Nat
      BY <3>1
    <3>3. CASE c[1] = t
      <4>1. c[2] <= call[t].n
        BY <3>1, <3>3
      <4>2. c[2] <= call[t].n + 1
        BY <4>1, <3>2, <1>4
      <4> QED
        BY <1>3, <3>1, <3>3, <4>2
    <3>4. CASE c[1] # t
      BY <1>5, <3>1, <3>2, <3>4
    <3> QED
      BY <3>3, <3>4
  <2> QED
    BY <1>2, <2>1, <2>2 DEF WaitersArePast
<1>14. UnlockedIsDone'
  <2>1. \A v \in Threads : Done(v)' => wval'[Id(v)'].state # "Computing"
    <3> SUFFICES ASSUME NEW v \in Threads, Done(v)'
                 PROVE  wval[Id(v)'].state # "Computing"
      BY <1>2
    <3>1. v # t
      BY SMTT(30), <1>8
    <3> QED
      BY ZenonT(30), <1>6, <3>1 DEF IInv, UnlockedIsDone
  <2> QED
    BY <1>2, <2>1 DEF IInv, UnlockedIsDone
<1>15. ResultsFit'
  <2>0. \A v \in Threads : call'[v].pc = "wait"
            => v # t /\ call[v].pc = "wait" /\ call'[v].existing = call[v].existing
    BY <1>5, <1>7
  <2>1. \A v \in Threads : Owns(v)' => MeantFor(wval[Id(v)], call[v].api)'
    <3> SUFFICES ASSUME NEW v \in Threads, Owns(v)'
                 PROVE  MeantFor(wval[Id(v)'], call'[v].api)
      BY <1>2 DEF MeantFor
    <3>1. v # t
      BY <1>8
    <3>2. Owns(v) /\ Id(v)' = Id(v) /\ call'[v].api = call[v].api
      BY ZenonT(30), <1>5, <1>6, <3>1
    <3> QED
      BY Zenon, <3>2 DEF IInv, ResultsFit
  <2>2. \A v \in Threads : call'[v].pc = "wait"
            => /\ call'[v].existing \in DOMAIN wval'
               /\ MeantFor(wval[call[v].existing], call[v].api)'
    <3> SUFFICES ASSUME NEW v \in Threads, call'[v].pc = "wait"
                 PROVE  /\ call'[v].existing \in DOMAIN wval
                        /\ MeantFor(wval[call'[v].existing], call'[v].api)
      BY <1>2 DEF MeantFor
    <3> QED
      BY Zenon, <1>5, <2>0 DEF IInv, ResultsFit
  <2>3. \A v, x \in Threads :
            call'[v].pc = "wait" /\ call'[v].existing = Id(x)' /\ Owns(x)'
                => WKey(v)' = WKey(x)'
    <3> SUFFICES ASSUME NEW v \in Threads, NEW x \in Threads, call'[v].pc = "wait",
                        call'[v].existing = Id(x)', Owns(x)'
                 PROVE  WKey(v)' = WKey(x)'
      OBVIOUS
    <3>1. x # t /\ v # t
      BY <1>8, <2>0
    <3>2. /\ Id(x)' = Id(x) /\ WKey(x)' = WKey(x) /\ WKey(v)' = WKey(v) /\ Owns(x)
          /\ call[v].pc = "wait" /\ call[v].existing = Id(x)
      BY Zenon, <1>6, <2>0, <3>1
    <3> QED
      BY Zenon, <3>2 DEF IInv, ResultsFit
  <2> QED
    BY <2>1, <2>2, <2>3 DEF ResultsFit
<1>16. NoInternalPanic'
  <2>1. NoResult.kind = "none"
    BY DEF NoResult, Result
  <2> QED
    BY <1>3, <1>5, <2>1 DEF IInv, NoInternalPanic
<1> QED
  BY <1>3, <1>10, <1>11, <1>12, <1>13, <1>14, <1>15, <1>16 DEF IInv

(* Nothing but the cache changes.                                          *)
LEMMA CacheInv ==
    ASSUME IInv, UNCHANGED <<waiters, wval, wlock, call>>, DataFields'
    PROVE  IInv'
<1> USE DEF IInv
<1>1. Fields'
  BY DEF Fields, Active
<1>2. DirectOnly'
  BY DEF DirectOnly, Active
<1>3. RegisteredInMap' /\ WaitersAreOwned'
  BY DEF RegisteredInMap, WaitersAreOwned, Registered, Id, WKey
<1>4. OwnersHoldLock'
  BY DEF OwnersHoldLock, Owns, Registered, Id
<1>5. WaitersArePast'
  BY DEF WaitersArePast, Early, Active, Id
<1>6. UnlockedIsDone'
  BY DEF UnlockedIsDone, Done, Id
<1>7. ResultsFit'
  <2>1. \A v \in Threads : Id(v)' = Id(v) /\ WKey(v)' = WKey(v) /\ (Owns(v)' <=> Owns(v))
    BY DEF Id, WKey, Owns, Registered
  <2> QED
    BY <2>1, ResultsFitFrame
<1>8. NoInternalPanic'
  BY DEF NoInternalPanic
<1> QED
  BY <1>1, <1>2, <1>3, <1>4, <1>5, <1>6, <1>7, <1>8

(* Changes of the cache from outside, and steps that change nothing.       *)
LEMMA OutsideInv ==
    ASSUME IInv, NEW k \in Keys, Outside(k)
    PROVE  IInv'
<1>1. UNCHANGED <<waiters, wval, wlock, call>>
  BY DEF Outside
<1>2. cache' \in [Keys -> Values \cup {None}] /\ outside' \in 0 .. MaxOutside
  <2>0. cache \in [Keys -> Values \cup {None}] /\ outside \in 0 .. MaxOutside
    BY DEF IInv, DataFields
  <2>1. CASE cache' = [cache EXCEPT ![k] = None] /\ UNCHANGED outside
    BY <2>0, <2>1
  <2>2. CASE /\ outside < MaxOutside
             /\ outside' = outside + 1
             /\ cache' = [cache EXCEPT ![k] = <<None, outside'>>]
    <3>1. outside' \in 1 .. MaxOutside /\ outside' \in 0 .. MaxOutside
      BY <2>0, <2>2, BoundsAssumption
    <3>2. <<None, outside'>> \in Values \cup {None}
      BY <3>1 DEF Values
    <3> QED
      BY <2>0, <2>2, <3>1, <3>2
  <2> QED
    BY <2>1, <2>2 DEF Outside
<1>3. DataFields'
  BY <1>1, <1>2 DEF IInv, DataFields
<1> QED
  BY <1>1, <1>3, CacheInv

(* Stuttering.                                                             *)
LEMMA StutterInv ==
    ASSUME IInv, UNCHANGED vars
    PROVE  IInv'
<1>1. UNCHANGED <<cache, waiters, wval, wlock, call, outside>>
  BY DEF vars
<1>2. DataFields'
  BY <1>1 DEF IInv, DataFields
<1> QED
  BY <1>1, <1>2, CacheInv

(* The first state satisfies the invariant.                                *)
LEMMA InitInv == Init => IInv
<1> SUFFICES ASSUME Init PROVE IInv
  OBVIOUS
<1>1. call = [t \in Threads |-> Idle]
  BY DEF Init
<1>2. \A t \in Threads : call[t] = Idle /\ call[t].pc = "idle"
  BY <1>1, IdleType
<1>3. Fields
  BY <1>1, <1>2, IdleType DEF Fields, Active
<1>4. DataFields
  BY BoundsAssumption DEF DataFields, Init
<1>5. /\ \A t \in Threads : ~Registered(t) /\ ~Owns(t) /\ ~Early(t) /\ ~Active(t) /\ ~Done(t)
      /\ \A t \in Threads : call[t].pc # "wait" /\ call[t].pc # "remove"
  BY <1>2 DEF Registered, Owns, Early, Active, Done
<1>6. DOMAIN waiters = {} /\ DOMAIN wval = {}
  BY DEF Init
<1>7. DirectOnly /\ RegisteredInMap /\ WaitersAreOwned /\ OwnersHoldLock
  BY <1>5, <1>6 DEF DirectOnly, RegisteredInMap, WaitersAreOwned, OwnersHoldLock
<1>8. WaitersArePast /\ UnlockedIsDone /\ ResultsFit
  BY Zenon, <1>5, <1>6 DEF WaitersArePast, UnlockedIsDone, ResultsFit
<1>9. NoInternalPanic
  <2>1. Idle.res = NoResult /\ NoResult.kind = "none"
    BY IdleType DEF NoResult, Result
  <2> QED
    BY <1>2, <2>1 DEF NoInternalPanic
<1> QED
  BY <1>3, <1>4, <1>7, <1>8, <1>9 DEF IInv

-----------------------------------------------------------------------------
(* Every step keeps the invariant.                                         *)
LEMMA NextInv ==
    ASSUME IInv, [Next]_vars
    PROVE  IInv'
<1>1. ASSUME NEW t \in Threads, Work(t)
      PROVE  IInv'
  BY <1>1, LookupInv, TryInsertWaiterInv, ReadWaiterInv, WaitForOthersInv, CheckAgainInv,
     GetEntryInv, ClosurePanicsInv, EvaluateInitInv, EvaluateComputeInv, InsertDirectlyInv,
     InsertInitInv, InsertComputeInv, RemoveInv, RemoveWaiterInv, UnlockInv DEF Work
<1>2. ASSUME NEW t \in Threads, NEW k \in Keys, NEW api \in Apis, Begin(t, k, api)
      PROVE  IInv'
  BY <1>2, BeginInv
<1>3. ASSUME NEW k \in Keys, Outside(k)
      PROVE  IInv'
  BY <1>3, OutsideInv
<1>4. CASE UNCHANGED vars
  BY <1>4, StutterInv
<1> QED
  BY <1>1, <1>2, <1>3, <1>4 DEF Next, Finished

(* IInv holds in every state of the initializer.                           *)
THEOREM Invariance == Spec => []IInv
<1>1. IInv /\ [Next]_vars => IInv'
  BY NextInv
<1> QED
  BY <1>1, InitInv, PTL DEF Spec

(* Of the calls of one key and type, one at a time evaluates its closure   *)
(* and changes the cache: try_insert_waiter lets one call register.        *)
THEOREM OneEvaluationHolds == Spec => []OneEvaluation
<1>1. IInv => OneEvaluation
  <2> SUFFICES ASSUME IInv, NEW t \in Threads, NEW u \in Threads,
                      Registered(t), Registered(u), WKey(t) = WKey(u)
               PROVE  t = u
    BY DEF OneEvaluation
  <2>1. Id(t) = Id(u)
    BY DEF IInv, RegisteredInMap
  <2> QED
    BY <2>1 DEF Id
<1> QED
  BY <1>1, Invariance, PTL

(* No waiter stays in the map after the call that registered it, also when *)
(* its closure panicked.                                                   *)
THEOREM WaitersAreOwnedHolds == Spec => []WaitersAreOwned
<1>1. IInv => WaitersAreOwned
  BY DEF IInv
<1> QED
  BY <1>1, Invariance, PTL

(* The panics of the initializer that "might be a bug in Moka" and the     *)
(* failure of the downcast are unreachable.                                *)
THEOREM NoInternalPanicHolds == Spec => []NoInternalPanic
<1>1. IInv => NoInternalPanic
  BY DEF IInv
<1> QED
  BY <1>1, Invariance, PTL
=============================================================================

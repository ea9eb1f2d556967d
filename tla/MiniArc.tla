------------------------------ MODULE MiniArc -------------------------------
(***************************************************************************)
(* The reference-counted pointer of src/common/concurrent/arc.rs, which    *)
(* the value entries, the deque nodes and the predicates are shared with.  *)
(* The count has 32 bits.  clone() adds to it before it looks at the       *)
(* result, and ends the process when there were too many; between the two  *)
(* steps other threads go on.  The limit is far enough below the width of  *)
(* the count that the threads caught between them cannot make it wrap.     *)
(***************************************************************************)
EXTENDS Naturals, FiniteSets, FiniteSetTheorems, TLAPS

CONSTANTS
    Threads,
    MAX_REFCOUNT,       \* i32::MAX
    Wrap,               \* 2^32, the counts of a u32
    MaxHandles          \* bound: pointers that memory has room for

VARIABLES
    ref_count,
    held,               \* how many MiniArcs to the allocation there are
    over,               \* threads in clone() past the limit, about to abort
    last,               \* threads in drop() that took the count to zero
    drops,              \* how often the data was dropped
    aborted

vars == <<ref_count, held, over, last, drops, aborted>>

(* The limit is meant to leave room for a clone() in every thread.         *)
ASSUME ArcAssumption ==
    /\ IsFiniteSet(Threads)
    /\ MAX_REFCOUNT \in Nat /\ Wrap \in Nat /\ MaxHandles \in Nat
    /\ MAX_REFCOUNT + 1 + Cardinality(Threads) < Wrap

(* MiniArc::new                                                            *)
Init ==
    /\ ref_count = 1 /\ held = 1
    /\ over = {} /\ last = {}
    /\ drops = 0 /\ aborted = FALSE

Idle(t) == t \notin over \cup last

clone_unlimited(t) ==
    /\ ~aborted /\ Idle(t) /\ held > 0 /\ held < MaxHandles
    /\ ref_count' = (ref_count + 1) % Wrap
    /\ held' = held + 1
    /\ UNCHANGED <<over, last, drops, aborted>>

clone(t) ==
    /\ ~aborted /\ Idle(t) /\ held > 0 /\ held < MaxHandles
    /\ ref_count' = (ref_count + 1) % Wrap
    /\ IF ref_count > MAX_REFCOUNT
       THEN over' = over \cup {t} /\ UNCHANGED held
       ELSE held' = held + 1 /\ UNCHANGED over
    /\ UNCHANGED <<last, drops, aborted>>

Abort(t) ==
    /\ ~aborted /\ t \in over
    /\ aborted' = TRUE
    /\ UNCHANGED <<ref_count, held, over, last, drops>>

drop(t) ==
    /\ ~aborted /\ Idle(t) /\ held > 0
    /\ ref_count' = (ref_count + Wrap - 1) % Wrap
    /\ held' = held - 1
    /\ last' = IF ref_count = 1 THEN last \cup {t} ELSE last
    /\ UNCHANGED <<over, drops, aborted>>

Deallocate(t) ==
    /\ ~aborted /\ t \in last
    /\ last' = last \ {t}
    /\ drops' = drops + 1
    /\ UNCHANGED <<ref_count, held, over, aborted>>

Step(t) == clone(t) \/ Abort(t) \/ drop(t) \/ Deallocate(t)

Next == \E t \in Threads : Step(t)

Spec == Init /\ [][Next]_vars
-----------------------------------------------------------------------------
(* A pointer that exists, and a drop() that has yet to free the data, has  *)
(* data to point to, and the data is dropped at most once.                 *)
NoUseAfterFree ==
    /\ held > 0 \/ last # {} => drops = 0
    /\ drops <= 1
    /\ \A t, u \in last : t = u
    /\ held > 0 => last = {}

(* When the last pointer is gone and no thread is inside drop(), the data  *)
(* has been freed, unless clone() is about to end the process.             *)
NoLeak == held = 0 /\ last = {} /\ over = {} => drops = 1

(* The count is exact: it counts the pointers and the clones past the      *)
(* limit, and those can never make it wrap.                                *)
CountExact ==
    /\ ref_count = held + Cardinality(over)
    /\ held <= MAX_REFCOUNT + 1
    /\ ref_count < Wrap

(* The data of a MiniArc is freed once, with the last of its pointers, and *)
(* no number of clones makes the count wrap to free it earlier.            *)
Counted == NoUseAfterFree /\ NoLeak /\ CountExact

-----------------------------------------------------------------------------
(***************************************************************************)
(* MiniArc is correct for every number of threads that its limit leaves    *)
(* room for: the count is exact, so the data outlives its pointers, is     *)
(* dropped once and is not leaked.                                         *)
(***************************************************************************)

(* The invariant is inductive once it says when the count is zero: exactly *)
(* when the data is being dropped or has been.                             *)
IInv ==
    /\ ref_count \in Nat /\ held \in Nat /\ drops \in Nat
    /\ over \subseteq Threads /\ last \subseteq Threads
    /\ CountExact
    /\ ref_count > 0 => drops = 0 /\ last = {}
    /\ ref_count = 0 => \/ last = {} /\ drops = 1
                        \/ drops = 0 /\ \E t \in Threads : last = {t}

(* A set of threads has at most as many members as there are threads, and  *)
(* one more with a thread that was not in it.                              *)
LEMMA OverBounded ==
    ASSUME NEW S, S \subseteq Threads
    PROVE  /\ IsFiniteSet(S) /\ Cardinality(S) \in Nat
           /\ Cardinality(S) <= Cardinality(Threads)
           /\ Cardinality(Threads) \in Nat
           /\ \A t \in Threads \ S : Cardinality(S \cup {t}) = Cardinality(S) + 1
  <1>1. IsFiniteSet(Threads) /\ Cardinality(Threads) \in Nat
    BY ArcAssumption, FS_CardinalityType
  <1>2. IsFiniteSet(S) /\ Cardinality(S) <= Cardinality(Threads)
    BY <1>1, FS_Subset
  <1>3. Cardinality(S) \in Nat
    BY <1>2, FS_CardinalityType
  <1>4. ASSUME NEW t \in Threads \ S PROVE Cardinality(S \cup {t}) = Cardinality(S) + 1
    BY <1>2, <1>4, FS_AddElement
  <1> QED BY <1>1, <1>2, <1>3, <1>4

(* A new MiniArc has one pointer and a count of one.                       *)
LEMMA InitIInv == Init => IInv
  <1> SUFFICES ASSUME Init PROVE IInv
    OBVIOUS
  <1>1. Cardinality(over) = 0
    BY FS_EmptySet DEF Init
  <1>2. Cardinality(Threads) \in Nat
    BY ArcAssumption, FS_CardinalityType
  <1> QED BY <1>1, <1>2, ArcAssumption DEF Init, IInv, CountExact

(* Adding to or subtracting from a count in range does not wrap.           *)
LEMMA NoWrap ==
    ASSUME NEW n \in Nat, n + 1 < Wrap
    PROVE  /\ (n + 1) % Wrap = n + 1
           /\ n > 0 => (n + Wrap - 1) % Wrap = n - 1
  BY ArcAssumption, SMTT(30)

(* Every step of clone() and of drop() keeps the invariant.                *)
LEMMA NextIInv == IInv /\ [Next]_vars => IInv'
  <1> SUFFICES ASSUME IInv, [Next]_vars PROVE IInv'
    OBVIOUS
  <1>c. /\ Cardinality(over) \in Nat /\ Cardinality(Threads) \in Nat
        /\ Cardinality(over) <= Cardinality(Threads)
    BY OverBounded DEF IInv
  <1>n. ref_count + 1 < Wrap \/ over = Threads
    <2>1. CASE over = Threads
      BY <2>1
    <2>2. CASE over # Threads
      <3>1. PICK t \in Threads : t \notin over
        BY <2>2 DEF IInv
      <3>2. Cardinality(over \cup {t}) = Cardinality(over) + 1
        BY <3>1, OverBounded DEF IInv
      <3>3. Cardinality(over \cup {t}) <= Cardinality(Threads)
        BY OverBounded DEF IInv
      <3> QED BY <3>2, <3>3, <1>c, ArcAssumption DEF IInv, CountExact
    <2> QED BY <2>1, <2>2
  <1>1. ASSUME NEW t \in Threads, clone(t) PROVE IInv'
    <2>1. (ref_count + 1) % Wrap = ref_count + 1
      BY <1>1, <1>n, NoWrap DEF clone, Idle, IInv
    <2>2. CASE ref_count > MAX_REFCOUNT
      <3>1. Cardinality(over') = Cardinality(over) + 1
        BY <1>1, <2>2, OverBounded DEF clone, Idle, IInv
      <3>2. over' \subseteq Threads
        BY <1>1, <2>2 DEF clone, IInv
      <3>3. Cardinality(over') <= Cardinality(Threads)
        BY <3>2, OverBounded
      <3> QED BY <1>1, <1>c, <2>1, <2>2, <3>1, <3>2, <3>3, ArcAssumption DEF clone, IInv, CountExact
    <2>3. CASE ~(ref_count > MAX_REFCOUNT)
      BY <1>1, <1>c, <2>1, <2>3, ArcAssumption DEF clone, IInv, CountExact
    <2> QED BY <2>2, <2>3
  <1>2. ASSUME NEW t \in Threads, Abort(t) PROVE IInv'
    BY <1>2 DEF Abort, IInv, CountExact
  <1>3. ASSUME NEW t \in Threads, drop(t) PROVE IInv'
    <2>1. ref_count > 0 /\ held > 0
      BY <1>3, <1>c DEF drop, IInv, CountExact
    <2>2. (ref_count + Wrap - 1) % Wrap = ref_count - 1
      BY <1>3, <1>n, <2>1, NoWrap DEF drop, Idle, IInv
    <2>3. ref_count' = ref_count - 1 /\ held' = held - 1 /\ over' = over /\ drops' = 0
      BY <1>3, <2>1, <2>2 DEF drop, IInv
    <2>4. last' = (IF ref_count = 1 THEN {t} ELSE {})
      BY <1>3, <2>1 DEF drop, IInv
    <2>5. CASE ref_count = 1
      <3>1. last' = {t} /\ ref_count' = 0 /\ drops' = 0
        BY <2>3, <2>4, <2>5
      <3>2. last' \subseteq Threads /\ \E u \in Threads : last' = {u}
        BY <3>1
      <3>3. CountExact' /\ held' \in Nat /\ over' \subseteq Threads
        <4>1. held = 1 /\ Cardinality(over) = 0
          BY <1>c, <2>1, <2>5 DEF IInv, CountExact
        <4>2. held' = 0 /\ Cardinality(over') = 0 /\ over' \subseteq Threads
          BY <4>1, <2>3 DEF IInv
        <4>3. 0 < Wrap /\ 0 <= MAX_REFCOUNT + 1
          BY <1>c, ArcAssumption
        <4> QED BY <3>1, <4>2, <4>3 DEF CountExact
      <3> QED BY <3>1, <3>2, <3>3 DEF IInv
    <2>6. CASE ref_count # 1
      BY <1>c, <2>1, <2>3, <2>4, <2>6, ArcAssumption DEF IInv, CountExact
    <2> QED BY <2>5, <2>6
  <1>4. ASSUME NEW t \in Threads, Deallocate(t) PROVE IInv'
    <2>1. ref_count = 0 /\ last = {t} /\ drops = 0
      BY <1>4 DEF Deallocate, IInv
    <2> QED BY <1>4, <2>1 DEF Deallocate, IInv, CountExact
  <1>5. CASE UNCHANGED vars
    BY <1>5 DEF vars, IInv, CountExact
  <1> QED BY <1>1, <1>2, <1>3, <1>4, <1>5 DEF Next, Step

(* The invariant implies what the users of a MiniArc rely on.              *)
LEMMA IInvSuffices == IInv => NoUseAfterFree /\ NoLeak
  <1> SUFFICES ASSUME IInv PROVE NoUseAfterFree /\ NoLeak
    OBVIOUS
  <1>1. Cardinality(over) \in Nat
    BY OverBounded DEF IInv
  <1>2. held > 0 => ref_count > 0
    BY <1>1 DEF IInv, CountExact
  <1>3. NoUseAfterFree
    BY <1>2 DEF IInv, NoUseAfterFree
  <1>4. over = {} => Cardinality(over) = 0
    BY FS_EmptySet
  <1>5. NoLeak
    BY <1>4 DEF IInv, NoLeak, CountExact
  <1> QED BY <1>3, <1>5

(* The count is exact and never wraps, whatever clone() and drop() do.     *)
THEOREM CountIsExact == Spec => []CountExact
  <1>1. IInv => CountExact
    BY DEF IInv
  <1> QED BY InitIInv, NextIInv, <1>1, PTL DEF Spec

(* No pointer outlives the data, and the data is dropped only once.        *)
THEOREM DataOutlivesPointers == Spec => []NoUseAfterFree
  BY InitIInv, NextIInv, IInvSuffices, PTL DEF Spec

(* The data does not outlive its last pointer and the drop() of it.        *)
THEOREM DataIsFreed == Spec => []NoLeak
  BY InitIInv, NextIInv, IInvSuffices, PTL DEF Spec

(* All of it at once, for any number of threads that clone and drop.       *)
THEOREM CountedHolds == Spec => []Counted
  <1>1. IInv => Counted
    BY IInvSuffices DEF IInv, Counted
  <1> QED BY InitIInv, NextIInv, <1>1, PTL DEF Spec
=============================================================================

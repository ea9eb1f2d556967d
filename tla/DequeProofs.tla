----------------------------- MODULE DequeProofs -----------------------------
(***************************************************************************)
(* The links of a Deque agree after every operation, for any number of     *)
(* nodes.                                                                  *)
(*                                                                         *)
(* WellLinked is not inductive: nodes linked in a ring beside the list     *)
(* would satisfy it, and unlinking the last node of the list would leave   *)
(* them without a head.  The strengthening says that the linked nodes can  *)
(* be ranked so that the list is in the order of the ranks: next leads to  *)
(* the node of the next higher rank, the head has the lowest and the tail  *)
(* the highest.  Unlinking keeps the ranks, and a node that goes to the    *)
(* back gets a rank above that of the tail.                                *)
(***************************************************************************)
EXTENDS Deque, FiniteSetTheorems, TLAPS

(* The list is in the order of the ranks r.                                *)
Ranked(r) ==
    /\ \A m, n \in Linked : r[m] = r[n] => m = n
    /\ \A n \in Linked : next[n] # Null => r[n] < r[next[n]]
    /\ \A m, n \in Linked : next[n] # Null => r[m] <= r[n] \/ r[next[n]] <= r[m]
    /\ \A m \in Linked : r[head] <= r[m] /\ r[m] <= r[tail]

Pointers ==
    /\ next \in [Nodes -> Nodes \cup {Null}]
    /\ prev \in [Nodes -> Nodes \cup {Null}]
    /\ allocated \subseteq Nodes
    /\ head \in Nodes \cup {Null}
    /\ tail \in Nodes \cup {Null}

(* The inductive invariant, without len.                                   *)
Links == Pointers /\ WellLinked /\ \E r \in [Nodes -> Nat] : Ranked(r)

(* A new Deque is well linked.                                             *)
LEMMA InitLinks == Init => Links
<1> SUFFICES ASSUME Init PROVE Links
  OBVIOUS
<1>1. Linked = {}
  BY NodesAssumption DEF Init, Linked, contains, is_head
<1>2. [n \in Nodes |-> 0] \in [Nodes -> Nat] /\ Ranked([n \in Nodes |-> 0])
  BY <1>1 DEF Ranked
<1>3. WellLinked /\ Pointers
  BY <1>1, NodesAssumption DEF Init, WellLinked, Pointers
<1> QED
  BY <1>2, <1>3 DEF Links

(* No node is its own neighbour.                                           *)
LEMMA NoLoop ==
  ASSUME NEW n \in Nodes, Links
  PROVE  next[n] # n /\ prev[n] # n
<1> PICK r \in [Nodes -> Nat] : Ranked(r)
  BY DEF Links
<1>1. next[n] # n
  BY NodesAssumption DEF Links, WellLinked, Ranked
<1> QED
  BY <1>1, NodesAssumption DEF Links, WellLinked, Linked, contains

(* A cursor that leaves a node stays in the list.                          *)
LEMMA CursorLeaves ==
  ASSUME NEW n \in Nodes, Links, LeaveCursor(n)
  PROVE  cursor' \in (Linked \ {n}) \cup {Null, Done}
<1> USE NodesAssumption DEF Links, WellLinked
<1>1. CASE cursor = n
  <2>1. cursor' = IF next[n] # Null THEN next[n] ELSE Done
    BY <1>1 DEF LeaveCursor, is_at_cursor, advance_cursor
  <2> QED
    BY <1>1, <2>1, NoLoop
<1>2. CASE cursor # n
  BY <1>2 DEF LeaveCursor, is_at_cursor
<1> QED
  BY <1>1, <1>2

(* push_back links the node behind the tail.                               *)
LEMMA PushBackLinks ==
  ASSUME NEW n \in Nodes, Links, push_back(n)
  PROVE  Links' /\ Linked' = Linked \cup {n} /\ n \notin Linked
<1>1. WellLinked' /\ Linked' = Linked \cup {n} /\ n \notin Linked /\ Pointers'
  <2> USE NodesAssumption DEF Links, Pointers, WellLinked, Linked, contains, is_head, push_back
  <2>1. CASE tail = Null
    BY <2>1
  <2>2. CASE tail # Null
    BY <2>2
  <2> QED
    BY <2>1, <2>2
<1>2. \E r \in [Nodes -> Nat] : Ranked(r)'
  <2> PICK r \in [Nodes -> Nat] : Ranked(r)
    BY DEF Links
  <2>1. CASE tail = Null
    <3>1. Linked' = {n} /\ head' = n /\ tail' = n /\ next'[n] = Null
      BY <1>1, <2>1, NodesAssumption DEF Links, Pointers, WellLinked, push_back
    <3>2. Ranked(r)'
      BY <3>1 DEF Ranked
    <3> QED
      BY <3>2
  <2>2. CASE tail # Null
    <3>1. PICK c \in Nat : c = r[tail] + 1
      BY <2>2 DEF Links, Pointers
    <3> DEFINE s == [r EXCEPT ![n] = c]
    <3>2. s[n] = c /\ \A m \in Linked : m \in Nodes /\ s[m] = r[m] /\ r[m] < c /\ r[m] \in Nat
      <4>1. \A m \in Linked : m \in Nodes /\ m # n /\ r[m] \in Nat
        BY <1>1 DEF Linked
      <4>2. \A m \in Linked : r[m] <= r[tail]
        BY DEF Ranked
      <4>3. r[tail] \in Nat
        BY <2>2 DEF Links, Pointers
      <4>4. \A m \in Linked : r[m] < c
        BY <3>1, <4>1, <4>2, <4>3
      <4> QED
        BY <4>1, <4>4
    <3>3. /\ head' = head /\ tail' = n /\ next'[n] = Null /\ next'[tail] = n /\ tail \in Linked /\ head \in Linked
          /\ \A m \in Linked \ {tail} : next'[m] = next[m] /\ next[m] \in Linked
      BY <1>1, <2>2, NodesAssumption DEF Links, Pointers, WellLinked, Linked, contains, is_head, push_back
    <3>4. \A l, m \in Linked' : s[l] = s[m] => l = m
      BY <1>1, <3>2 DEF Ranked
    <3>5. \A m \in Linked' : next'[m] # Null => s[m] < s[next'[m]]
      BY <1>1, <3>2, <3>3, NodesAssumption DEF Ranked
    <3>6. \A l, m \in Linked' : next'[m] # Null => s[l] <= s[m] \/ s[next'[m]] <= s[l]
      BY <1>1, <3>1, <3>2, <3>3, NodesAssumption DEF Ranked
    <3>7. \A m \in Linked' : s[head'] <= s[m] /\ s[m] <= s[tail']
      BY <1>1, <3>2, <3>3 DEF Ranked
    <3>8. s \in [Nodes -> Nat] /\ Ranked(s)'
      BY <3>4, <3>5, <3>6, <3>7 DEF Ranked
    <3> QED
      BY Zenon, <3>8
  <2> QED
    BY <2>1, <2>2
<1> QED
  BY <1>1, <1>2 DEF Links

(* unlink joins the neighbours of the node; its own pointers become null.  *)
(* This holds whether or not the node is freed then.                       *)
LEMMA UnlinkLinks ==
  ASSUME NEW n \in Nodes, Links, contains(n), LeaveCursor(n), Unlink(n),
         allocated' = allocated \/ allocated' = allocated \ {n}
  PROVE  Links' /\ Linked' = Linked \ {n} /\ n \in Linked
<1>0. next[n] # n /\ prev[n] # n /\ n \in Linked
  BY NoLoop DEF Linked
<1> PICK r \in [Nodes -> Nat] : Ranked(r)
  BY DEF Links
<1>1. Pointers'
  BY DEF Links, Pointers, Unlink
<1>2. Linked' = Linked \ {n}
  <2> USE <1>0, NodesAssumption DEF Links, Pointers, WellLinked, Linked, contains, is_head, Unlink
  <2>1. CASE prev[n] = Null
    BY <2>1
  <2>2. CASE prev[n] # Null
    BY <2>2
  <2> QED
    BY <2>1, <2>2
<1>3. \A m \in Linked : r[m] \in Nat /\ m # Null
  BY NodesAssumption DEF Linked
<1>4. prev[n] = Null <=> n = head
  BY <1>0, NodesAssumption DEF Links, WellLinked, Linked, contains, is_head
<1>5. next[n] = Null <=> n = tail
  BY <1>0, NodesAssumption DEF Links, Pointers, WellLinked
<1>6. head' = Null <=> Linked' = {}
  <2>1. CASE n = head /\ n = tail
    <3>1. \A m \in Linked : r[n] <= r[m] /\ r[m] <= r[n]
      BY <2>1 DEF Ranked
    <3>2. \A m \in Linked : r[m] = r[n]
      BY <1>0, <1>3, <3>1
    <3>3. \A m \in Linked : m = n
      BY <1>0, <3>2 DEF Ranked
    <3> QED
      BY <1>2, <1>4, <1>5, <2>1, <3>3 DEF Unlink
  <2>2. CASE ~(n = head /\ n = tail)
    BY <1>0, <1>2, <1>4, <1>5, <2>2, NodesAssumption
       DEF Links, Pointers, WellLinked, Unlink, Linked, contains, is_head
  <2> QED
    BY <2>1, <2>2
<1>7. WellLinked'
  <2>1. cursor' \in (Linked \ {n}) \cup {Null, Done}
    BY CursorLeaves
  <2> USE <1>0, <1>1, <1>2, <1>6, <2>1, NodesAssumption DEF Links, Pointers, WellLinked, Unlink
  <2>2. CASE prev[n] = Null /\ next[n] = Null
    BY <2>2, <1>4, <1>5
  <2>3. CASE prev[n] = Null /\ next[n] # Null
    BY <2>3, <1>4
  <2>4. CASE prev[n] # Null /\ next[n] = Null
    BY <2>4, <1>5
  <2>5. CASE prev[n] # Null /\ next[n] # Null
    BY <2>5
  <2> QED
    BY <2>2, <2>3, <2>4, <2>5
<1>8. Ranked(r)'
  <2>1. \A l, m \in Linked' : r[l] = r[m] => l = m
    BY <1>2 DEF Ranked
  <2>2. ASSUME NEW m \in Linked', next'[m] # Null
        PROVE  /\ r[m] < r[next'[m]]
               /\ \A l \in Linked' : r[l] <= r[m] \/ r[next'[m]] <= r[l]
    <3>1. CASE next[m] # n
      BY <1>0, <1>2, <1>3, <2>2, <3>1, NodesAssumption DEF Links, Pointers, WellLinked, Unlink, Ranked
    <3>2. CASE next[m] = n
      <4>1. prev[n] = m /\ next'[m] = next[n] /\ next[n] \in Linked /\ m \in Linked
        BY <1>0, <1>2, <2>2, <3>2, NodesAssumption DEF Links, Pointers, WellLinked, Unlink
      <4>2. r[m] < r[n] /\ r[n] < r[next[n]]
        BY <1>0, <1>3, <3>2, <4>1 DEF Ranked
      <4>3. ASSUME NEW l \in Linked'
            PROVE  r[l] <= r[m] \/ r[next[n]] <= r[l]
        <5>1. l \in Linked /\ r[l] # r[n]
          BY <1>0, <1>2 DEF Ranked
        <5>2. r[l] <= r[m] \/ r[n] <= r[l]
          BY <1>0, <1>3, <3>2, <4>1, <5>1 DEF Ranked
        <5>3. r[l] <= r[n] \/ r[next[n]] <= r[l]
          BY <1>0, <1>3, <4>1, <5>1 DEF Ranked
        <5> QED
          BY <1>0, <1>3, <4>1, <5>1, <5>2, <5>3
      <4> QED
        BY <1>0, <1>3, <4>1, <4>2, <4>3
    <3> QED
      BY <3>1, <3>2
  <2>3. ASSUME NEW m \in Linked'
        PROVE  r[head'] <= r[m] /\ r[m] <= r[tail']
    <3>1. r[head'] <= r[m]
      <4>1. CASE n # head
        BY <1>2, <1>4, <4>1 DEF Ranked, Unlink
      <4>2. CASE n = head
        <5>1. m \in Linked /\ r[n] <= r[m] /\ r[m] # r[n]
          BY <1>0, <1>2, <4>2 DEF Ranked
        <5>2. next[n] # Null
          BY <1>0, <1>3, <1>5, <5>1 DEF Ranked
        <5>3. head' = next[n] /\ next[n] \in Linked
          BY <1>0, <1>4, <4>2, <5>2 DEF Unlink, Links, WellLinked
        <5>4. r[m] <= r[n] \/ r[next[n]] <= r[m]
          BY <1>0, <5>1, <5>2 DEF Ranked
        <5> QED
          BY <1>0, <1>3, <5>1, <5>3, <5>4
      <4> QED
        BY <4>1, <4>2
    <3>2. r[m] <= r[tail']
      <4>1. CASE n # tail
        BY <1>2, <1>5, <4>1 DEF Ranked, Unlink
      <4>2. CASE n = tail
        <5>1. m \in Linked /\ r[m] <= r[n] /\ r[m] # r[n]
          BY <1>0, <1>2, <4>2 DEF Ranked
        <5>2. prev[n] # Null
          BY <1>0, <1>3, <1>4, <5>1 DEF Ranked
        <5>3. tail' = prev[n] /\ prev[n] \in Linked /\ next[prev[n]] = n
          BY <1>0, <1>5, <4>2, <5>2 DEF Unlink, Links, WellLinked
        <5>4. r[m] <= r[prev[n]] \/ r[n] <= r[m]
          BY <1>0, <1>3, <5>1, <5>3 DEF Ranked
        <5> QED
          BY <1>0, <1>3, <5>1, <5>3, <5>4
      <4> QED
        BY <4>1, <4>2
    <3> QED
      BY <3>1, <3>2
  <2> QED
    BY <2>1, <2>2, <2>3 DEF Ranked
<1> QED
  BY <1>0, <1>1, <1>2, <1>7, <1>8 DEF Links

(* pop_front unlinks the head.                                             *)
LEMMA PopFrontLinks ==
  ASSUME Links, pop_front
  PROVE  Links' /\ Linked' = Linked \ {head} /\ head \in Linked
<1>1. head \in Nodes /\ contains(head) /\ prev[head] = Null
  BY DEF Links, Pointers, WellLinked, pop_front, contains, is_head
<1>2. Unlink(head)
  BY <1>1, NoLoop, NodesAssumption DEF Links, Pointers, Unlink, pop_front
<1> QED
  BY <1>1, <1>2, UnlinkLinks DEF pop_front

(* move_to_back links the node behind the tail, and its neighbours with    *)
(* each other.                                                             *)
LEMMA MoveToBackLinks ==
  ASSUME NEW n \in Nodes, Links, move_to_back(n)
  PROVE  Links' /\ Linked' = Linked
<1>1. CASE is_tail(n)
  BY <1>1 DEF move_to_back, vars, Links, Pointers, WellLinked, Linked, contains, is_head, Ranked
<1>2. CASE ~is_tail(n)
  <2>0. /\ next[n] # n /\ prev[n] # n /\ n \in Linked /\ n # tail /\ tail \in Linked /\ next[tail] = Null
        /\ next[n] # Null /\ next[n] \in Linked /\ prev[next[n]] = n
    BY <1>2, NoLoop, NodesAssumption DEF Links, Pointers, WellLinked, Linked, move_to_back, is_tail
  <2> PICK r \in [Nodes -> Nat] : Ranked(r)
    BY DEF Links
  <2>1. Pointers' /\ allocated' = allocated
    BY <1>2, <2>0 DEF Links, Pointers, Linked, move_to_back
  <2>2. Linked' = Linked
    <3> USE <2>0, NodesAssumption DEF Links, Pointers, WellLinked, Linked, contains, is_head, move_to_back
    <3>1. CASE prev[n] = Null
      BY <1>2, <3>1
    <3>2. CASE prev[n] # Null
      BY <1>2, <3>2
    <3> QED
      BY <3>1, <3>2
  <2>3. WellLinked'
    <3>1. cursor' \in (Linked \ {n}) \cup {Null, Done}
      BY <1>2, CursorLeaves DEF move_to_back
    <3> USE <2>0, <2>1, <2>2, <3>1, NodesAssumption DEF Links, Pointers, WellLinked, move_to_back
    <3>2. CASE prev[n] = Null
      BY <1>2, <3>2 DEF Linked, contains, is_head
    <3>3. CASE prev[n] # Null
      BY <1>2, <3>3 DEF Linked, contains, is_head
    <3> QED
      BY <3>2, <3>3
  <2>4. \E s \in [Nodes -> Nat] : Ranked(s)'
    <3>0. \A m \in Linked : m \in Nodes /\ m # Null /\ r[m] \in Nat
      BY NodesAssumption DEF Linked
    <3>1. PICK c \in Nat : c = r[tail] + 1
      BY <2>0, <3>0
    <3> DEFINE s == [r EXCEPT ![n] = c]
    <3>2. s[n] = c /\ \A m \in Linked \ {n} : s[m] = r[m] /\ r[m] < c /\ r[m] # r[n]
      <4>1. \A m \in Linked : r[m] <= r[tail] /\ (r[m] = r[n] => m = n)
        BY <2>0 DEF Ranked
      <4>2. \A m \in Linked : r[m] < c
        BY <2>0, <3>0, <3>1, <4>1
      <4> QED
        BY <3>0, <4>1, <4>2
    <3>3. /\ next'[n] = Null /\ next'[tail] = n /\ tail' = n
          /\ \A m \in Linked \ {n, tail} :
               IF next[m] = n THEN next'[m] = next[n] ELSE next'[m] = next[m] /\ next[m] \in Linked \ {n}
      <4>1. \A m \in Linked : next[m] = n <=> m = prev[n]
        BY <2>0, <3>0, NodesAssumption DEF Links, WellLinked
      <4>2. \A m \in Linked \ {tail} : next[m] \in Linked
        BY <3>0 DEF Links, WellLinked
      <4>3. CASE prev[n] = Null
        BY <1>2, <2>0, <3>0, <4>1, <4>2, <4>3 DEF move_to_back, Links, Pointers
      <4>4. CASE prev[n] # Null
        <5>1. prev[n] # tail /\ prev[n] \in Linked
          BY <2>0, <4>4, NodesAssumption DEF Links, WellLinked, Linked
        <5> QED
          BY <1>2, <2>0, <3>0, <4>1, <4>2, <4>4, <5>1 DEF move_to_back, Links, Pointers
      <4> QED
        BY <4>3, <4>4
    <3>4. \A l, m \in Linked : s[l] = s[m] => l = m
      BY <3>0, <3>1, <3>2 DEF Ranked
    <3>5. ASSUME NEW m \in Linked, next'[m] # Null
          PROVE  /\ s[m] < s[next'[m]]
                 /\ \A l \in Linked : s[l] <= s[m] \/ s[next'[m]] <= s[l]
      <4>1. m # n
        BY <3>3, <3>5
      <4>2. CASE m = tail
        <5>1. \A l \in Linked : r[l] <= r[tail]
          BY DEF Ranked
        <5> QED
          BY <2>0, <3>0, <3>1, <3>2, <3>3, <4>1, <4>2, <5>1
      <4>3. CASE m # tail /\ next[m] = n
        <5>1. next'[m] = next[n]
          BY <3>3, <4>1, <4>3
        <5>2. r[m] < r[n] /\ r[n] < r[next[n]]
          BY <2>0, <3>0, <4>3 DEF Ranked
        <5>3. ASSUME NEW l \in Linked \ {n} PROVE r[l] <= r[m] \/ r[next[n]] <= r[l]
          <6>1. r[l] <= r[m] \/ r[n] <= r[l]
            BY <2>0, <3>0, <4>3 DEF Ranked
          <6>2. r[l] <= r[n] \/ r[next[n]] <= r[l]
            BY <2>0 DEF Ranked
          <6> QED
            BY <2>0, <3>0, <3>2, <6>1, <6>2
        <5> QED
          BY <2>0, <3>0, <3>1, <3>2, <4>1, <5>1, <5>2, <5>3
      <4>4. CASE m # tail /\ next[m] # n
        <5>1. next'[m] = next[m] /\ next[m] \in Linked \ {n}
          BY <3>3, <4>1, <4>4
        <5>2. r[m] < r[next[m]] /\ \A l \in Linked : r[l] <= r[m] \/ r[next[m]] <= r[l]
          BY <3>0, <5>1 DEF Ranked
        <5> QED
          BY <3>0, <3>1, <3>2, <4>1, <5>1, <5>2
      <4> QED
        BY <4>2, <4>3, <4>4
    <3>6. ASSUME NEW m \in Linked
          PROVE  s[head'] <= s[m] /\ s[m] <= s[tail']
      <4>1. s[m] <= s[tail']
        BY <3>0, <3>1, <3>2, <3>3
      <4>2. CASE prev[n] # Null
        <5>1. head' = head /\ head # n /\ head \in Linked
          BY <1>2, <2>0, <4>2, NodesAssumption DEF move_to_back, Links, Pointers, WellLinked, Linked, contains, is_head
        <5>2. r[head] <= r[m] /\ r[head] <= r[n]
          BY <2>0 DEF Ranked
        <5> QED
          BY <2>0, <3>0, <3>1, <3>2, <4>1, <5>1, <5>2
      <4>3. CASE prev[n] = Null
        <5>1. head' = next[n] /\ head = n
          BY <1>2, <2>0, <4>3, NodesAssumption DEF move_to_back, Linked, contains, is_head
        <5>2. r[n] <= r[m] /\ (r[m] <= r[n] \/ r[next[n]] <= r[m])
          BY <2>0, <5>1 DEF Ranked
        <5> QED
          BY <2>0, <3>0, <3>1, <3>2, <4>1, <5>1, <5>2
      <4> QED
        BY <4>2, <4>3
    <3>7. s \in [Nodes -> Nat] /\ Ranked(s)'
      BY <2>2, <3>4, <3>5, <3>6 DEF Ranked
    <3> QED
      BY Zenon, <3>7
  <2> QED
    BY <2>1, <2>2, <2>3, <2>4 DEF Links
<1> QED
  BY <1>1, <1>2

(* An iteration keeps the cursor in the list, and reset_cursor clears it.  *)
LEMMA CursorLinks ==
  ASSUME Links, Iterate \/ reset_cursor
  PROVE  Links' /\ Linked' = Linked
<1>1. Linked' = Linked
  BY DEF Iterate, reset_cursor, Linked, contains, is_head
<1>2. cursor' \in Linked \cup {Null, Done}
  BY NodesAssumption DEF Iterate, reset_cursor, Started, Links, Pointers, WellLinked, Linked, contains, is_head
<1> QED
  BY <1>1, <1>2 DEF Iterate, reset_cursor, Links, Pointers, WellLinked, Ranked

(* Allocating a node, and freeing one that is not linked, touch no link.   *)
LEMMA HeapLinks ==
  ASSUME NEW n \in Nodes, Links, new(n) \/ drop(n)
  PROVE  Links' /\ Linked' = Linked
<1>1. Linked' = Linked
  BY DEF new, drop, Linked, contains, is_head
<1>2. Linked \subseteq allocated' /\ allocated' \subseteq Nodes
  BY DEF new, drop, Links, Pointers, WellLinked, Linked
<1> QED
  BY <1>1, <1>2 DEF new, drop, Links, Pointers, WellLinked, Ranked

(* The number of linked nodes, after a step that links or unlinks one.     *)
LEMMA LinkedCount ==
  ASSUME NEW n \in Nodes, len \in Nat, LenCounts
  PROVE  /\ n \notin Linked /\ Linked' = Linked \cup {n} /\ len' = len + 1 => len' \in Nat /\ LenCounts'
         /\ n \in Linked /\ Linked' = Linked \ {n} /\ len' = len - 1 => len' \in Nat /\ LenCounts'
<1>1. Linked \subseteq Nodes
  BY DEF Linked
<1>2. IsFiniteSet(Linked)
  BY <1>1, NodesAssumption, FS_Subset
<1>3. n \notin Linked => Cardinality(Linked \cup {n}) = Cardinality(Linked) + 1
  BY <1>2, FS_AddElement
<1>4. n \in Linked => Cardinality(Linked \ {n}) = Cardinality(Linked) - 1 /\ Cardinality(Linked) # 0
  BY <1>2, FS_RemoveElement, FS_EmptySet
<1>5. Cardinality(Linked) \in Nat /\ len = Cardinality(Linked)
  BY <1>2, FS_CardinalityType DEF LenCounts
<1>6. ASSUME n \notin Linked, Linked' = Linked \cup {n}, len' = len + 1
      PROVE  len' \in Nat /\ LenCounts'
  <2>1. Cardinality(Linked') = Cardinality(Linked) + 1
    BY <1>3, <1>6
  <2> QED
    BY <1>5, <1>6, <2>1 DEF LenCounts
<1>7. ASSUME n \in Linked, Linked' = Linked \ {n}, len' = len - 1
      PROVE  len' \in Nat /\ LenCounts'
  <2>1. Cardinality(Linked') = Cardinality(Linked) - 1
    BY <1>4, <1>7
  <2> QED
    BY <1>4, <1>5, <1>7, <2>1 DEF LenCounts
<1> QED
  BY <1>6, <1>7

IInv == Links /\ len \in Nat /\ LenCounts

(* Every step of Deque preserves the invariant.                            *)
LEMMA StepIInv == IInv /\ [Next]_vars => IInv'
<1> SUFFICES ASSUME IInv, [Next]_vars PROVE IInv'
  OBVIOUS
<1>1. ASSUME NEW n \in Nodes, push_back(n) PROVE IInv'
  BY Zenon, <1>1, PushBackLinks, LinkedCount DEF IInv, push_back
<1>2. ASSUME NEW n \in Nodes, unlink(n) PROVE IInv'
  BY <1>2, UnlinkLinks, LinkedCount DEF IInv, unlink, Unlink
<1>3. ASSUME NEW n \in Nodes, unlink_and_drop(n) PROVE IInv'
  BY <1>3, UnlinkLinks, LinkedCount DEF IInv, unlink_and_drop, Unlink
<1>4. CASE pop_front
  <2>1. Links' /\ Linked' = Linked \ {head} /\ head \in Linked
    BY <1>4, PopFrontLinks DEF IInv
  <2>2. head \in Nodes
    BY <2>1 DEF Linked
  <2> QED
    BY <1>4, <2>1, <2>2, LinkedCount DEF IInv, pop_front
<1>5. ASSUME NEW n \in Nodes, move_to_back(n) PROVE IInv'
  <2>1. Links' /\ Linked' = Linked
    BY <1>5, MoveToBackLinks DEF IInv
  <2>2. len' = len
    BY <1>5 DEF move_to_back, vars
  <2> QED
    BY <2>1, <2>2 DEF IInv, LenCounts
<1>6. CASE move_front_to_back
  <2>1. head \in Nodes
    BY <1>6 DEF move_front_to_back, IInv, Links, Pointers
  <2> QED
    BY <1>5, <1>6, <2>1 DEF move_front_to_back
<1>7. CASE Iterate \/ reset_cursor
  <2>1. Links' /\ Linked' = Linked /\ len' = len
    BY <1>7, CursorLinks DEF IInv, Iterate, reset_cursor
  <2> QED
    BY <2>1 DEF IInv, LenCounts
<1>8. ASSUME NEW n \in Nodes, new(n) \/ drop(n) PROVE IInv'
  <2>1. Links' /\ Linked' = Linked /\ len' = len
    BY <1>8, HeapLinks DEF IInv, new, drop
  <2> QED
    BY <2>1 DEF IInv, LenCounts
<1>9. CASE UNCHANGED vars
  BY <1>9 DEF vars, IInv, Links, Pointers, WellLinked, Ranked, LenCounts, Linked, contains, is_head
<1> QED
  BY <1>1, <1>2, <1>3, <1>4, <1>5, <1>6, <1>7, <1>8, <1>9 DEF Next

(* The pointers of a Deque agree, and lead to no node that was freed,      *)
(* after any sequence of operations on any number of nodes.                *)
THEOREM DequeWellLinked == Spec => []WellLinked
<1>1. Init => IInv
  <2> SUFFICES ASSUME Init PROVE IInv
    OBVIOUS
  <2>1. Linked = {} /\ len = 0
    BY NodesAssumption DEF Init, Linked, contains, is_head
  <2> QED
    BY <2>1, InitLinks, FS_EmptySet DEF IInv, LenCounts
<1>2. IInv => WellLinked
  BY DEF IInv, Links
<1> QED
  BY <1>1, <1>2, StepIInv, PTL DEF Spec

(* len is the number of nodes in the list: the counter is never wrong and  *)
(* len - 1 never wraps around.                                             *)
THEOREM DequeLenCounts == Spec => []LenCounts
<1>1. Init => IInv
  <2> SUFFICES ASSUME Init PROVE IInv
    OBVIOUS
  <2>1. Linked = {} /\ len = 0
    BY NodesAssumption DEF Init, Linked, contains, is_head
  <2> QED
    BY <2>1, InitLinks, FS_EmptySet DEF IInv, LenCounts
<1>2. IInv => LenCounts
  BY DEF IInv
<1> QED
  BY <1>1, <1>2, StepIInv, PTL DEF Spec

(* The list is valid after any sequence of calls: every pointer that a call *)
(* follows leads to a node on the heap, and len is the number of nodes, for *)
(* any number of nodes.                                                     *)
THEOREM DequeListValid == Spec => []ListValid
  <1>1. WellLinked /\ LenCounts => ListValid
    BY DEF ListValid
  <1> QED BY <1>1, DequeWellLinked, DequeLenCounts, PTL
=============================================================================

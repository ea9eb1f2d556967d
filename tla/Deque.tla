-------------------------------- MODULE Deque --------------------------------
(***************************************************************************)
(* The doubly linked list of common/deque.rs: nodes on the heap, raw       *)
(* pointers between them, and a cursor for iterations that go on later.    *)
(*                                                                         *)
(* Null stands for a pointer that is None.  The pointers of a node that is *)
(* not allocated are kept Null.                                            *)
(***************************************************************************)
EXTENDS Naturals, FiniteSets

CONSTANTS Nodes, Null, Done

ASSUME NodesAssumption == IsFiniteSet(Nodes) /\ Null \notin Nodes /\ Done \notin Nodes /\ Null # Done

VARIABLES
    next, prev,       \* the pointers of the nodes
    allocated,        \* the nodes that are on the heap
    head, tail, len,
    cursor            \* Null, Done or a node

vars == <<next, prev, allocated, head, tail, len, cursor>>

Init ==
    /\ next = [n \in Nodes |-> Null]
    /\ prev = [n \in Nodes |-> Null]
    /\ allocated = {}
    /\ head = Null
    /\ tail = Null
    /\ len = 0
    /\ cursor = Null

is_head(n) == head = n
is_tail(n) == tail = n
contains(n) == prev[n] # Null \/ is_head(n)
is_at_cursor(n) == cursor = n

advance_cursor ==
    IF cursor \in {Null, Done} THEN Null
    ELSE IF next[cursor] # Null THEN next[cursor] ELSE Done

(* The cursor does not stay at a node that leaves its place.               *)
LeaveCursor(n) == cursor' = IF is_at_cursor(n) THEN advance_cursor ELSE cursor

new(n) ==
    /\ n \notin allocated
    /\ allocated' = allocated \cup {n}
    /\ UNCHANGED <<next, prev, head, tail, len, cursor>>

push_back(n) ==
    /\ n \in allocated
    /\ ~contains(n)
    /\ prev' = [prev EXCEPT ![n] = tail]
    /\ IF tail = Null THEN head' = n /\ next' = [next EXCEPT ![n] = Null]
                      ELSE next' = [next EXCEPT ![n] = Null, ![tail] = n] /\ UNCHANGED head
    /\ tail' = n
    /\ len' = len + 1
    /\ UNCHANGED <<allocated, cursor>>

(* The box of the node is dropped by the caller.                           *)
pop_front ==
    /\ head # Null
    /\ LeaveCursor(head)
    /\ head' = next[head]
    /\ next' = [next EXCEPT ![head] = Null]
    /\ IF next[head] = Null THEN tail' = Null /\ prev' = [prev EXCEPT ![head] = Null]
                            ELSE prev' = [prev EXCEPT ![head] = Null, ![next[head]] = Null] /\ UNCHANGED tail
    /\ len' = len - 1
    /\ allocated' = allocated \ {head}

move_to_back_stale(n) ==
    /\ contains(n)
    /\ IF is_tail(n) THEN UNCHANGED vars
       ELSE /\ LeaveCursor(n)
            /\ IF prev[n] = Null
               THEN /\ head' = next[n]
                    /\ next' = [next EXCEPT ![n] = Null, ![tail] = n]
               ELSE /\ next' = [next EXCEPT ![prev[n]] = next[n], ![n] = Null, ![tail] = n]
                    /\ UNCHANGED head
            /\ prev' = [prev EXCEPT ![n] = tail]
            /\ tail' = n
            /\ UNCHANGED <<allocated, len>>

move_to_back_staying(n) ==
    /\ contains(n)
    /\ IF is_tail(n) THEN UNCHANGED vars
       ELSE /\ UNCHANGED cursor
            /\ IF prev[n] = Null
               THEN /\ head' = next[n]
                    /\ next' = [next EXCEPT ![n] = Null, ![tail] = n]
               ELSE /\ next' = [next EXCEPT ![prev[n]] = next[n], ![n] = Null, ![tail] = n]
                    /\ UNCHANGED head
            /\ prev' = [prev EXCEPT ![next[n]] = prev[n], ![n] = tail]
            /\ tail' = n
            /\ UNCHANGED <<allocated, len>>

(* move_to_back of a node that is in the list.                             *)
move_to_back(n) ==
    /\ contains(n)
    /\ IF is_tail(n) THEN UNCHANGED vars
       ELSE /\ LeaveCursor(n)
            /\ IF prev[n] = Null
               THEN /\ head' = next[n]
                    /\ next' = [next EXCEPT ![n] = Null, ![tail] = n]
               ELSE /\ next' = [next EXCEPT ![prev[n]] = next[n], ![n] = Null, ![tail] = n]
                    /\ UNCHANGED head
            /\ prev' = [prev EXCEPT ![next[n]] = prev[n], ![n] = tail]
            /\ tail' = n
            /\ UNCHANGED <<allocated, len>>

move_front_to_back == head # Null /\ move_to_back(head)

(* The rest of unlink, with and without the node being dropped.            *)
Unlink(n) ==
    /\ IF prev[n] = Null THEN head' = next[n] /\ next' = [next EXCEPT ![n] = Null]
                         ELSE next' = [next EXCEPT ![prev[n]] = next[n], ![n] = Null] /\ UNCHANGED head
    /\ IF next[n] = Null THEN tail' = prev[n] /\ prev' = [prev EXCEPT ![n] = Null]
                         ELSE prev' = [prev EXCEPT ![next[n]] = prev[n], ![n] = Null] /\ UNCHANGED tail
    /\ len' = len - 1

unlink(n) ==
    /\ contains(n)
    /\ LeaveCursor(n)
    /\ Unlink(n)
    /\ UNCHANGED allocated

unlink_and_drop(n) ==
    /\ contains(n)
    /\ LeaveCursor(n)
    /\ Unlink(n)
    /\ allocated' = allocated \ {n}

(* Iterator::next of &mut Deque: from the cursor, or from the head.        *)
Started == IF cursor = Null THEN head ELSE cursor

Iterate ==
    /\ cursor' = IF Started \in {Null, Done} THEN Null
                 ELSE IF next[Started] # Null THEN next[Started] ELSE Done
    /\ UNCHANGED <<next, prev, allocated, head, tail, len>>

reset_cursor ==
    /\ cursor' = Null
    /\ UNCHANGED <<next, prev, allocated, head, tail, len>>

(* Box::from_raw of a node that was unlinked and is not used again.        *)
drop(n) ==
    /\ n \in allocated
    /\ ~contains(n)
    /\ allocated' = allocated \ {n}
    /\ UNCHANGED <<next, prev, head, tail, len, cursor>>

Next ==
    \/ pop_front \/ move_front_to_back \/ Iterate \/ reset_cursor
    \/ \E n \in Nodes :
         new(n) \/ push_back(n) \/ move_to_back(n) \/ unlink(n) \/ unlink_and_drop(n) \/ drop(n)

Spec == Init /\ [][Next]_vars
-----------------------------------------------------------------------------
(* The nodes in the list, by what contains says.                           *)
Linked == {n \in Nodes : contains(n)}

(* Pointers and their inverses agree, the ends are the only nodes without  *)
(* a neighbour on that side, and the cursor is at a node of the list.  So  *)
(* no pointer that is followed leads to a node that was freed.             *)
WellLinked ==
    /\ Linked \subseteq allocated
    /\ head = Null <=> tail = Null
    /\ head = Null => Linked = {}
    /\ head # Null => prev[head] = Null
    /\ tail # Null => tail \in Linked /\ next[tail] = Null
    /\ \A n \in Linked :
         /\ next[n] = Null => n = tail
         /\ next[n] # Null => next[n] \in Linked /\ prev[next[n]] = n
         /\ prev[n] # Null => prev[n] \in Linked /\ next[prev[n]] = n
    /\ \A n \in Nodes \ Linked : next[n] = Null
    /\ cursor \in Linked \cup {Null, Done}

(* len is the number of nodes in the list.                                 *)
LenCounts == len = Cardinality(Linked)

(* No call leaves a pointer to a freed node, breaks the chain or loses     *)
(* count of its nodes.                                                     *)
ListValid == WellLinked /\ LenCounts
=============================================================================

------------------------------ MODULE DequeList ------------------------------
(***************************************************************************)
(* What Deque promises: a sequence without repetitions, in which a node    *)
(* may be removed or moved to the back wherever it is, and an iteration    *)
(* that is at a node of the sequence.                                      *)
(***************************************************************************)
EXTENDS Naturals, Sequences, SequencesExt

CONSTANTS Nodes, Null, Done

VARIABLES seq, at

Init == seq = <<>> /\ at = Null

(* The node after n, or the end.                                           *)
After(n) ==
    LET i == CHOOSE i \in DOMAIN seq : seq[i] = n IN
    IF i < Len(seq) THEN seq[i + 1] ELSE Done

Skip(n) == at' = IF at = n THEN After(n) ELSE at

Push(n) == n \notin Range(seq) /\ seq' = Append(seq, n) /\ UNCHANGED at
Remove1(n) == n \in Range(seq) /\ seq' = SelectSeq(seq, LAMBDA e : e # n) /\ Skip(n)
MoveToBack(n) ==
    /\ n \in Range(seq)
    /\ n # Last(seq)
    /\ seq' = Append(SelectSeq(seq, LAMBDA e : e # n), n)
    /\ Skip(n)

(* An iteration gives the nodes one after the other, then the end, and     *)
(* then starts over.                                                       *)
Visit ==
    /\ at' = IF at = Done THEN Null
             ELSE IF at # Null THEN After(at)
             ELSE IF seq # <<>> THEN After(Head(seq)) ELSE Null
    /\ UNCHANGED seq
Reset == at' = Null /\ UNCHANGED seq

Next == Visit \/ Reset \/ \E n \in Nodes : Push(n) \/ Remove1(n) \/ MoveToBack(n)

Spec == Init /\ [][Next]_<<seq, at>>
=============================================================================

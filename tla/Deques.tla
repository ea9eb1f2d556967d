------------------------------- MODULE Deques -------------------------------
(***************************************************************************)
(* The node pointers of the entries: common/concurrent/deques.rs over the  *)
(* DeqNodes that all versions of an entry share, and the maintenance steps *)
(* that use them while other threads insert, replace and remove entries.   *)
(*                                                                         *)
(* A deque is the sequence that Deque implements.  The deques, the         *)
(* pointers and the heap are one record, d, so that an operation is a      *)
(* function from d to d.  Operations wait in a channel; each may be of a   *)
(* thread of its own, so that they arrive in any order.                    *)
(***************************************************************************)
EXTENDS Naturals, Sequences, SequencesExt

CONSTANTS Keys, Infos, Nodes, None,
          MaxGen           \* bound of entry_gen

Regions == {"Window", "MainProbation", "MainProtected"}

VARIABLES
    cht,        \* the EntryInfo of the key's current ValueEntry, or None
    info,       \* the EntryInfos, [key, admitted, retired, entry_gen, policy_gen]
    d,          \* the deques, [ao, wo, elem, ao_node, wo_node, ...]
    writes,     \* the WriteOps on their way
    reads       \* the entries of the ReadOps on their way

vars == <<cht, info, d, writes, reads>>

(* DeqNodes::default.                                                      *)
NoNodes == [i \in Infos |-> None]

Init ==
    /\ cht = [k \in Keys |-> None]
    /\ info = [i \in Infos |-> None]
    /\ d \in [ao : {[r \in Regions |-> <<>>]}, wo : {<<>>}, elem : {[n \in Nodes |-> None]},
             ao_node : {NoNodes}, wo_node : {NoNodes},
             wo_enabled : BOOLEAN, panicked : {FALSE}]
    /\ writes = {}
    /\ reads = {}

is_alive(i) == ~info[i].retired
is_dirty(i) == info[i].entry_gen # info[i].policy_gen
-----------------------------------------------------------------------------
FreeNodes(e) == {n \in Nodes : e.elem[n] = None}
Panic(e) == [e EXCEPT !.panicked = TRUE]
ToBack(s, n) == Append(SelectSeq(s, LAMBDA m : m # n), n)
Without(s, n) == SelectSeq(s, LAMBDA m : m # n)

push_back_ao(e, region, i, n) ==
    [e EXCEPT !.ao[region] = Append(@, n), !.elem[n] = i, !.ao_node[i] = [node |-> n, tag |-> region]]

push_back_wo(e, i, n) ==
    [e EXCEPT !.wo = Append(@, n), !.elem[n] = i, !.wo_node[i] = n]

(* The node is looked for in the deque of its tag, and must be there.      *)
move_to_back_ao(e, i) ==
    LET p == e.ao_node[i] IN
    IF p = None THEN e
    ELSE IF Contains(e.ao[p.tag], p.node) THEN [e EXCEPT !.ao[p.tag] = ToBack(@, p.node)]
    ELSE Panic(e)

move_to_back_ao_in_deque(e, region, i) ==
    LET p == e.ao_node[i] IN
    IF p = None THEN e
    ELSE IF p.tag # region THEN Panic(e)
    ELSE IF Contains(e.ao[region], p.node) THEN [e EXCEPT !.ao[region] = ToBack(@, p.node)]
    ELSE e

move_to_back_wo(e, i) ==
    IF e.wo_node[i] # None /\ Contains(e.wo, e.wo_node[i]) THEN [e EXCEPT !.wo = ToBack(@, e.wo_node[i])] ELSE e

unlink_node_ao_from_deque(e, region, p) ==
    IF p.tag # region THEN Panic(e)
    ELSE IF Contains(e.ao[region], p.node) THEN [e EXCEPT !.ao[region] = Without(@, p.node), !.elem[p.node] = None]
    ELSE e

(* take_access_order_q_node, and then the node.                            *)
unlink_ao_from_deque(e, region, i) ==
    IF e.ao_node[i] = None THEN e
    ELSE unlink_node_ao_from_deque([e EXCEPT !.ao_node[i] = None], region, e.ao_node[i])

unlink_node_ao(e, p) == unlink_node_ao_from_deque(e, p.tag, p)

unlink_ao(e, i) ==
    IF e.ao_node[i] = None THEN e ELSE unlink_node_ao([e EXCEPT !.ao_node[i] = None], e.ao_node[i])

unlink_node_wo(e, n) ==
    IF Contains(e.wo, n) THEN [e EXCEPT !.wo = Without(@, n), !.elem[n] = None] ELSE e

unlink_wo(e, i) ==
    IF e.wo_node[i] = None THEN e ELSE unlink_node_wo([e EXCEPT !.wo_node[i] = None], e.wo_node[i])

unset_q_nodes(e, i) == [e EXCEPT !.ao_node[i] = None, !.wo_node[i] = None]

move_front_to_back(s) == IF s = <<>> THEN s ELSE ToBack(s, Head(s))
-----------------------------------------------------------------------------
(* The other threads.  An insert of a new key makes an EntryInfo and       *)
(* DeqNodes, a replacement keeps both.                                     *)
do_insert_with_hash(k) ==
    \/ LET i == CHOOSE i \in Infos : info[i] = None IN
         /\ cht[k] = None
         /\ \E j \in Infos : info[j] = None
         /\ info' = [info EXCEPT ![i] = [key |-> k, admitted |-> FALSE, retired |-> FALSE, entry_gen |-> 1, policy_gen |-> 0]]
         /\ cht' = [cht EXCEPT ![k] = i]
         /\ writes' = writes \cup {[op |-> "Upsert", info |-> i, gen |-> 1]}
         /\ UNCHANGED <<d, reads>>
    \/ /\ cht[k] # None
       /\ info[cht[k]].entry_gen < MaxGen
       /\ info' = [info EXCEPT ![cht[k]].entry_gen = @ + 1]
       /\ writes' = writes \cup {[op |-> "Upsert", info |-> cht[k], gen |-> info[cht[k]].entry_gen + 1]}
       /\ UNCHANGED <<cht, d, reads>>

(* invalidate: the entry is retired with the CAS.                          *)
invalidate_with_hash(k) ==
    /\ cht[k] # None
    /\ info[cht[k]].entry_gen < MaxGen
    /\ cht' = [cht EXCEPT ![k] = None]
    /\ info' = [info EXCEPT ![cht[k]].retired = TRUE, ![cht[k]].entry_gen = @ + 1]
    /\ writes' = writes \cup {[op |-> "Remove", info |-> cht[k], gen |-> info[cht[k]].entry_gen + 1]}
    /\ UNCHANGED <<d, reads>>

record_read_op(k) ==
    /\ cht[k] # None
    /\ reads' = reads \cup {cht[k]}
    /\ UNCHANGED <<cht, info, d, writes>>
-----------------------------------------------------------------------------
(* The maintenance steps.                                                  *)
set_policy_gen(r, g) == IF r.policy_gen >= g THEN r ELSE [r EXCEPT !.policy_gen = g]

apply_reads(i) ==
    /\ i \in reads
    /\ reads' = reads \ {i}
    /\ d' = IF is_alive(i) THEN move_to_back_ao(d, i) ELSE d
    /\ UNCHANGED <<cht, info, writes>>

handle_admit(i, region, gen) ==
    /\ \E n \in FreeNodes(d) :
         IF d.wo_enabled THEN \E m \in FreeNodes(d) \ {n} : d' = push_back_wo(push_back_ao(d, region, i, n), i, m)
         ELSE d' = push_back_ao(d, region, i, n)
    /\ info' = [info EXCEPT ![i] = [set_policy_gen(@, gen) EXCEPT !.admitted = TRUE]]

(* An entry that is admitted is moved, one that fits is admitted, and one  *)
(* that does not is removed if it still is what it was when the operation  *)
(* was made.                                                               *)
ApplyUpsert(i, gen) ==
    \/ /\ info[i].admitted
       /\ d' = move_to_back_wo(move_to_back_ao(d, i), i)
       /\ info' = [info EXCEPT ![i] = set_policy_gen(@, gen)]
       /\ UNCHANGED cht
    \/ /\ ~info[i].admitted
       /\ handle_admit(i, "MainProbation", gen)
       /\ UNCHANGED cht
    \/ /\ ~info[i].admitted
       /\ cht[info[i].key] = i
       /\ info[i].entry_gen = gen
       /\ cht' = [cht EXCEPT ![info[i].key] = None]
       /\ info' = [info EXCEPT ![i] = [set_policy_gen(@, gen) EXCEPT !.retired = TRUE]]
       /\ UNCHANGED d
    \/ /\ ~info[i].admitted
       /\ ~(cht[info[i].key] = i /\ info[i].entry_gen = gen)
       /\ info' \in {info, [info EXCEPT ![i] = set_policy_gen(@, gen)]}
       /\ UNCHANGED <<cht, d>>

handle_upsert_retired(op) ==
    /\ op.op = "Upsert"
    /\ writes' = writes \ {op}
    /\ ApplyUpsert(op.info, op.gen)
    /\ UNCHANGED reads

(* The Upsert of an entry that was retired meanwhile is only noted.        *)
handle_upsert(op) ==
    /\ op.op = "Upsert"
    /\ writes' = writes \ {op}
    /\ IF is_alive(op.info) THEN ApplyUpsert(op.info, op.gen)
       ELSE /\ info' = [info EXCEPT ![op.info] = set_policy_gen(@, op.gen)]
            /\ UNCHANGED <<cht, d>>
    /\ UNCHANGED reads

(* The two handle_remove_* differ in how they name the deque.              *)
handle_remove_without_timer_wheel(i) ==
    IF info[i].admitted THEN unlink_wo(unlink_ao(d, i), i) ELSE unset_q_nodes(d, i)

handle_remove_with_deques(i, region) ==
    IF info[i].admitted THEN unlink_wo(unlink_ao_from_deque(d, region, i), i) ELSE unset_q_nodes(d, i)

handle_remove(op) ==
    /\ op.op = "Remove"
    /\ writes' = writes \ {op}
    /\ d' = handle_remove_without_timer_wheel(op.info)
    /\ info' = [info EXCEPT ![op.info] = [set_policy_gen(@, op.gen) EXCEPT !.admitted = FALSE]]
    /\ UNCHANGED <<cht, reads>>

(* The entry of the key is removed from the map by a scan, whether it is   *)
(* the one the scan found in the deque or a later one.                     *)
RemoveIf(i) ==
    /\ cht' = [cht EXCEPT ![info[i].key] = None]
    /\ info' = [info EXCEPT ![i].retired = TRUE, ![i].admitted = FALSE]

skip_updated_entry_ao(region, k) ==
    IF cht[k] = None THEN [d EXCEPT !.ao[region] = move_front_to_back(@)]
    ELSE LET e == move_to_back_ao_in_deque(d, region, cht[k]) IN
         IF is_dirty(cht[k]) THEN move_to_back_wo(e, cht[k]) ELSE e

skip_updated_entry_wo(k) ==
    IF cht[k] = None THEN [d EXCEPT !.wo = move_front_to_back(@)]
    ELSE move_to_back_wo(move_to_back_ao(d, cht[k]), cht[k])

(* One turn of remove_expired_ao or evict_lru_entries: the entry in front  *)
(* is skipped if it is dirty, and if the map's entry has not the age of    *)
(* the one in the deque.                                                   *)
EvictAo(region) ==
    /\ d.ao[region] # <<>>
    /\ LET i == d.elem[Head(d.ao[region])]
           k == info[i].key
       IN \/ /\ ~is_dirty(i)
             /\ cht[k] # None
             /\ d' = handle_remove_with_deques(cht[k], region)
             /\ RemoveIf(cht[k])
          \/ /\ d' = skip_updated_entry_ao(region, k)
             /\ UNCHANGED <<cht, info>>
    /\ UNCHANGED <<writes, reads>>

(* One turn of remove_expired_wo.                                          *)
EvictWo ==
    /\ d.wo # <<>>
    /\ LET i == d.elem[Head(d.wo)]
           k == info[i].key
       IN \/ /\ ~is_dirty(i)
             /\ cht[k] # None
             /\ d' = handle_remove_without_timer_wheel(cht[k])
             /\ RemoveIf(cht[k])
          \/ /\ d' = skip_updated_entry_wo(k)
             /\ UNCHANGED <<cht, info>>
    /\ UNCHANGED <<writes, reads>>

(* A victim of admit is removed, or skipped if it has been read meanwhile. *)
RemoveVictim(k) ==
    /\ \/ /\ cht[k] # None
          /\ d' = handle_remove_without_timer_wheel(cht[k])
          /\ RemoveIf(cht[k])
       \/ /\ d.ao["MainProbation"] # <<>>
          /\ info[d.elem[Head(d.ao["MainProbation"])]].key = k
          /\ d' = [d EXCEPT !.ao["MainProbation"] = move_front_to_back(@)]
          /\ UNCHANGED <<cht, info>>
    /\ UNCHANGED <<writes, reads>>

Next ==
    \/ \E k \in Keys : do_insert_with_hash(k) \/ invalidate_with_hash(k) \/ record_read_op(k) \/ RemoveVictim(k)
    \/ \E i \in Infos : apply_reads(i)
    \/ \E op \in writes : handle_upsert(op) \/ handle_remove(op)
    \/ EvictAo("MainProbation")
    \/ EvictWo

Spec == Init /\ [][Next]_vars
-----------------------------------------------------------------------------
(* Every pointer an entry holds leads to a node that is not freed, is in   *)
(* the deque the tag names and is of this entry.  So move_to_back and      *)
(* unlink never touch freed memory.                                        *)
NoDanglingNode ==
    \A i \in Infos :
      /\ d.ao_node[i] # None =>
           /\ d.elem[d.ao_node[i].node] = i
           /\ Contains(d.ao[d.ao_node[i].tag], d.ao_node[i].node)
      /\ d.wo_node[i] # None => d.elem[d.wo_node[i]] = i /\ Contains(d.wo, d.wo_node[i])

(* Every node is in one deque and is pointed to by its entry, so that it   *)
(* can be found again: no node leaks, none stays in a deque for ever.      *)
NoLostNode ==
    \A n \in Nodes : d.elem[n] # None =>
      \/ /\ d.wo_node[d.elem[n]] = n
         /\ Contains(d.wo, n)
      \/ /\ d.ao_node[d.elem[n]] # None
         /\ d.ao_node[d.elem[n]].node = n
         /\ Contains(d.ao[d.ao_node[d.elem[n]].tag], n)

(* An entry that was retired and still has nodes in the deques has its     *)
(* Remove on the way ("A *permanent* orphan cannot form here").            *)
OrphansAreRemoved ==
    \A n \in Nodes : d.elem[n] # None =>
      LET i == d.elem[n] IN
      \/ cht[info[i].key] = i
      \/ \E op \in writes : op.op = "Remove" /\ op.info = i

(* No unreachable! and no assert_eq! of Deques is reached.                 *)
NoPanic == ~d.panicked
=============================================================================

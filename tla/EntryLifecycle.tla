--------------------------- MODULE EntryLifecycle ---------------------------
(***************************************************************************)
(* What moka promises about the life of an EntryInfo, without saying how   *)
(* the hash table and the policies are kept in step: an entry enters the   *)
(* hash table once, is unlinked once, and the policies, which may learn of *)
(* it late or never, forget it once, after which they never see it again.  *)
(* (common/concurrent/entry_info.rs, the documentation of is_retired.)     *)
(***************************************************************************)
CONSTANTS Keys, Infos       \* an info is a pair whose first component is its key

VARIABLES
    stage,                  \* info -> "free", "linked", "leaving" or "gone"
    tracked                 \* the infos the policies hold a node and a count for

lifecycleVars == <<stage, tracked>>

Init ==
    /\ stage = [i \in Infos |-> "free"]
    /\ tracked = {}

(* An entry goes from one stage to another.  The second conjunct follows    *)
(* from the third: with it TLC soon rejects a step of another entry.       *)
Moves(i, from, to) ==
    /\ stage[i] = from
    /\ stage'[i] = to
    /\ stage' = [stage EXCEPT ![i] = to]

(* The entry enters the hash table: no other entry of its key is there.     *)
Link(i) ==
    /\ Moves(i, "free", "linked")
    /\ \A j \in Infos : j[1] = i[1] => stage[j] # "linked"
    /\ UNCHANGED tracked

(* The policies may learn of an entry until its removal reaches them.       *)
Track(i) ==
    /\ stage[i] \in {"linked", "leaving"}
    /\ tracked' = tracked \cup {i}
    /\ UNCHANGED stage

Unlink(i) ==
    /\ Moves(i, "linked", "leaving")
    /\ UNCHANGED tracked

(* The removal reaches the policies. *)
Forget(i) ==
    /\ Moves(i, "leaving", "gone")
    /\ tracked' = tracked \ {i}

(* A candidate the policies decline leaves without ever being tracked.      *)
Decline(i) ==
    /\ Moves(i, "linked", "gone")
    /\ i \notin tracked
    /\ UNCHANGED tracked

Next ==
    \E i \in Infos : Link(i) \/ Track(i) \/ Unlink(i) \/ Forget(i) \/ Decline(i)

Spec == Init /\ [][Next]_lifecycleVars

=============================================================================

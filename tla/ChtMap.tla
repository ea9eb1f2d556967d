------------------------------- MODULE ChtMap -------------------------------
(***************************************************************************)
(* What the concurrent hash table promises: a map on which every operation *)
(* takes place at one instant between its call and its return.             *)
(***************************************************************************)
CONSTANTS Threads, Keys, None

VARIABLES
    map,     \* the values
    call,    \* the operation a thread is in
    done     \* whether it has taken place

Init ==
    /\ DOMAIN map = Keys
    /\ call = [t \in Threads |-> None]
    /\ done = [t \in Threads |-> None]

Others(t, f, g) == \A u \in Threads \ {t} : f[u] = g[u]

Call(t) ==
    /\ call[t] = None
    /\ call'[t] # None
    /\ done'[t] = None
    /\ UNCHANGED map

(* An operation takes place, with the value it returns.  remove_if may     *)
(* have a condition that is false.                                         *)
Do(t) == LET c == call[t]
             old == map[c.key]
             new == map'[c.key]
         IN
    /\ done[t] = None
    /\ done'[t] # None
    /\ call[t] # None
    /\ call'[t] = c
    /\ \/ c.op = "get" /\ new = old /\ done'[t].res = old
       \/ c.op = "insert_if_not_present" /\ (IF old = None THEN new # None ELSE new = old) /\ done'[t].res = old
       \/ c.op = "insert" /\ new \notin {old, None} /\ done'[t].res = old
       \/ c.op = "remove_if" /\ old # None /\ new = None /\ done'[t].res = old
       \/ c.op = "remove_if" /\ new = old /\ done'[t].res = None
    /\ \A k \in Keys \ {c.key} : map'[k] = map[k]

Return(t) ==
    /\ done[t] # None
    /\ done'[t] = None
    /\ call'[t] = None
    /\ UNCHANGED map

Next == \E t \in Threads :
    /\ Call(t) \/ Do(t) \/ Return(t)
    /\ Others(t, call, call')
    /\ Others(t, done, done')

mapvars == <<map, call, done>>

Spec == Init /\ [][Next]_mapvars
=============================================================================

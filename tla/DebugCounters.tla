---------------------------- MODULE DebugCounters ----------------------------
(***************************************************************************)
(* The global counters of common/concurrent/debug_counters.rs (feature     *)
(* unstable-debug-counters), the constructors and destructors that count,  *)
(* and GlobalDebugCounters::current, which loads the fields one after      *)
(* another while other threads count.                                      *)
(***************************************************************************)
EXTENDS Naturals, Sequences, FiniteSets, FiniteSetsExt

CONSTANTS
    Threads, None,
    Objects,          \* objects a thread may allocate, each at most once
    ClassOf,          \* object -> its class
    SizeOf            \* object -> bytes of a bucket array, 0 for the others

(* The counters of a class, in the order in which current loads them.      *)
Classes == {"bucket_array", "bucket", "value_entry", "entry_info", "deq_node"}
Fields == << <<"bucket_array", "creation_count">>, <<"bucket_array", "allocation_bytes">>,
             <<"bucket_array", "drop_count">>, <<"bucket_array", "release_bytes">>,
             <<"bucket", "creation_count">>, <<"bucket", "drop_count">>,
             <<"value_entry", "creation_count">>, <<"value_entry", "drop_count">>,
             <<"entry_info", "creation_count">>, <<"entry_info", "drop_count">>,
             <<"deq_node", "creation_count">>, <<"deq_node", "drop_count">> >>

VARIABLES
    COUNTERS,         \* field -> u64
    made, gone,       \* objects that were counted as created, as dropped
    owes,             \* thread -> the array whose bytes it has yet to count, or None
    pos,              \* the next field that current loads, or 0
    snap,             \* what it has loaded
    seen              \* ghost: live objects of the class when its creations were loaded

vars == <<COUNTERS, made, gone, owes, pos, snap, seen>>
objVars == <<made, gone, owes>>
snapVars == <<pos, snap, seen>>

FieldSet == {Fields[i] : i \in DOMAIN Fields}
Zero == [f \in FieldSet |-> 0]

Init ==
    /\ COUNTERS = Zero
    /\ made = {}
    /\ gone = {}
    /\ owes = [t \in Threads |-> None]
    /\ pos = 0
    /\ snap = Zero
    /\ seen = [c \in Classes |-> 0]

fetch_add(f, n) == COUNTERS' = [COUNTERS EXCEPT ![f] = @ + n]
Of(c, os) == {o \in os : ClassOf[o] = c}
-----------------------------------------------------------------------------
(* The constructor of an object counts it.  A bucket array is counted      *)
(* first and its bytes after that.                                         *)
bucket_array_created(t, o) ==
    /\ ClassOf[o] = "bucket_array"
    /\ fetch_add(<<"bucket_array", "creation_count">>, 1)
    /\ owes' = [owes EXCEPT ![t] = [field |-> "allocation_bytes", of |-> o]]

Created(c, o) ==
    /\ ClassOf[o] = c
    /\ fetch_add(<<c, "creation_count">>, 1)
    /\ UNCHANGED owes

bucket_created(o) == Created("bucket", o)
value_entry_created(o) == Created("value_entry", o)
entry_info_created(o) == Created("entry_info", o)
deq_node_created(o) == Created("deq_node", o)

new(t, o) ==
    /\ owes[t] = None
    /\ o \notin made
    /\ \/ bucket_array_created(t, o)
       \/ bucket_created(o)
       \/ value_entry_created(o)
       \/ entry_info_created(o)
       \/ deq_node_created(o)
    /\ made' = made \cup {o}
    /\ UNCHANGED <<gone, snapVars>>

bucket_array_dropped(t, o) ==
    /\ ClassOf[o] = "bucket_array"
    /\ fetch_add(<<"bucket_array", "drop_count">>, 1)
    /\ owes' = [owes EXCEPT ![t] = [field |-> "release_bytes", of |-> o]]

Dropped(c, o) ==
    /\ ClassOf[o] = c
    /\ fetch_add(<<c, "drop_count">>, 1)
    /\ UNCHANGED owes

bucket_dropped(o) == Dropped("bucket", o)
value_entry_dropped(o) == Dropped("value_entry", o)
entry_info_dropped(o) == Dropped("entry_info", o)
deq_node_dropped(o) == Dropped("deq_node", o)

(* The destructor, of an object no thread is still constructing.           *)
drop(t, o) ==
    /\ owes[t] = None
    /\ o \in made \ gone
    /\ \A u \in Threads : owes[u] # None => owes[u].of # o
    /\ \/ bucket_array_dropped(t, o)
       \/ bucket_dropped(o)
       \/ value_entry_dropped(o)
       \/ entry_info_dropped(o)
       \/ deq_node_dropped(o)
    /\ gone' = gone \cup {o}
    /\ UNCHANGED <<made, snapVars>>

(* The second fetch_add of a bucket array.                                 *)
AddBytes(t) ==
    /\ owes[t] # None
    /\ fetch_add(<<"bucket_array", owes[t].field>>, SizeOf[owes[t].of])
    /\ owes' = [owes EXCEPT ![t] = None]
    /\ UNCHANGED <<made, gone, snapVars>>
-----------------------------------------------------------------------------
Loads(order) ==
    /\ snap' = [snap EXCEPT ![order[pos]] = COUNTERS[order[pos]]]
    /\ seen' = IF order[pos][2] = "creation_count"
               THEN [seen EXCEPT ![order[pos][1]] = Cardinality(Of(order[pos][1], made \ gone))]
               ELSE seen
    /\ pos' = IF pos = Len(order) THEN 0 ELSE pos + 1

Load_reverse == Loads([i \in DOMAIN Fields |-> Fields[Len(Fields) + 1 - i]])
Load == Loads(Fields)

(* GlobalDebugCounters::current, a field at a time.                        *)
current ==
    /\ \/ pos = 0 /\ pos' = 1 /\ snap' = Zero /\ UNCHANGED seen
       \/ pos # 0 /\ Load
    /\ UNCHANGED <<COUNTERS, objVars>>

Next ==
    \/ current
    \/ \E t \in Threads : AddBytes(t) \/ (\E o \in Objects : new(t, o) \/ drop(t, o))

Spec == Init /\ [][Next]_vars
-----------------------------------------------------------------------------
(* When no thread is between its two additions, creations less drops are   *)
(* the live objects of the class, and bytes allocated less bytes released  *)
(* are those of the live bucket arrays.                                    *)
LiveCounted ==
    (\A t \in Threads : owes[t] = None) =>
        /\ \A c \in Classes : COUNTERS[<<c, "creation_count">>]
             = COUNTERS[<<c, "drop_count">>] + Cardinality(Of(c, made \ gone))
        /\ COUNTERS[<<"bucket_array", "allocation_bytes">>]
             = COUNTERS[<<"bucket_array", "release_bytes">>]
               + MapThenSumSet(LAMBDA o : SizeOf[o], Of("bucket_array", made \ gone))

(* The creations of a class are loaded before its drops, so that what is   *)
(* returned never shows more objects alive than there were: current does   *)
(* not report a leak where there is none.  It may show fewer, even less    *)
(* than none.                                                              *)
NoFalseLeak ==
    pos = 0 => \A c \in Classes :
        snap[<<c, "creation_count">>] <= snap[<<c, "drop_count">>] + seen[c]
=============================================================================

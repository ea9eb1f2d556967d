----------------------------- MODULE EntryInfo ------------------------------
(***************************************************************************)
(* The expiration state of an entry (common/concurrent/entry_info.rs): its *)
(* expiration time and the generation of that time, packed in one atomic   *)
(* word that users change with compare-and-swap and maintenance reads.     *)
(*                                                                         *)
(* The word has TimeBits upper bits for the time, whose lower bits are cut *)
(* off, and GenBits lower bits for the generation (52 and 12 in the code). *)
(***************************************************************************)
EXTENDS Integers, Sequences, FiniteSets

CONSTANTS
    Setters, Readers, \* threads
    None,
    TimeBits, GenBits,
    Times,            \* instants that are set: nanoseconds
    MaxSets           \* bound: calls of set_expiration_time

EntryInfoAssumption ==
    /\ TimeBits \in Nat \ {0} /\ GenBits \in Nat \ {0}
    /\ Times \subseteq 0..(2 ^ (TimeBits + GenBits) - 1)

Unit == 2 ^ GenBits
TIME_MASK == (2 ^ TimeBits - 1) * Unit

VARIABLES
    expiration_state, \* the word
    setter,           \* setter -> the time it sets, and the word it has loaded, or None
    reader,           \* reader -> what it has read, or None
    log,              \* history: the times that were set, in the order of the swaps
    scheduled         \* history: reader -> sets before its first and its second reading

vars == <<expiration_state, setter, reader, log, scheduled>>

Idle == [time |-> None, loaded |-> None, busy |-> FALSE]

(* EntryInfo::new: no expiration time, generation zero.                    *)
Init ==
    /\ expiration_state = TIME_MASK
    /\ setter = [s \in Setters |-> Idle]
    /\ reader = [r \in Readers |-> None]
    /\ log = <<>>
    /\ scheduled = [r \in Readers |-> None]
-----------------------------------------------------------------------------
(* A time of all ones is no time.                                          *)
unpack(packed) ==
    LET nanos == (packed \div Unit) * Unit
    IN [time |-> IF nanos = TIME_MASK THEN None ELSE nanos, gen |-> packed % Unit]

(* The word that follows packed when time is set.                          *)
pack(packed, time) ==
    LET gen == ((packed % Unit) + 1) % Unit
        nanos == (time \div Unit) * Unit
    IN CASE time = None -> TIME_MASK + gen
         [] time # None /\ nanos = TIME_MASK -> TIME_MASK - Unit + gen
         [] OTHER -> nanos + gen

set_expiration_time(s, time) ==
    /\ ~setter[s].busy
    /\ Len(log) + Cardinality({u \in Setters : setter[u].busy}) < MaxSets
    /\ setter' = [setter EXCEPT ![s] = [time |-> time, loaded |-> None, busy |-> TRUE]]
    /\ UNCHANGED <<expiration_state, reader, log, scheduled>>

Load(s) ==
    /\ setter[s].busy /\ setter[s].loaded = None
    /\ setter' = [setter EXCEPT ![s].loaded = expiration_state]
    /\ UNCHANGED <<expiration_state, reader, log, scheduled>>

compare_exchange_weak_store(s) ==
    /\ setter[s].busy /\ setter[s].loaded # None
    /\ expiration_state' = pack(setter[s].loaded, setter[s].time)
    /\ log' = Append(log, setter[s].time)
    /\ setter' = [setter EXCEPT ![s] = Idle]
    /\ UNCHANGED <<reader, scheduled>>

(* The weak exchange may fail though the word is as it was loaded.         *)
compare_exchange_weak(s) ==
    /\ setter[s].busy /\ setter[s].loaded # None
    /\ \/ /\ expiration_state = setter[s].loaded
          /\ expiration_state' = pack(setter[s].loaded, setter[s].time)
          /\ log' = Append(log, setter[s].time)
          /\ setter' = [setter EXCEPT ![s] = Idle]
       \/ /\ setter' = [setter EXCEPT ![s].loaded = None]
          /\ UNCHANGED <<expiration_state, log>>
    /\ UNCHANGED <<reader, scheduled>>
-----------------------------------------------------------------------------
(* update_timer_wheel reads time and generation, and calls schedule.       *)
update_timer_wheel(r) ==
    /\ reader[r] = None
    /\ unpack(expiration_state).time # None
    /\ reader' = [reader EXCEPT ![r] = [state |-> unpack(expiration_state), sets |-> Len(log)]]
    /\ UNCHANGED <<expiration_state, setter, log, scheduled>>

(* schedule reads them again, and gives up if the generation is another.   *)
schedule(r) ==
    /\ reader[r] # None
    /\ scheduled' = [scheduled EXCEPT ![r] =
          IF unpack(expiration_state).gen = reader[r].state.gen
          THEN <<reader[r].sets, Len(log)>> ELSE None]
    /\ reader' = [reader EXCEPT ![r] = None]
    /\ UNCHANGED <<expiration_state, setter, log>>

Next ==
    \/ \E s \in Setters : \/ \E t \in Times \cup {None} : set_expiration_time(s, t)
                          \/ Load(s)
                          \/ compare_exchange_weak(s)
    \/ \E r \in Readers : update_timer_wheel(r) \/ schedule(r)

Spec == Init /\ [][Next]_vars
-----------------------------------------------------------------------------
(* The generation counts the calls that have returned, none is lost when   *)
(* two race, and setting no time counts as well ("always preserved, even   *)
(* for None state").                                                       *)
GenCounts == expiration_state % Unit = Len(log) % Unit

(* What is read is what the last call has set: no time if it has set none, *)
(* and otherwise a time that is not later, and less than a unit earlier.   *)
(* Only the last unit, whose bits are those of no time, is moved to the    *)
(* one before.                                                             *)
TimeKept ==
    log # <<>> =>
        LET set == log[Len(log)]
            read == unpack(expiration_state).time
        IN /\ set = None <=> read = None
           /\ set # None /\ read # None =>
                /\ read <= set
                /\ set - read < IF set >= TIME_MASK THEN 2 * Unit ELSE Unit

(* schedule makes a timer only if nobody has set another time since        *)
(* update_timer_wheel looked, unless the generation has come round.        *)
StaleSeen ==
    \A r \in Readers : scheduled[r] # None => (scheduled[r][2] - scheduled[r][1]) % Unit = 0
=============================================================================

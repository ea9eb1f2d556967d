----------------------------- MODULE TimerWheel -----------------------------
(***************************************************************************)
(* The hierarchical timer wheel (common/timer_wheel.rs): its buckets, the  *)
(* iterator that advance returns, and update_timer_wheel, which keeps the  *)
(* timer of an entry up to date (sync/base_cache.rs).                      *)
(*                                                                         *)
(* The wheel belongs to maintenance, which holds its lock.  Users only     *)
(* change the expiration times of entries, at any moment: what maintenance *)
(* has read of an entry may be out of date at its next step.               *)
(***************************************************************************)
EXTENDS Integers, Sequences, FiniteSets

CONSTANTS
    Entries, None, Sentinel,
    BUCKET_COUNTS,    \* level -> number of buckets; the last level is the overflow
    DURATIONS,        \* level -> the time one bucket is meant to span
    origin,           \* the time the wheel was created
    MaxTime,          \* bound: the clock
    MaxExpiry,        \* bound: expiration times
    MaxChanges,       \* bound: changes of expiration times
    MayPanic          \* whether the loop over the events may be left early

OVERFLOW_QUEUE_INDEX == Cardinality(DOMAIN BUCKET_COUNTS) - 1
NUM_LEVELS == OVERFLOW_QUEUE_INDEX - 1
Levels == 0..OVERFLOW_QUEUE_INDEX

(* The next power of two.                                                  *)
aligned_duration(duration) ==
    LET powers == {p \in {2 ^ k : k \in 0..30} : p >= duration}
    IN CHOOSE p \in powers : \A q \in powers : p <= q

(* A shift by SHIFT is a division by the span.                             *)
SPANS ==
    [l \in Levels |-> IF l <= NUM_LEVELS THEN aligned_duration(DURATIONS[l])
                      ELSE BUCKET_COUNTS[NUM_LEVELS] * aligned_duration(DURATIONS[NUM_LEVELS])]

(* A level spans one bucket of the next.                                   *)
WheelAssumption ==
    \A l \in 0..NUM_LEVELS : SPANS[l] * BUCKET_COUNTS[l] = SPANS[l + 1]

VARIABLES
    exp,              \* entry -> expiration time, or None, and generation
    wheels,           \* level -> index -> queue of timers and the sentinel, or None if not enabled
    node,             \* entry -> its TimerNode, or None
    timer_node,       \* entry -> the generation in its pointer to the node, or None
    current,          \* time of the last advance
    iter,             \* TimerEventsIter, or None
    work,             \* what maintenance is about to do with an entry, or None
    changes           \* changes of expiration times left

vars == <<exp, wheels, node, timer_node, current, iter, work, changes>>

(* sched and at are history: the time a node was put in its bucket, and    *)
(* the expiration time then.                                               *)
TimerNode(gen, pos, at) == [gen |-> gen, pos |-> pos, sched |-> current, at |-> at]

Init ==
    /\ exp = [e \in Entries |-> [time |-> None, gen |-> 0]]
    /\ wheels = None
    /\ node = [e \in Entries |-> None]
    /\ timer_node = [e \in Entries |-> None]
    /\ current = origin
    /\ iter = None
    /\ work = None
    /\ changes = MaxChanges
-----------------------------------------------------------------------------
(* Buckets *)

is_enabled == wheels # None
enable == [l \in Levels |-> [i \in 0..(BUCKET_COUNTS[l] - 1) |-> <<Sentinel>>]]

duration_since_last_advanced(time) == IF time < current THEN 0 ELSE time - current
time_nanos(time) == IF time < origin THEN 0 ELSE time - origin

bucket_indices(time) ==
    LET fits == {l \in 0..NUM_LEVELS : duration_since_last_advanced(time) < SPANS[l + 1]}
        level == CHOOSE l \in fits : \A j \in fits : l <= j
    IN IF fits = {} THEN <<OVERFLOW_QUEUE_INDEX, 0>>
                    ELSE <<level, (time_nanos(time) \div SPANS[level]) % BUCKET_COUNTS[level]>>

push_back(e, pos) == [wheels EXCEPT ![pos[1]][pos[2]] = Append(@, e)]

position(e) == node[e].pos
set_position(e, pos) == TimerNode(node[e].gen, pos, exp[e].time)
unset_position(e) == [node EXCEPT ![e].pos = None]
expiry_gen(e) == node[e].gen

unlink_timer(e) ==
    IF position(e) = None THEN wheels
    ELSE [wheels EXCEPT ![position(e)[1]][position(e)[2]] = SelectSeq(@, LAMBDA x : x # e)]

drop_node(e) == [node EXCEPT ![e] = None]

Front(pos) == Head(wheels[pos[1]][pos[2]])
is_sentinel(e) == e = Sentinel
pop_timer_node(pos) == [wheels EXCEPT ![pos[1]][pos[2]] = Tail(@)]

(* Rotated until the sentinel is at the back: what was pushed behind it    *)
(* since comes first.                                                      *)
reset_timer_node_positions(pos) ==
    LET q == wheels[pos[1]][pos[2]]
        p == CHOOSE j \in 1..Len(q) : q[j] = Sentinel
    IN [wheels EXCEPT ![pos[1]][pos[2]] =
          SubSeq(q, p + 1, Len(q)) \o SubSeq(q, 1, p)]
-----------------------------------------------------------------------------
(* Users *)

set_expiration_time(e, time) ==
    /\ changes > 0
    /\ changes' = changes - 1
    /\ exp' = [exp EXCEPT ![e] = [time |-> time, gen |-> @.gen + 1]]
    /\ UNCHANGED <<wheels, node, timer_node, current, iter, work>>
-----------------------------------------------------------------------------
(* Maintenance: update_timer_wheel *)

Idle == iter = None /\ work = None

unset_timer_node_in_deq_nodes(e) == timer_node' = [timer_node EXCEPT ![e] = None]

(* A node of another generation than the pointer's is left alone, and so   *)
(* is the wheel.  A node that is unlinked is put back by                   *)
(* schedule_existing_node, which reads the expiration time again.          *)
reschedule(e, expected) ==
    IF expiry_gen(e) = expected
    THEN /\ wheels' = unlink_timer(e)
         /\ node' = unset_position(e)
         /\ work' = [do |-> "reschedule", entry |-> e, gen |-> exp[e].gen]
         /\ UNCHANGED timer_node
    ELSE /\ unset_timer_node_in_deq_nodes(e)
         /\ UNCHANGED <<wheels, node, work>>

deschedule(e, expected) ==
    IF expiry_gen(e) = expected
    THEN wheels' = unlink_timer(e) /\ node' = drop_node(e)
    ELSE UNCHANGED <<wheels, node>>

(* The expiration time is read; what is done with the timer follows from   *)
(* it.  The first expiration time enables the wheel.                       *)
update_timer_wheel(e) ==
    /\ Idle
    /\ CASE exp[e].time = None /\ timer_node[e] = None -> FALSE
         [] exp[e].time # None /\ timer_node[e] = None ->
              /\ wheels' = IF is_enabled THEN wheels ELSE enable
              /\ work' = [do |-> "schedule", entry |-> e, gen |-> exp[e].gen]
              /\ UNCHANGED <<node, timer_node>>
         [] exp[e].time # None /\ timer_node[e] # None -> reschedule(e, timer_node[e])
         [] exp[e].time = None /\ timer_node[e] # None ->
              /\ deschedule(e, timer_node[e])
              /\ unset_timer_node_in_deq_nodes(e)
              /\ UNCHANGED work
    /\ UNCHANGED <<exp, current, iter, changes>>

(* schedule reads the time again and makes a node only if nobody has       *)
(* changed it since.                                                       *)
schedule ==
    LET e == work.entry
        x == exp[e]
        pos == bucket_indices(x.time)
    IN
    /\ work # None /\ work.do = "schedule"
    /\ IF x.gen = work.gen /\ x.time # None
       THEN /\ node' = [node EXCEPT ![e] = TimerNode(x.gen, pos, x.time)]
            /\ wheels' = push_back(e, pos)
            /\ timer_node' = [timer_node EXCEPT ![e] = work.gen]
       ELSE UNCHANGED <<node, wheels, timer_node>>
    /\ work' = None
    /\ UNCHANGED <<exp, current, iter, changes>>

schedule_existing_node_late ==
    LET e == work.entry
        x == exp[e]
        pos == bucket_indices(x.time)
    IN
    /\ work # None /\ work.do = "reschedule"
    /\ node' = [node EXCEPT ![e] = IF x.time # None THEN set_position(e, pos) ELSE None]
    /\ wheels' = IF x.time # None THEN push_back(e, pos) ELSE wheels
    /\ work' = None
    /\ UNCHANGED <<timer_node, exp, current, iter, changes>>

(* schedule_existing_node: the node is put in the bucket of the time it    *)
(* has now, or dropped.                                                    *)
schedule_existing_node ==
    LET e == work.entry
        x == exp[e]
        pos == bucket_indices(x.time)
    IN
    /\ work # None /\ work.do = "reschedule"
    /\ IF x.time # None
       THEN /\ node' = [node EXCEPT ![e] = set_position(e, pos)]
            /\ wheels' = push_back(e, pos)
            /\ UNCHANGED timer_node
       ELSE /\ node' = drop_node(e)
            /\ unset_timer_node_in_deq_nodes(e)
            /\ UNCHANGED wheels
    /\ work' = None
    /\ UNCHANGED <<exp, current, iter, changes>>
-----------------------------------------------------------------------------
(* Maintenance: advance *)

TimerEventsIter(previous) ==
    [previous |-> previous, level |-> 0, index |-> 0, end |-> 0, new_level |-> TRUE,
     new_index |-> TRUE]

(* Maintenance advances the wheel only if it is enabled.                   *)
advance(time) ==
    /\ Idle
    /\ is_enabled
    /\ time >= current
    /\ current' = time
    /\ iter' = TimerEventsIter(current)
    /\ UNCHANGED <<exp, wheels, node, timer_node, work, changes>>

Iterating == iter # None /\ work = None
At == <<iter.level, iter.index % BUCKET_COUNTS[iter.level]>>

(* The buckets of a level from that of the previous advance to that of     *)
(* this one, both included; nothing more if the level has not moved.       *)
NewLevel ==
    LET previous == time_nanos(iter.previous) \div SPANS[iter.level]
        ticks == time_nanos(current) \div SPANS[iter.level]
        count == BUCKET_COUNTS[iter.level]
        steps == IF ticks - previous + 1 < count THEN ticks - previous + 1 ELSE count
    IN
    /\ Iterating
    /\ iter.new_level
    /\ iter' = IF ticks <= previous THEN None
               ELSE [iter EXCEPT !.index = previous % count, !.end = (previous % count) + steps,
                                 !.new_level = FALSE, !.new_index = TRUE]
    /\ UNCHANGED <<exp, wheels, node, timer_node, current, work, changes>>

NewIndex ==
    /\ Iterating
    /\ ~iter.new_level /\ iter.new_index
    /\ wheels' = reset_timer_node_positions(At)
    /\ iter' = [iter EXCEPT !.new_index = FALSE]
    /\ UNCHANGED <<exp, node, timer_node, current, work, changes>>

(* A node is popped.  If its entry has expired, or does not expire, the    *)
(* pointer to it is unset; otherwise it is scheduled again.                *)
Pop ==
    LET e == Front(At) IN
    /\ Iterating
    /\ ~iter.new_level /\ ~iter.new_index
    /\ ~is_sentinel(e)
    /\ wheels' = pop_timer_node(At)
    /\ IF exp[e].time # None /\ exp[e].time > current
       THEN /\ node' = unset_position(e)
            /\ work' = [do |-> "reschedule", entry |-> e, gen |-> exp[e].gen]
            /\ UNCHANGED timer_node
       ELSE node' = drop_node(e) /\ unset_timer_node_in_deq_nodes(e) /\ UNCHANGED work
    /\ UNCHANGED <<exp, current, iter, changes>>

(* The sentinel is at the front: on to the next bucket, or level.          *)
NextBucket ==
    /\ Iterating
    /\ ~iter.new_level /\ ~iter.new_index
    /\ is_sentinel(Front(At))
    /\ iter' = CASE iter.index + 1 < iter.end ->
                      [iter EXCEPT !.index = @ + 1, !.new_index = TRUE]
                 [] iter.index + 1 >= iter.end /\ iter.level < OVERFLOW_QUEUE_INDEX ->
                      [iter EXCEPT !.index = @ + 1, !.level = @ + 1, !.new_level = TRUE]
                 [] OTHER -> None
    /\ UNCHANGED <<exp, wheels, node, timer_node, current, work, changes>>

(* The iterator is dropped before it is done: the buckets it has not seen  *)
(* will be visited by the next one.                                        *)
Drop ==
    /\ MayPanic
    /\ Iterating
    /\ iter' = None
    /\ current' = iter.previous
    /\ UNCHANGED <<exp, wheels, node, timer_node, work, changes>>

next == NewLevel \/ NewIndex \/ Pop \/ NextBucket

Maintenance == schedule \/ schedule_existing_node \/ next

Next ==
    \/ \E e \in Entries, t \in 0..MaxExpiry \cup {None} : set_expiration_time(e, t)
    \/ \E e \in Entries : update_timer_wheel(e)
    \/ \E t \in origin..MaxTime : advance(t)
    \/ Maintenance
    \/ Drop

Spec == Init /\ [][Next]_vars

(* Maintenance does not stop in the middle.                                *)
FairSpec == Spec /\ WF_vars(Maintenance)
-----------------------------------------------------------------------------
Positions == {<<l, i>> : l \in Levels, i \in 0..63}
Buckets == {p \in Positions : p[2] < BUCKET_COUNTS[p[1]]}

(* Each node is where its position says, once, and each bucket has one     *)
(* sentinel, so that unlinking a node cannot corrupt another queue.        *)
PositionsMatch ==
    is_enabled =>
    /\ \A e \in Entries, p \in Buckets :
         LET q == wheels[p[1]][p[2]] IN
         Cardinality({j \in 1..Len(q) : q[j] = e}) =
             IF node[e] # None /\ (node[e] # None => node[e].pos = p) THEN 1 ELSE 0
    /\ \A p \in Buckets :
         Cardinality({j \in 1..Len(wheels[p[1]][p[2]]) : wheels[p[1]][p[2]][j] = Sentinel}) = 1

(* The pointer of an entry is to a node that is alive and of the           *)
(* generation it expects ("This prevents use-after-free when a stale       *)
(* timer_node pointer is used"), and each node has a pointer to it.        *)
PointersValid ==
    \A e \in Entries :
        /\ timer_node[e] # None <=> node[e] # None
        /\ timer_node[e] # None => node[e].gen = timer_node[e]

Tick(time) == (time - origin) \div SPANS[0]

(* When an advance is done, no timer is overdue by a tick or more, if it   *)
(* was set for a time to come.  One that was set for a time already past   *)
(* waits no longer than one turn of the lowest wheel.                      *)
OnTime ==
    Idle => \A e \in Entries :
        node[e] # None /\ node[e].at < current =>
            IF node[e].at >= node[e].sched
            THEN Tick(node[e].at) = Tick(current)
            ELSE Tick(current) < Tick(node[e].sched) + BUCKET_COUNTS[0]

(* An advance comes to an end, though timers that are not due are put back *)
(* into the buckets it visits.                                             *)
AdvanceEnds == iter # None ~> iter = None
=============================================================================

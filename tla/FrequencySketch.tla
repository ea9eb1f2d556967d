-------------------------- MODULE FrequencySketch ---------------------------
(***************************************************************************)
(* The frequency sketch (common/frequency_sketch.rs) that the TinyLFU      *)
(* policy asks which of two entries is the more popular: a table of words  *)
(* of 16 counters of 4 bits.  An element has four counters, and its        *)
(* estimate is the least of them.  All counters are halved from time to    *)
(* time.  ref is what the estimate is about: the count of each element,    *)
(* at most 15, halved whenever the counters are.                           *)
(*                                                                         *)
(* Of a hash only its two low bits (Start) and the four table indexes      *)
(* (Raw, before the mask is applied) matter.  MaxTable stands for 2^30,    *)
(* MaxSample for 2^31 - 1 and SizeMod for 2^32; capacities are scaled down *)
(* from the 128 that sketch_capacity makes the least.                      *)
(***************************************************************************)
EXTENDS Integers, FiniteSets, Sequences, TLAPS

CONSTANTS Hashes, Start, Raw, Caps, MaxTable, MaxSample, SizeMod,
          Powers,  \* the powers of two up to MaxTable
          Stream   \* the elements that come, or <<>> if any may

ASSUME Shape ==
    /\ Start \in [Hashes -> 0..3]
    /\ Raw \in [Hashes -> [0..3 -> Nat]]
    /\ Caps \subseteq Nat /\ Powers \subseteq Nat \ {0}
    /\ \A n \in 1..MaxTable : \E m \in Powers : m >= n /\ m < 2 * n
    /\ MaxTable \in Nat \ {0} /\ MaxSample \in Nat /\ SizeMod \in Nat \ {0}

VARIABLES table, table_size, sample_size, size, ref, came

vars == <<table, table_size, sample_size, size, ref, came>>

(* FrequencySketch::default: no table until ensure_capacity is called.     *)
Init ==
    /\ table = <<>>
    /\ table_size = 0
    /\ sample_size = 0
    /\ size = 0
    /\ ref = [h \in Hashes |-> 0]
    /\ came = 0

Smaller(a, b) == IF a < b THEN a ELSE b
next_power_of_two(n) == CHOOSE m \in Powers : m >= n /\ m < 2 * n

ensure_capacity(cap) ==
    LET maximum == Smaller(cap, MaxTable)
        new == IF maximum = 0 THEN 1 ELSE next_power_of_two(maximum)
    IN /\ table_size < new
       /\ table_size' = new
       /\ table' = [w \in 0..new - 1 |-> [c \in 0..15 |-> 0]]
       /\ sample_size' = IF cap = 0 THEN 10 ELSE Smaller(maximum * 10, MaxSample)
       /\ ref' = [h \in Hashes |-> 0]
       /\ UNCHANGED <<size, came>>

index_of(h, i) == Raw[h][i] % table_size
Counter(h, i) == 4 * Start[h] + i

(* The counters of h in word w.                                            *)
CountersIn(h, w) == {Counter(h, i) : i \in {j \in 0..3 : index_of(h, j) = w}}

increment_at_carrying(word, cs) ==
    [c \in 0..15 |-> IF c \in cs THEN (word[c] + 1) % 16
                     ELSE IF c - 1 \in cs /\ word[c - 1] = 15 THEN (word[c] + 1) % 16 ELSE word[c]]

(* The counters cs of a word go up, unless they are at 15.                 *)
increment_at(word, cs) == [c \in 0..15 |-> IF c \in cs THEN Smaller(word[c] + 1, 15) ELSE word[c]]

Bumped(h) == [w \in DOMAIN table |-> increment_at(table[w], CountersIn(h, w))]
Odd(t) == {wc \in (DOMAIN t) \X (0..15) : t[wc[1]][wc[2]] % 2 = 1}

halved(t) == [w \in DOMAIN t |-> [c \in 0..15 |-> t[w][c] \div 2]]

reset_keeping(t, n) ==
    /\ table' = halved(t)
    /\ size' = (n - Cardinality(Odd(t)) \div 4) % SizeMod

(* All counters are halved; size loses half, and what the odd ones lost.   *)
reset(t, n) ==
    /\ table' = halved(t)
    /\ size' = (n \div 2 - Cardinality(Odd(t)) \div 4) % SizeMod

increment(h) ==
    LET t == Bumped(h)
        r == [ref EXCEPT ![h] = Smaller(@ + 1, 15)]
    IN /\ table # <<>>
       /\ IF t # table /\ size + 1 >= sample_size
          THEN reset(t, size + 1) /\ ref' = [g \in Hashes |-> r[g] \div 2]
          ELSE /\ table' = t
               /\ ref' = r
               /\ size' = IF t # table THEN size + 1 ELSE size
       /\ UNCHANGED <<table_size, sample_size>>

(* frequency of an element, the least of its counters.                     *)
Counts(h) == {table[index_of(h, i)][Counter(h, i)] : i \in 0..3}
frequency(h) == IF table = <<>> THEN 0 ELSE CHOOSE n \in Counts(h) : \A m \in Counts(h) : n <= m

Comes(h) ==
    /\ IF Stream = <<>> THEN UNCHANGED came
       ELSE came < Len(Stream) /\ h = Stream[came + 1] /\ came' = came + 1
    /\ increment(h)

Next == (\E cap \in Caps : ensure_capacity(cap)) \/ (\E h \in Hashes : Comes(h))

Spec == Init /\ [][Next]_vars
-----------------------------------------------------------------------------
(* The estimate is never less than the count, through saturation, halving  *)
(* and whatever elements share counters.                                   *)
NeverUnder == \A h \in Hashes : frequency(h) >= ref[h]

Alone(h, i) == \A g \in Hashes \ {h}, j \in 0..3 : index_of(g, j) # index_of(h, i) \/ Counter(g, j) # Counter(h, i)

(* The estimate of an element is its count if one of its counters belongs  *)
(* to no other element.                                                    *)
ExactIfAlone == table # <<>> => \A h \in Hashes : (\E i \in 0..3 : Alone(h, i)) => frequency(h) <= ref[h]

(* A popular element is never taken for an unpopular one, nor the reverse  *)
(* but for elements that share all of its counters.                        *)
Estimates == NeverUnder /\ ExactIfAlone

(* size stays below the number of additions that calls for the next aging, *)
(* and is at most half of it after one: "assert!(sketch.size <=            *)
(* sketch.sample_size / 2)" in the test of reset.                          *)
ResetHalves == [][table_size' = table_size /\ size' # size + 1 /\ size' # size => size' <= sample_size \div 2]_vars

-----------------------------------------------------------------------------
(***************************************************************************)
(* The estimate of the frequency sketch is never less than the count of an *)
(* element, and is the count itself if the element has a counter of its    *)
(* own, for any number of elements, any indexes and any capacity.          *)
(*                                                                         *)
(* The least of four counters cannot be reasoned about as it is: the       *)
(* inductive invariant is about each of them (Above, and Below for those   *)
(* that one element has alone), and needs the shape of the table, so that  *)
(* the counters of an element are there.                                   *)
(***************************************************************************)

Above(t, n, r) ==
    \A h \in Hashes, i \in 0..3 : t[Raw[h][i] % n][Counter(h, i)] >= r[h]

(* Counter i of h is in no cell of another element, in a table of n words.  *)
Single(n, h, i) ==
    \A g \in Hashes \ {h}, j \in 0..3 :
      Raw[g][j] % n # Raw[h][i] % n \/ Counter(g, j) # Counter(h, i)

Below(t, n, r) ==
    \A h \in Hashes, i \in 0..3 : Single(n, h, i) => t[Raw[h][i] % n][Counter(h, i)] <= r[h]

Made ==
    /\ table_size \in Nat \ {0}
    /\ table \in [0..table_size - 1 -> [0..15 -> 0..15]]
    /\ Above(table, table_size, ref)
    /\ Below(table, table_size, ref)

IInv ==
    /\ ref \in [Hashes -> 0..15]
    /\ \/ table = <<>> /\ table_size = 0 /\ \A h \in Hashes : ref[h] = 0
       \/ Made

-----------------------------------------------------------------------------
(* The counters of an element are counters of its words.                   *)
LEMMA CellThere ==
    ASSUME NEW n \in Nat \ {0}, NEW h \in Hashes, NEW i \in 0..3
    PROVE  /\ Raw[h][i] % n \in 0..n - 1
           /\ Counter(h, i) \in 0..15
<1>1. Raw[h][i] \in Nat /\ Start[h] \in 0..3
  BY Shape
<1>2. Raw[h][i] % n \in 0..n - 1
  BY <1>1
<1>3. Counter(h, i) \in 0..15
  BY <1>1 DEF Counter
<1> QED BY <1>2, <1>3

(* A table with a word is not the empty one.                               *)
LEMMA MadeIsNotEmpty == Made => table # <<>>
<1> SUFFICES ASSUME Made PROVE table # <<>>
  OBVIOUS
<1>1. 0 \in DOMAIN table
  BY DEF Made
<1>2. DOMAIN << >> = {}
  OBVIOUS
<1> QED BY <1>1, <1>2

(* ensure_capacity makes a table of at least one word.                     *)
LEMMA NewSize ==
    ASSUME NEW cap \in Caps, Smaller(cap, MaxTable) # 0
    PROVE  next_power_of_two(Smaller(cap, MaxTable)) \in Nat \ {0}
<1> DEFINE m == Smaller(cap, MaxTable)
<1>1. m \in 1..MaxTable
  BY Shape DEF Smaller
<1>2. \E p \in Powers : p >= m /\ p < 2 * m
  BY <1>1, Shape
<1>3. next_power_of_two(m) \in Powers
  BY <1>2 DEF next_power_of_two
<1> QED BY Zenon, <1>3, Shape

(* ensure_capacity starts with zeros, for the counters and for the counts. *)
LEMMA EnsureKeeps ==
    ASSUME IInv, NEW cap \in Caps, ensure_capacity(cap)
    PROVE  IInv'
<1> DEFINE maximum == Smaller(cap, MaxTable)
           new == IF maximum = 0 THEN 1 ELSE next_power_of_two(maximum)
<1>1. new \in Nat \ {0}
  BY NewSize
<1>2. table_size' = new /\ table' = [w \in 0..new - 1 |-> [c \in 0..15 |-> 0]] /\ ref' = [h \in Hashes |-> 0]
  BY DEF ensure_capacity
<1> HIDE DEF new
<1>3. table' \in [0..table_size' - 1 -> [0..15 -> 0..15]]
  BY <1>1, <1>2
<1>4. Above(table', table_size', ref')
  <2> SUFFICES ASSUME NEW h \in Hashes, NEW i \in 0..3
               PROVE  table'[Raw[h][i] % new][Counter(h, i)] >= ref'[h]
    BY Zenon, <1>2 DEF Above
  <2>1. Raw[h][i] % new \in 0..new - 1 /\ Counter(h, i) \in 0..15
    BY <1>1, CellThere
  <2> QED BY <1>2, <2>1
<1>5. Below(table', table_size', ref')
  <2> SUFFICES ASSUME NEW h \in Hashes, NEW i \in 0..3
               PROVE  table'[Raw[h][i] % new][Counter(h, i)] <= ref'[h]
    BY Zenon, <1>2 DEF Below
  <2>1. Raw[h][i] % new \in 0..new - 1 /\ Counter(h, i) \in 0..15
    BY Zenon, <1>1, CellThere
  <2> QED BY <1>2, <2>1
<1>6. Made'
  <2>1. table_size' \in Nat \ {0}
    BY <1>1, <1>2
  <2> QED BY Zenon, <1>3, <1>4, <1>5, <2>1 DEF Made, Above, Below, Single, Counter
<1> QED BY <1>2, <1>6 DEF IInv

(* increment_at and halving keep every counter in its four bits.           *)
LEMMA WordsStay ==
    ASSUME Made, NEW h \in Hashes
    PROVE  /\ Bumped(h) \in [0..table_size - 1 -> [0..15 -> 0..15]]
           /\ halved(Bumped(h)) \in [0..table_size - 1 -> [0..15 -> 0..15]]
<1>1. \A w \in 0..table_size - 1, c \in 0..15 : table[w][c] \in 0..15
  BY Zenon DEF Made
<1>2. DOMAIN table = 0..table_size - 1
  BY DEF Made
<1>3. Bumped(h) \in [0..table_size - 1 -> [0..15 -> 0..15]]
  <2>1. \A w \in 0..table_size - 1 : increment_at(table[w], CountersIn(h, w)) \in [0..15 -> 0..15]
    <3> SUFFICES ASSUME NEW w \in 0..table_size - 1, NEW c \in 0..15
                 PROVE  (IF c \in CountersIn(h, w) THEN Smaller(table[w][c] + 1, 15) ELSE table[w][c]) \in 0..15
      BY DEF increment_at
    <3> QED BY <1>1 DEF Smaller
  <2> QED BY <1>2, <2>1 DEF Bumped
<1>4. \A w \in 0..table_size - 1, c \in 0..15 : Bumped(h)[w][c] \div 2 \in 0..15
  <2>1. \A x \in 0..15 : x \div 2 \in 0..15
    OBVIOUS
  <2>2. \A w \in 0..table_size - 1, c \in 0..15 : Bumped(h)[w][c] \in 0..15
    BY Zenon, <1>3
  <2> QED BY <2>1, <2>2
<1>5. DOMAIN Bumped(h) = 0..table_size - 1
  BY <1>2 DEF Bumped
<1>6. halved(Bumped(h)) \in [0..table_size - 1 -> [0..15 -> 0..15]]
  BY Zenon, <1>4, <1>5 DEF halved
<1> QED BY <1>3, <1>6

(* After an increment of h every counter is still at or above the counts.  *)
LEMMA BumpKeeps ==
    ASSUME Made, ref \in [Hashes -> 0..15], NEW h \in Hashes
    PROVE  Above(Bumped(h), table_size, [ref EXCEPT ![h] = Smaller(@ + 1, 15)])
<1> SUFFICES ASSUME NEW g \in Hashes, NEW i \in 0..3
             PROVE  Bumped(h)[Raw[g][i] % table_size][Counter(g, i)] >= [ref EXCEPT ![h] = Smaller(@ + 1, 15)][g]
  BY DEF Above
<1> DEFINE w == Raw[g][i] % table_size
           c == Counter(g, i)
<1>1. w \in 0..table_size - 1 /\ c \in 0..15
  BY Zenon, CellThere DEF Made
<1>2. table[w][c] \in 0..15 /\ table[w][c] >= ref[g] /\ ref[g] \in 0..15
  BY Zenon, <1>1 DEF Made, Above
<1>3. Bumped(h)[w][c] = IF c \in CountersIn(h, w) THEN Smaller(table[w][c] + 1, 15) ELSE table[w][c]
  BY <1>1 DEF Bumped, increment_at, Made
<1>4. CASE g = h
  <2>1. c \in CountersIn(h, w)
    BY <1>4 DEF CountersIn, index_of
  <2>2. [ref EXCEPT ![h] = Smaller(@ + 1, 15)][g] = Smaller(ref[g] + 1, 15)
    BY <1>4
  <2> QED BY <1>2, <1>3, <2>1, <2>2 DEF Smaller
<1>5. CASE g # h
  <2>1. [ref EXCEPT ![h] = Smaller(@ + 1, 15)][g] = ref[g]
    BY <1>5
  <2> QED BY <1>2, <1>3, <2>1 DEF Smaller
<1> QED BY <1>4, <1>5

(* A counter that h shares with no other element goes up for h alone, and  *)
(* once for each of its increments.                                        *)
LEMMA BumpIsExact ==
    ASSUME Made, ref \in [Hashes -> 0..15], NEW h \in Hashes
    PROVE  Below(Bumped(h), table_size, [ref EXCEPT ![h] = Smaller(@ + 1, 15)])
<1> SUFFICES ASSUME NEW g \in Hashes, NEW i \in 0..3, Single(table_size, g, i)
             PROVE  Bumped(h)[Raw[g][i] % table_size][Counter(g, i)] <= [ref EXCEPT ![h] = Smaller(@ + 1, 15)][g]
  BY DEF Below
<1> DEFINE w == Raw[g][i] % table_size
           c == Counter(g, i)
<1>1. w \in 0..table_size - 1 /\ c \in 0..15
  BY Zenon, CellThere DEF Made
<1>2. table[w][c] \in 0..15 /\ table[w][c] <= ref[g] /\ ref[g] \in 0..15
  BY Zenon, <1>1 DEF Made, Below
<1>3. Bumped(h)[w][c] = IF c \in CountersIn(h, w) THEN Smaller(table[w][c] + 1, 15) ELSE table[w][c]
  BY <1>1 DEF Bumped, increment_at, Made
<1>4. CASE g = h
  <2>1. [ref EXCEPT ![h] = Smaller(@ + 1, 15)][g] = Smaller(ref[g] + 1, 15)
    BY <1>4
  <2> QED BY <1>2, <1>3, <2>1 DEF Smaller
<1>5. CASE g # h
  <2>1. [ref EXCEPT ![h] = Smaller(@ + 1, 15)][g] = ref[g]
    BY <1>5
  <2>2. c \notin CountersIn(h, w)
    BY <1>5 DEF Single, CountersIn, index_of
  <2> QED BY <1>2, <1>3, <2>1, <2>2
<1> QED BY <1>4, <1>5

(* Halving all counters and all counts keeps them in order.                *)
LEMMA HalvingKeeps ==
    ASSUME NEW n \in Nat \ {0}, NEW t \in [0..n - 1 -> [0..15 -> 0..15]], NEW r \in [Hashes -> 0..15],
           Above(t, n, r), Below(t, n, r)
    PROVE  /\ Above(halved(t), n, [g \in Hashes |-> r[g] \div 2])
           /\ Below(halved(t), n, [g \in Hashes |-> r[g] \div 2])
<1> SUFFICES ASSUME NEW g \in Hashes, NEW i \in 0..3
             PROVE  /\ halved(t)[Raw[g][i] % n][Counter(g, i)] >= r[g] \div 2
                    /\ Single(n, g, i) => halved(t)[Raw[g][i] % n][Counter(g, i)] <= r[g] \div 2
  BY DEF Above, Below
<1>1. Raw[g][i] % n \in 0..n - 1 /\ Counter(g, i) \in 0..15
  BY Zenon, CellThere
<1>2. t[Raw[g][i] % n][Counter(g, i)] \in 0..15 /\ r[g] \in 0..15
  BY Zenon, <1>1
<1>3. /\ t[Raw[g][i] % n][Counter(g, i)] >= r[g]
      /\ Single(n, g, i) => t[Raw[g][i] % n][Counter(g, i)] <= r[g]
  BY Zenon DEF Above, Below
<1>4. halved(t)[Raw[g][i] % n][Counter(g, i)] = t[Raw[g][i] % n][Counter(g, i)] \div 2
  BY Zenon, <1>1 DEF halved
<1>5. \A x, y \in 0..15 : x >= y => x \div 2 >= y \div 2
  OBVIOUS
<1> QED BY Zenon, <1>2, <1>3, <1>4, <1>5

(* increment, with the reset it may end with, keeps the invariant.         *)
LEMMA IncrementKeeps ==
    ASSUME IInv, NEW h \in Hashes, increment(h)
    PROVE  IInv'
<1> DEFINE t == Bumped(h)
           r == [ref EXCEPT ![h] = Smaller(@ + 1, 15)]
<1>1. Made /\ ref \in [Hashes -> 0..15]
  BY DEF IInv, increment
<1>2. r \in [Hashes -> 0..15]
  BY <1>1 DEF Smaller
<1>3. t \in [0..table_size - 1 -> [0..15 -> 0..15]] /\ halved(t) \in [0..table_size - 1 -> [0..15 -> 0..15]]
  BY <1>1, WordsStay
<1>4. Above(t, table_size, r) /\ Below(t, table_size, r)
  BY Zenon, <1>1, BumpKeeps, BumpIsExact
<1>5. table_size' = table_size /\ table_size \in Nat \ {0}
  BY <1>1 DEF increment, Made
<1>6. \/ table' = t /\ ref' = r
      \/ table' = halved(t) /\ ref' = [g \in Hashes |-> r[g] \div 2]
  BY DEF increment, reset
<1> HIDE DEF t, r
<1>7. CASE table' = t /\ ref' = r
  BY Zenon, <1>2, <1>3, <1>4, <1>5, <1>7 DEF IInv, Made, Above, Below, Single, Counter
<1>8. CASE table' = halved(t) /\ ref' = [g \in Hashes |-> r[g] \div 2]
  <2>1. /\ Above(halved(t), table_size, [g \in Hashes |-> r[g] \div 2])
        /\ Below(halved(t), table_size, [g \in Hashes |-> r[g] \div 2])
    BY Zenon, <1>2, <1>3, <1>4, <1>5, HalvingKeeps
  <2>2. [g \in Hashes |-> r[g] \div 2] \in [Hashes -> 0..15]
    BY <1>2
  <2> QED BY Zenon, <1>3, <1>5, <1>8, <2>1, <2>2 DEF IInv, Made, Above, Below, Single, Counter
<1> QED BY <1>6, <1>7, <1>8

(* The estimate is one of the counters, and no counter is less.            *)
LEMMA LeastCounter ==
    ASSUME Made, table # <<>>, NEW h \in Hashes
    PROVE  /\ \E i \in 0..3 : frequency(h) = table[Raw[h][i] % table_size][Counter(h, i)]
           /\ \A i \in 0..3 : frequency(h) <= table[Raw[h][i] % table_size][Counter(h, i)]
<1> DEFINE At(i) == table[Raw[h][i] % table_size][Counter(h, i)]
<1>1. \A i \in 0..3 : At(i) \in 0..15
  <2> SUFFICES ASSUME NEW i \in 0..3 PROVE At(i) \in 0..15
    BY Zenon
  <2>1. Raw[h][i] % table_size \in 0..table_size - 1 /\ Counter(h, i) \in 0..15
    BY Zenon, CellThere DEF Made
  <2> QED BY Zenon, <2>1 DEF Made
<1>2. Counts(h) = {At(i) : i \in 0..3}
  BY DEF Counts, index_of
<1>3. \E n \in Counts(h) : \A m \in Counts(h) : n <= m
  <2>1. Counts(h) = {At(0), At(1), At(2), At(3)}
    BY <1>2
  <2> HIDE DEF At
  <2>2. At(0) \in 0..15 /\ At(1) \in 0..15 /\ At(2) \in 0..15 /\ At(3) \in 0..15
    BY <1>1
  <2>3. \A a, b \in 0..15 : \E n \in {a, b} : n \in 0..15 /\ n <= a /\ n <= b
    OBVIOUS
  <2>4. PICK x \in {At(0), At(1)} : x \in 0..15 /\ x <= At(0) /\ x <= At(1)
    BY <2>2, <2>3
  <2>5. PICK y \in {At(2), At(3)} : y \in 0..15 /\ y <= At(2) /\ y <= At(3)
    BY <2>2, <2>3
  <2>6. PICK n \in {x, y} : n \in 0..15 /\ n <= x /\ n <= y
    BY <2>3, <2>4, <2>5
  <2>a. \A a, b, c \in 0..15 : a <= b /\ b <= c => a <= c
    OBVIOUS
  <2>b. n <= At(0) /\ n <= At(1)
    BY Zenon, <2>2, <2>4, <2>6, <2>a
  <2>c. n <= At(2) /\ n <= At(3)
    BY Zenon, <2>2, <2>5, <2>6, <2>a
  <2>7. n <= At(0) /\ n <= At(1) /\ n <= At(2) /\ n <= At(3)
    BY <2>b, <2>c
  <2>8. n \in Counts(h)
    BY <2>1, <2>4, <2>5, <2>6
  <2> QED BY <2>1, <2>7, <2>8
<1>4. frequency(h) \in Counts(h) /\ \A m \in Counts(h) : frequency(h) <= m
  BY <1>3 DEF frequency
<1>5. /\ \E i \in 0..3 : frequency(h) = At(i)
      /\ \A i \in 0..3 : frequency(h) <= At(i)
  <2> HIDE DEF At
  <2> QED BY <1>2, <1>4
<1> QED BY Zenon, <1>5

(* What the invariant says of all counters holds of the estimate.          *)
LEMMA Enough == IInv => NeverUnder /\ ExactIfAlone
<1> SUFFICES ASSUME IInv, NEW h \in Hashes
             PROVE  /\ frequency(h) >= ref[h]
                    /\ table # <<>> /\ (\E i \in 0..3 : Alone(h, i)) => frequency(h) <= ref[h]
  BY DEF NeverUnder, ExactIfAlone
<1>1. CASE table = <<>>
  <2>1. ~Made
    BY <1>1, MadeIsNotEmpty
  <2> QED BY <1>1, <2>1 DEF IInv, frequency
<1>2. CASE table # <<>>
  <2> DEFINE At(i) == table[Raw[h][i] % table_size][Counter(h, i)]
  <2>1. Made /\ ref[h] \in 0..15
    BY <1>2 DEF IInv
  <2>2. \A i \in 0..3 : At(i) \in 0..15 /\ At(i) >= ref[h]
    <3> SUFFICES ASSUME NEW i \in 0..3 PROVE At(i) \in 0..15 /\ At(i) >= ref[h]
      OBVIOUS
    <3>1. Raw[h][i] % table_size \in 0..table_size - 1 /\ Counter(h, i) \in 0..15
      BY Zenon, <2>1, CellThere DEF Made
    <3> QED BY Zenon, <2>1, <3>1 DEF Made, Above
  <2>3. \A i \in 0..3 : Alone(h, i) => At(i) <= ref[h]
    <3> SUFFICES ASSUME NEW i \in 0..3, Alone(h, i) PROVE At(i) <= ref[h]
      OBVIOUS
    <3>1. Single(table_size, h, i)
      BY DEF Alone, Single, index_of
    <3> QED BY Zenon, <2>1, <3>1 DEF Made, Below
  <2>4. /\ \E i \in 0..3 : frequency(h) = At(i)
        /\ \A i \in 0..3 : frequency(h) <= At(i)
    BY <1>2, <2>1, LeastCounter
  <2> HIDE DEF At
  <2>5. PICK i \in 0..3 : frequency(h) = At(i)
    BY <2>4
  <2>6. frequency(h) \in 0..15 /\ frequency(h) >= ref[h]
    BY <2>2, <2>5
  <2>7. ASSUME NEW j \in 0..3, Alone(h, j) PROVE frequency(h) <= ref[h]
    <3>1. At(j) <= ref[h] /\ frequency(h) <= At(j) /\ At(j) \in 0..15
      BY <2>2, <2>3, <2>4, <2>7
    <3> QED BY <2>1, <2>6, <3>1
  <2> QED BY <2>6, <2>7
<1> QED BY <1>1, <1>2

(* The invariant holds whatever elements come and whenever the table is    *)
(* made anew.                                                              *)
LEMMA SketchInvariant == Spec => []IInv
<1>1. Init => IInv
  BY DEF Init, IInv
<1>2. IInv /\ [Next]_vars => IInv'
  <2> SUFFICES ASSUME IInv, [Next]_vars PROVE IInv'
    OBVIOUS
  <2>1. CASE UNCHANGED vars
    BY Zenon, <2>1 DEF vars, IInv, Made, Above, Below, Single, Counter
  <2>2. ASSUME NEW cap \in Caps, ensure_capacity(cap) PROVE IInv'
    BY <2>2, EnsureKeeps
  <2>3. ASSUME NEW h \in Hashes, Comes(h) PROVE IInv'
    BY <2>3, IncrementKeeps DEF Comes
  <2> QED BY <2>1, <2>2, <2>3 DEF Next
<1> QED BY <1>1, <1>2, PTL DEF Spec

(* The estimate of an element is never less than the number of times it    *)
(* came, at most 15 and halved with the rest: increment, reset and         *)
(* ensure_capacity of FrequencySketch, for all indexes.                    *)
THEOREM SketchNeverUnder == Spec => []NeverUnder
  BY SketchInvariant, Enough, PTL

(* Both promises of the estimate: it never loses an occurrence, and counts *)
(* none twice for an element one of whose counters is its own.  Saturation *)
(* and the halving by reset keep them.                                     *)
THEOREM SketchEstimates == Spec => []Estimates
<1>1. NeverUnder /\ ExactIfAlone => Estimates
  BY DEF Estimates
<1> QED BY <1>1, SketchInvariant, Enough, PTL
=============================================================================

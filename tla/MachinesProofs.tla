---------------------------- MODULE MachinesProofs ----------------------------
(***************************************************************************)
(* The machines of grail that the verification bucket of MyProposal is     *)
(* made of, for all words: what +=, fltofm(), fmtofl() and                 *)
(* member_of_language() do to the language a machine accepts, and that     *)
(* MachineBucket, called one at a time, is therefore a bucket of one-time  *)
(* words.                                                                  *)
(*                                                                         *)
(* The arcs of such a machine lead from lower states to higher ones.  So   *)
(* its runs are shorter than it has states, none of their states is lost   *)
(* when only useful ones are kept, and the words it lists are all it       *)
(* accepts.  What an operation does to the language is shown letter by     *)
(* letter: to which states a longer word leads follows from where the word *)
(* without its last letter leads.                                          *)
(*                                                                         *)
(* And the adapter, for all machines in files and all sequences of calls:  *)
(* what its class DFA holds is deterministic.                              *)
(***************************************************************************)
EXTENDS MachineBucket, Adapter, SequenceTheorems, FiniteSetTheorems, NaturalsInduction,
        WellFoundedInduction, TLAPS

(* A set of naturals has a least element, and a greatest if it is bounded.   *)
LEMMA LeastOfNaturals ==
    ASSUME NEW T \in SUBSET Nat, T # {}
    PROVE  \E x \in T : \A y \in T : x <= y
<1>1. \E x \in T : \A y \in T : ~ (<<y, x>> \in OpToRel(<, Nat))
  BY NatLessThanWellFounded, WFMin, Zenon
<1>2. ASSUME NEW x \in Nat, NEW y \in Nat, x < y PROVE <<x, y>> \in OpToRel(<, Nat)
  <2>1. <<x, y>> \in Nat \X Nat /\ <<x, y>>[1] = x /\ <<x, y>>[2] = y
    OBVIOUS
  <2> QED
    BY <1>2, <2>1, Zenon DEF OpToRel
<1>3. \E x \in T : \A y \in T : ~ (y < x)
  BY <1>1, <1>2, Zenon
<1> QED
  BY <1>3

(* Of naturals up to b, the greatest is one of them and not exceeded.        *)
LEMMA MaxOfNaturals ==
    ASSUME NEW T \in SUBSET Nat, T # {}, NEW b \in Nat, \A x \in T : x <= b
    PROVE  Max(T) \in T /\ \A y \in T : y <= Max(T)
<1> DEFINE E == { b - x : x \in T }
<1>1. E \in SUBSET Nat /\ E # {}
  <2>1. \A x \in T : b - x \in Nat
    OBVIOUS
  <2> QED
    BY <2>1
<1>2. PICK d \in E : \A e \in E : d <= e
  BY <1>1, LeastOfNaturals
<1>3. PICK x \in T : d = b - x
  OBVIOUS
<1>4. \A y \in T : x >= y
  BY <1>2, <1>3
<1>5. Max(T) \in T /\ \A y \in T : Max(T) >= y
  BY <1>4 DEF Max
<1> QED
  BY <1>5

(* Numbers that rise from each place to the next rise from any to any later. *)
LEMMA RisingNumbers ==
    ASSUME NEW k \in Nat, NEW g \in [0 .. k -> Int], \A i \in 1 .. k : g[i - 1] < g[i]
    PROVE  \A i, j \in 0 .. k : i < j => g[i] < g[j]
<1> DEFINE Bad == { j \in 0 .. k : \E i \in 0 .. k : i < j /\ ~ (g[i] < g[j]) }
<1>1. Bad = {}
  <2> SUFFICES ASSUME Bad # {} PROVE FALSE
    OBVIOUS
  <2>1. Bad \in SUBSET Nat
    OBVIOUS
  <2>2. PICK j \in Bad : \A x \in Bad : j <= x
    BY <2>1, LeastOfNaturals
  <2>3. PICK i \in 0 .. k : i < j /\ ~ (g[i] < g[j])
    BY <2>2
  <2>4. j \in 1 .. k /\ j - 1 \in 0 .. k /\ ~ (j <= j - 1) /\ (i = j - 1 \/ i < j - 1)
    BY <2>2, <2>3
  <2>5. j - 1 \notin Bad
    BY <2>2, <2>4
  <2>6. g[i] = g[j - 1] \/ g[i] < g[j - 1]
    BY <2>4, <2>5
  <2>7. g[j - 1] < g[j] /\ g[i] \in Int /\ g[j - 1] \in Int /\ g[j] \in Int
    BY <2>4
  <2>8. \A a, b, c \in Int : b < c /\ (a = b \/ a < b) => a < c
    OBVIOUS
  <2>9. g[i] < g[j]
    BY <2>6, <2>7, <2>8
  <2> QED
    BY <2>3, <2>9
<1> QED
  BY <1>1

(* A function on the naturals that is given step by step.                    *)
IsIteration(f, a, g) == f[0] = a /\ \A i \in Nat : f[i + 1] = g[<<i, f[i]>>]

(* A function given by its first value and its steps exists.                 *)
LEMMA Iterations ==
    ASSUME NEW S, NEW a \in S, NEW g \in [Nat \X S -> S]
    PROVE  \E f \in [Nat -> S] : IsIteration(f, a, g)
<1> DEFINE Part(h, k) == /\ h \in [0 .. k -> S] /\ h[0] = a
                         /\ \A i \in 1 .. k : h[i] = g[<<i - 1, h[i - 1]>>]
           Bad == { k \in Nat : ~ \E h : Part(h, k) }
<1>1. Bad = {}
  <2> SUFFICES ASSUME Bad # {} PROVE FALSE
    OBVIOUS
  <2>1. Bad \in SUBSET Nat
    OBVIOUS
  <2> HIDE DEF Bad
  <2>2. PICK k \in Bad : \A x \in Bad : k <= x
    BY <2>1, LeastOfNaturals
  <2>3. k \in Nat /\ ~ \E h : Part(h, k)
    BY <2>2 DEF Bad
  <2>4. CASE k = 0
    <3> DEFINE h == [i \in 0 .. 0 |-> a]
    <3>1. h \in [0 .. 0 -> S] /\ h[0] = a /\ 1 .. 0 = {}
      OBVIOUS
    <3> HIDE DEF h
    <3>2. Part(h, k)
      BY <2>4, <3>1
    <3> QED
      BY <2>3, <3>2
  <2>5. CASE k # 0
    <3>1. k - 1 \in Nat /\ ~ (k <= k - 1)
      BY <2>3, <2>5
    <3>2. PICK h : Part(h, k - 1)
      BY <2>2, <3>1 DEF Bad
    <3>3. k - 1 \in 0 .. k - 1 /\ <<k - 1, h[k - 1]>> \in Nat \X S
      BY <3>1, <3>2
    <3> DEFINE n == [i \in 0 .. k |-> IF i = k THEN g[<<k - 1, h[k - 1]>>] ELSE h[i]]
    <3>4. n \in [0 .. k -> S]
      <4>1. ASSUME NEW i \in 0 .. k, i # k PROVE h[i] \in S
        <5>1. i \in 0 .. k - 1
          BY <2>3, <4>1
        <5> QED
          BY <3>2, <5>1
      <4>2. g[<<k - 1, h[k - 1]>>] \in S
        BY <3>3
      <4> QED
        BY <4>1, <4>2
    <3>5. n[0] = a
      BY <2>3, <2>5, <3>2
    <3>6. ASSUME NEW i \in 1 .. k PROVE n[i] = g[<<i - 1, n[i - 1]>>]
      <4>1. i \in 0 .. k /\ i - 1 \in 0 .. k /\ i - 1 # k
        BY <2>3
      <4>2. n[i - 1] = h[i - 1]
        BY <4>1
      <4>3. CASE i = k
        BY <4>1, <4>2, <4>3
      <4>4. CASE i # k
        <5>1. i \in 1 .. k - 1
          BY <2>3, <4>4
        <5> QED
          BY <3>2, <4>1, <4>2, <4>4, <5>1
      <4> QED
        BY <4>3, <4>4
    <3> HIDE DEF n
    <3>7. Part(n, k)
      BY <3>4, <3>5, <3>6
    <3> QED
      BY <2>3, <3>7
  <2> QED
    BY <2>4, <2>5
<1>2. ASSUME NEW j \in Nat, NEW k \in Nat, j <= k, NEW h, NEW n, Part(h, j), Part(n, k)
      PROVE  \A i \in 0 .. j : h[i] = n[i]
  <2> DEFINE Off == { i \in 0 .. j : h[i] # n[i] }
  <2> SUFFICES ASSUME Off # {} PROVE FALSE
    OBVIOUS
  <2>1. Off \in SUBSET Nat
    OBVIOUS
  <2>2. PICK i \in Off : \A x \in Off : i <= x
    BY <2>1, LeastOfNaturals
  <2>3. i \in 0 .. j /\ h[i] # n[i]
    BY <2>2
  <2>4. i # 0
    BY <1>2, <2>3
  <2>5. i \in 1 .. j /\ i \in 1 .. k /\ i - 1 \in 0 .. j /\ ~ (i <= i - 1)
    BY <1>2, <2>3, <2>4
  <2>6. h[i - 1] = n[i - 1]
    BY <2>2, <2>5
  <2> QED
    BY <1>2, <2>3, <2>5, <2>6
<1> DEFINE P(k) == CHOOSE h : Part(h, k)
           f == [k \in Nat |-> P(k)[k]]
<1>3. ASSUME NEW k \in Nat PROVE Part(P(k), k)
  <2>1. \E h : Part(h, k)
    BY <1>1
  <2> HIDE DEF Part
  <2> QED
    BY <2>1
<1> HIDE DEF P
<1>4. f \in [Nat -> S]
  <2>1. ASSUME NEW k \in Nat PROVE P(k)[k] \in S
    <3>1. Part(P(k), k) /\ k \in 0 .. k
      BY <1>3
    <3> QED
      BY <3>1
  <2> QED
    BY <2>1
<1>5. f[0] = a
  <2>1. Part(P(0), 0)
    BY <1>3
  <2> QED
    BY <2>1
<1>6. ASSUME NEW i \in Nat PROVE f[i + 1] = g[<<i, f[i]>>]
  <2>1. PICK q \in Nat : q = i + 1
    OBVIOUS
  <2>2. Part(P(q), q) /\ Part(P(i), i)
    BY <1>3
  <2>3. q \in 1 .. q /\ q - 1 = i /\ i \in 0 .. i /\ i <= q
    BY <2>1
  <2>4. P(q)[q] = g[<<i, P(q)[i]>>]
    BY <2>2, <2>3
  <2>5. P(i)[i] = P(q)[i]
    <3> HIDE DEF Part
    <3>1. \A x \in 0 .. i : P(i)[x] = P(q)[x]
      BY <1>2, <2>2, <2>3
    <3> QED
      BY <2>3, <3>1
  <2>6. f[q] = P(q)[q] /\ f[i] = P(i)[i]
    OBVIOUS
  <2> QED
    BY <2>1, <2>4, <2>5, <2>6
<1> HIDE DEF f
<1> QED
  BY <1>4, <1>5, <1>6 DEF IsIteration

-----------------------------------------------------------------------------
(***************************************************************************)
(* Machines with states up to b, and their runs.                           *)
(***************************************************************************)
Bounded(m, b) ==
    m \in [start : SUBSET (0 .. b), final : SUBSET (0 .. b),
           arcs : SUBSET ((0 .. b) \X Int \X (0 .. b))]

(* Every arc leads to a higher state, or every arc to a lower one.           *)
Rising(m)  == \A t \in m.arcs : t[1] < t[3]
Falling(m) == \A t \in m.arcs : t[3] < t[1]

Run(m, f, w, k) == \A i \in 1 .. k : <<f[i - 1], w[i], f[i]>> \in m.arcs
Spells(m, s, w, u) == \E f : f[0] = s /\ f[Len(w)] = u /\ Run(m, f, w, Len(w))
Accepted(m) == { w \in Seq(Int) : \E s \in m.start, u \in m.final : Spells(m, s, w, u) }

(* What is known of the states of a machine whose states go up to b.         *)
LEMMA StatesBounded ==
    ASSUME NEW m, NEW b \in Nat, Bounded(m, b)
    PROVE  /\ states(m) \subseteq 0 .. b /\ labels(m) \subseteq Int
           /\ IsFiniteSet(states(m)) /\ number_of_states(m) \in Nat
           /\ max_state(m) \in 0 .. b /\ states(m) \subseteq 0 .. max_state(m)
           /\ \A t \in m.arcs : /\ t = <<t[1], t[2], t[3]>>
                                /\ t[1] \in states(m) /\ t[2] \in labels(m) /\ t[3] \in states(m)
           /\ m.start \subseteq states(m) /\ m.final \subseteq states(m)
<1>1. \A t \in m.arcs : t = <<t[1], t[2], t[3]>> /\ t[1] \in 0 .. b /\ t[2] \in Int /\ t[3] \in 0 .. b
  BY DEF Bounded
<1>2. /\ \A t \in m.arcs : t[1] \in states(m) /\ t[2] \in labels(m) /\ t[3] \in states(m)
      /\ m.start \subseteq states(m) /\ m.final \subseteq states(m)
  BY DEF states, labels
<1>3. states(m) \subseteq 0 .. b
  BY <1>1 DEF states, Bounded
<1>4. labels(m) \subseteq Int
  BY <1>1 DEF labels
<1>5. IsFiniteSet(states(m)) /\ number_of_states(m) \in Nat
  <2>1. IsFiniteSet(0 .. b)
    BY FS_Interval
  <2> QED
    BY <1>3, <2>1, FS_Subset, FS_CardinalityType DEF number_of_states
<1>6. max_state(m) \in 0 .. b /\ states(m) \subseteq 0 .. max_state(m)
  <2> DEFINE T == states(m) \cup {0}
  <2>1. T \in SUBSET Nat /\ T # {} /\ \A x \in T : x <= b
    BY <1>3
  <2>2. Max(T) \in T /\ \A y \in T : y <= Max(T)
    BY <2>1, MaxOfNaturals
  <2>3. max_state(m) = Max(T)
    BY DEF max_state
  <2> DEFINE x == Max(T)
  <2>4. x \in T /\ \A y \in T : y <= x
    BY <2>2
  <2>5. x \in 0 .. b
    BY <1>3, <2>4
  <2>6. states(m) \subseteq 0 .. x
    <3> HIDE DEF x
    <3> QED
      BY <1>3, <2>4, <2>5
  <2> QED
    BY <2>3, <2>5, <2>6
<1> QED
  BY <1>1, <1>2, <1>3, <1>4, <1>5, <1>6

(* A run of an ordered machine is shorter than it has states.                *)
LEMMA RunsAreShort ==
    ASSUME NEW m, NEW b \in Nat, Bounded(m, b), Rising(m) \/ Falling(m),
           NEW k \in Nat, NEW f, NEW w, f[0] \in states(m), Run(m, f, w, k)
    PROVE  /\ \A i \in 0 .. k : f[i] \in states(m)
           /\ k + 1 <= number_of_states(m)
<1>1. \A i \in 1 .. k : /\ f[i - 1] \in states(m) /\ f[i] \in states(m)
                        /\ Rising(m) => f[i - 1] < f[i]
                        /\ Falling(m) => f[i] < f[i - 1]
  <2> SUFFICES ASSUME NEW i \in 1 .. k
               PROVE  /\ f[i - 1] \in states(m) /\ f[i] \in states(m)
                      /\ Rising(m) => f[i - 1] < f[i]
                      /\ Falling(m) => f[i] < f[i - 1]
    OBVIOUS
  <2>1. PICK t \in m.arcs : t = <<f[i - 1], w[i], f[i]>>
    BY DEF Run
  <2>2. t[1] = f[i - 1] /\ t[3] = f[i]
    BY <2>1
  <2> QED
    BY <2>2, StatesBounded DEF Rising, Falling
<1>2. \A i \in 0 .. k : f[i] \in states(m)
  <2> SUFFICES ASSUME NEW i \in 0 .. k PROVE f[i] \in states(m)
    OBVIOUS
  <2>1. i = 0 \/ i \in 1 .. k
    OBVIOUS
  <2> QED
    BY <1>1, <2>1
<1>3. states(m) \subseteq Nat
  BY StatesBounded
<1> DEFINE h == [i \in 0 .. k |-> f[i]]
<1>4. h \in [0 .. k -> states(m)]
  BY <1>2
<1>5. ASSUME NEW i \in 0 .. k, NEW j \in 0 .. k, i < j PROVE h[i] # h[j]
  <2>1. CASE Rising(m)
    <3>1. h \in [0 .. k -> Int]
      BY <1>3, <1>4
    <3>2. ASSUME NEW x \in 1 .. k PROVE h[x - 1] < h[x]
      <4>1. x \in 0 .. k /\ x - 1 \in 0 .. k
        OBVIOUS
      <4> QED
        BY <1>1, <2>1, <4>1
    <3> HIDE DEF h
    <3>3. h[i] < h[j]
      BY <1>5, <3>1, <3>2, RisingNumbers
    <3>4. h[i] \in Int /\ h[j] \in Int
      BY <3>1
    <3> QED
      BY <3>3, <3>4
  <2>2. CASE Falling(m)
    <3> DEFINE n == [x \in 0 .. k |-> 0 - h[x]]
    <3>1. \A x \in 0 .. k : h[x] \in Int
      BY <1>3, <1>4
    <3>2. n \in [0 .. k -> Int]
      BY <3>1
    <3>3. ASSUME NEW x \in 1 .. k PROVE n[x - 1] < n[x]
      <4>1. x \in 0 .. k /\ x - 1 \in 0 .. k
        OBVIOUS
      <4>2. h[x] < h[x - 1]
        BY <1>1, <2>2, <4>1
      <4>3. h[x] \in Int /\ h[x - 1] \in Int
        BY <3>1, <4>1
      <4>4. n[x] = 0 - h[x] /\ n[x - 1] = 0 - h[x - 1]
        BY <4>1
      <4> HIDE DEF n, h
      <4> QED
        BY <4>2, <4>3, <4>4
    <3>4. n[i] = 0 - h[i] /\ n[j] = 0 - h[j]
      OBVIOUS
    <3> HIDE DEF n, h
    <3>5. n[i] < n[j]
      BY <1>5, <3>2, <3>3, RisingNumbers
    <3>6. h[i] \in Int /\ h[j] \in Int
      BY <3>1
    <3> QED
      BY <3>4, <3>5, <3>6
  <2> QED
    BY <2>1, <2>2
<1>6. h \in Injection(0 .. k, states(m))
  <2>1. \A i, j \in 0 .. k : h[i] = h[j] => i = j
    <3> SUFFICES ASSUME NEW i \in 0 .. k, NEW j \in 0 .. k, h[i] = h[j] PROVE i = j
      OBVIOUS
    <3> HIDE DEF h
    <3>1. ~ (i < j) /\ ~ (j < i)
      BY <1>5
    <3> QED
      BY <3>1
  <2> QED
    BY <1>4, <2>1 DEF Injection, IsInjective
<1>7. IsFiniteSet(states(m)) /\ number_of_states(m) = Cardinality(states(m)) /\ number_of_states(m) \in Nat
  BY StatesBounded DEF number_of_states
<1>8. Cardinality(0 .. k) <= Cardinality(states(m))
  BY <1>6, <1>7, FS_Injection
<1>9. Cardinality(0 .. k) = k + 1
  <2>1. 0 \in Int /\ k \in Int /\ ~ (0 > k)
    OBVIOUS
  <2>2. Cardinality(0 .. k) = k - 0 + 1
    BY <2>1, FS_Interval
  <2> QED
    BY <2>2
<1> QED
  BY <1>2, <1>7, <1>8, <1>9

(* The waves stop growing before there are more of them than states: what is *)
(* reached is closed under the arcs.                                         *)
LEMMA ReachedIsClosed ==
    ASSUME NEW m, NEW b \in Nat, Bounded(m, b)
    PROVE  /\ m.start \subseteq reachable_states(m)
           /\ reachable_states(m) \subseteq states(m)
           /\ \A t \in m.arcs : t[1] \in reachable_states(m) => t[3] \in reachable_states(m)
<1> DEFINE S == SUBSET states(m)
           On(T) == T \cup {t[3] : t \in {u \in m.arcs : u[1] \in T}}
           g == [x \in Nat \X S |-> On(x[2])]
           R(h) == h = [i \in Nat |-> IF i = 0 THEN m.start ELSE On(h[i - 1])]
           wave == CHOOSE h : R(h)
<1>1. m.start \in S /\ g \in [Nat \X S -> S] /\ \A T \in S : On(T) \in S
  <2>1. m.start \in S
    BY StatesBounded
  <2>2. ASSUME NEW T \in S PROVE On(T) \in S
    BY StatesBounded
  <2> HIDE DEF On, S
  <2> QED
    BY <2>1, <2>2
<1>2. \A i \in Nat, T \in S : g[<<i, T>>] = On(T)
  <2> HIDE DEF On, S
  <2> QED
    OBVIOUS
<1> HIDE DEF g, S
<1>3. PICK h \in [Nat -> S] : IsIteration(h, m.start, g)
  BY <1>1, Iterations
<1> HIDE DEF On
<1>4. R(h)
  <2>1. h[0] = m.start /\ \A i \in Nat : h[i + 1] = On(h[i])
    BY <1>2, <1>3 DEF IsIteration
  <2>2. ASSUME NEW i \in Nat PROVE h[i] = IF i = 0 THEN m.start ELSE On(h[i - 1])
    <3>1. CASE i = 0
      BY <2>1, <3>1
    <3>2. CASE i # 0
      <4>1. PICK j \in Nat : i = j + 1 /\ i - 1 = j
        <5>1. i - 1 \in Nat /\ i = (i - 1) + 1
          BY <3>2
        <5> QED
          BY <5>1
      <4> QED
        BY <2>1, <3>2, <4>1
    <3> QED
      BY <3>1, <3>2
  <2> QED
    BY <1>3, <2>2
<1>5. R(wave)
  BY <1>4
<1>6. reachable_states(m) = wave[number_of_states(m)]
  BY DEF reachable_states, On
<1> HIDE DEF wave
<1>7. wave[0] = m.start /\ \A i \in Nat : wave[i + 1] = On(wave[i])
  <2>1. wave[0] = m.start
    BY <1>5
  <2>2. ASSUME NEW i \in Nat PROVE wave[i + 1] = On(wave[i])
    <3>1. i + 1 \in Nat /\ i + 1 # 0 /\ (i + 1) - 1 = i
      OBVIOUS
    <3> QED
      BY <1>5, <3>1
  <2> QED
    BY <2>1, <2>2
<1> HIDE DEF R
<1> DEFINE n == number_of_states(m)
<1>8. n \in Nat /\ IsFiniteSet(states(m)) /\ n = Cardinality(states(m))
  BY StatesBounded DEF number_of_states
<1> HIDE DEF n
<1>9. \A i \in Nat : wave[i] \in S
  <2> DEFINE Bad == {i \in Nat : wave[i] \notin S}
  <2> SUFFICES ASSUME Bad # {} PROVE FALSE
    OBVIOUS
  <2>1. PICK j \in Bad : \A x \in Bad : j <= x
    BY LeastOfNaturals
  <2>2. j # 0
    BY <1>1, <1>7
  <2>3. PICK i \in Nat : j = i + 1
    <3>1. j - 1 \in Nat /\ j = (j - 1) + 1
      BY <2>2
    <3> QED
      BY <3>1
  <2>4. wave[i] \in S
    BY <2>1, <2>3
  <2> QED
    BY <1>1, <1>7, <2>1, <2>3, <2>4
<1>10. \A i \in Nat : /\ wave[i] \subseteq wave[i + 1] /\ wave[i] \subseteq states(m)
                      /\ IsFiniteSet(wave[i]) /\ Cardinality(wave[i]) \in 0 .. n
  <2> SUFFICES ASSUME NEW i \in Nat
               PROVE  /\ wave[i] \subseteq wave[i + 1] /\ wave[i] \subseteq states(m)
                      /\ IsFiniteSet(wave[i]) /\ Cardinality(wave[i]) \in 0 .. n
    OBVIOUS
  <2>1. wave[i] \subseteq wave[i + 1]
    BY <1>7 DEF On
  <2>2. wave[i] \in SUBSET states(m)
    BY <1>9 DEF S
  <2>3. IsFiniteSet(wave[i]) /\ Cardinality(wave[i]) <= n /\ Cardinality(wave[i]) \in Nat
    BY <1>8, <2>2, FS_Subset, FS_CardinalityType
  <2> QED
    BY <1>8, <2>1, <2>2, <2>3
<1>11. \E i \in 0 .. n : wave[i + 1] = wave[i]
  <2> SUFFICES ASSUME \A i \in 0 .. n : wave[i + 1] # wave[i] PROVE FALSE
    OBVIOUS
  <2>1. ASSUME NEW i \in 0 .. n PROVE Cardinality(wave[i]) < Cardinality(wave[i + 1])
    <3>1. i \in Nat /\ i + 1 \in Nat
      BY <1>8
    <3>2. wave[i] \subseteq wave[i + 1] /\ wave[i] # wave[i + 1] /\ IsFiniteSet(wave[i + 1])
      BY <1>10, <3>1
    <3>3. Cardinality(wave[i]) <= Cardinality(wave[i + 1]) /\ Cardinality(wave[i]) # Cardinality(wave[i + 1])
      BY <3>2, FS_Subset
    <3>4. Cardinality(wave[i]) \in Int /\ Cardinality(wave[i + 1]) \in Int
      BY <1>10, <3>1
    <3> QED
      BY <3>3, <3>4
  <2> DEFINE Bad == {i \in 0 .. n + 1 : ~ (Cardinality(wave[i]) >= i)}
  <2>2. Bad = {}
    <3> SUFFICES ASSUME Bad # {} PROVE FALSE
      OBVIOUS
    <3>1. Bad \in SUBSET Nat
      BY <1>8
    <3>2. PICK j \in Bad : \A x \in Bad : j <= x
      BY <3>1, LeastOfNaturals
    <3>3. j \in 0 .. n + 1 /\ ~ (Cardinality(wave[j]) >= j)
      BY <3>2
    <3>4. j # 0
      <4>1. Cardinality(wave[0]) \in 0 .. n
        BY <1>10
      <4> QED
        BY <1>8, <3>3, <4>1
    <3>5. PICK i \in 0 .. n : j = i + 1
      <4>1. j - 1 \in 0 .. n /\ j = (j - 1) + 1
        BY <1>8, <3>3, <3>4
      <4> QED
        BY <4>1
    <3>6. i \in 0 .. n + 1 /\ ~ (j <= i) /\ i \in Nat
      BY <1>8, <3>5
    <3>7. Cardinality(wave[i]) >= i
      BY <3>2, <3>6
    <3>8. Cardinality(wave[i]) < Cardinality(wave[j])
      BY <2>1, <3>5
    <3>9. Cardinality(wave[i]) \in Int /\ Cardinality(wave[j]) \in Int
      BY <1>8, <1>10, <3>1, <3>2, <3>6
    <3> QED
      BY <3>3, <3>5, <3>6, <3>7, <3>8, <3>9
  <2>3. n + 1 \in 0 .. n + 1 /\ n + 1 \in Nat
    BY <1>8
  <2>4. Cardinality(wave[n + 1]) >= n + 1
    BY <2>2, <2>3
  <2>5. Cardinality(wave[n + 1]) \in 0 .. n
    BY <1>10, <2>3
  <2> QED
    BY <1>8, <2>4, <2>5
<1>12. PICK i \in 0 .. n : wave[i + 1] = wave[i]
  BY <1>11
<1>13. wave[n] = wave[i]
  <2> DEFINE Bad == {j \in Nat : i <= j /\ wave[j] # wave[i]}
  <2>1. Bad = {}
    <3> SUFFICES ASSUME Bad # {} PROVE FALSE
      OBVIOUS
    <3>1. PICK j \in Bad : \A x \in Bad : j <= x
      BY LeastOfNaturals
    <3>2. j \in Nat /\ i <= j /\ wave[j] # wave[i] /\ i \in Nat
      BY <1>8, <3>1
    <3>3. j # i
      BY <3>2
    <3>4. PICK k \in Nat : j = k + 1 /\ i <= k /\ ~ (j <= k)
      <4>1. j - 1 \in Nat /\ j = (j - 1) + 1 /\ i <= j - 1 /\ ~ (j <= j - 1)
        BY <3>2, <3>3
      <4> QED
        BY <4>1
    <3>5. wave[k] = wave[i]
      BY <3>1, <3>4
    <3> QED
      BY <1>7, <1>12, <3>2, <3>4, <3>5
  <2>2. n \in Nat /\ i <= n
    BY <1>8
  <2> QED
    BY <2>1, <2>2
<1>14. On(wave[n]) = wave[n]
  BY <1>7, <1>8, <1>12, <1>13
<1>15. m.start \subseteq wave[n]
  <2> DEFINE Bad == {j \in Nat : ~ (m.start \subseteq wave[j])}
  <2>1. Bad = {}
    <3> SUFFICES ASSUME Bad # {} PROVE FALSE
      OBVIOUS
    <3>1. PICK j \in Bad : \A x \in Bad : j <= x
      BY LeastOfNaturals
    <3>2. j # 0
      BY <1>7, <3>1
    <3>3. PICK k \in Nat : j = k + 1 /\ ~ (j <= k)
      <4>1. j - 1 \in Nat /\ j = (j - 1) + 1 /\ ~ (j <= j - 1)
        BY <3>2
      <4> QED
        BY <4>1
    <3> QED
      BY <1>10, <3>1, <3>3
  <2> QED
    BY <1>8, <2>1
<1> QED
  BY <1>6, <1>8, <1>10, <1>14, <1>15 DEF n, On

(* What a run comes to is reached.                                           *)
LEMMA RunsAreReached ==
    ASSUME NEW m, NEW b \in Nat, Bounded(m, b),
           NEW k \in Nat, NEW f, NEW w, f[0] \in m.start, Run(m, f, w, k)
    PROVE  \A i \in 0 .. k : f[i] \in reachable_states(m)
<1> DEFINE Bad == {i \in 0 .. k : f[i] \notin reachable_states(m)}
<1> SUFFICES ASSUME Bad # {} PROVE FALSE
  OBVIOUS
<1>1. Bad \in SUBSET Nat
  OBVIOUS
<1>2. PICK j \in Bad : \A x \in Bad : j <= x
  BY <1>1, LeastOfNaturals
<1>3. j \in 0 .. k /\ f[j] \notin reachable_states(m)
  BY <1>2
<1>4. j # 0
  BY <1>3, ReachedIsClosed
<1>5. j \in 1 .. k /\ j - 1 \in 0 .. k /\ ~ (j <= j - 1)
  BY <1>3, <1>4
<1>6. f[j - 1] \in reachable_states(m)
  BY <1>2, <1>5
<1>7. PICK t \in m.arcs : t = <<f[j - 1], w[j], f[j]>>
  BY <1>5 DEF Run
<1>8. t[1] = f[j - 1] /\ t[3] = f[j]
  BY <1>7
<1> QED
  BY <1>3, <1>6, <1>8, ReachedIsClosed

-----------------------------------------------------------------------------
(***************************************************************************)
(* Words letter by letter.                                                 *)
(***************************************************************************)
LEMMA WordInduction ==
    ASSUME NEW T, <<>> \in T, \A v \in Seq(Int), x \in Int : v \in T => Append(v, x) \in T
    PROVE  Seq(Int) \subseteq T
<1> SUFFICES ASSUME NEW w \in Seq(Int), w \notin T PROVE FALSE
  OBVIOUS
<1> DEFINE Lens == { Len(v) : v \in Seq(Int) \ T }
<1>1. Lens \in SUBSET Nat /\ Lens # {}
  <2>1. Len(w) \in Lens
    OBVIOUS
  <2>2. \A v \in Seq(Int) : Len(v) \in Nat
    OBVIOUS
  <2> QED
    BY <2>1, <2>2
<1>2. PICK k \in Lens : \A j \in Lens : k <= j
  BY <1>1, LeastOfNaturals
<1>3. PICK v \in Seq(Int) \ T : Len(v) = k
  BY <1>2
<1>4. PICK u \in Seq(Int), x \in Int : v = Append(u, x)
  <2>1. v # <<>>
    BY <1>3
  <2> QED
    BY <1>3, <2>1, SequenceEmptyOrAppend
<1>5. Len(v) = Len(u) + 1 /\ Len(u) \in Nat
  BY <1>4, AppendProperties
<1>6. u \in T
  <2>1. u \notin T => Len(u) \in Lens
    OBVIOUS
  <2> HIDE DEF Lens
  <2> QED
    BY <1>2, <1>3, <1>5, <2>1
<1> QED
  BY <1>3, <1>4, <1>6

(* The word w leads to the state u.                                          *)
Leads(m, w, u) == \E s \in m.start : Spells(m, s, w, u)

(* The empty word leads to the start states.                                 *)
LEMMA LeadsAtOnce ==
    ASSUME NEW m, NEW u
    PROVE  Leads(m, <<>>, u) <=> u \in m.start
<1>1. Len(<<>>) = 0 /\ 1 .. 0 = {}
  OBVIOUS
<1>2. ASSUME u \in m.start PROVE Leads(m, <<>>, u)
  <2> DEFINE f == [i \in 0 .. 0 |-> u]
  <2>1. f[0] = u
    OBVIOUS
  <2> QED
    BY <1>1, <1>2, <2>1 DEF Leads, Spells, Run
<1> QED
  BY <1>1, <1>2 DEF Leads, Spells

(* A word leads on by its last letter.                                       *)
LEMMA LeadsByLetter ==
    ASSUME NEW m, NEW u, NEW v \in Seq(Int), NEW x \in Int
    PROVE  Leads(m, Append(v, x), u) <=> \E s : Leads(m, v, s) /\ <<s, x, u>> \in m.arcs
<1> DEFINE w == Append(v, x)
           k == Len(v)
<1>1. /\ Len(w) = k + 1 /\ k \in Nat /\ w[k + 1] = x
      /\ \A i \in 1 .. k : w[i] = v[i]
  BY AppendProperties
<1>2. PICK q \in Nat : q = k + 1
  BY <1>1
<1>3. Len(w) = q /\ w[q] = x /\ q - 1 = k /\ q \in 1 .. q /\ \A i \in 1 .. k : i \in 1 .. q
  BY <1>1, <1>2
<1> HIDE DEF w, k
<1>4. ASSUME Leads(m, w, u)
      PROVE  \E s : Leads(m, v, s) /\ <<s, x, u>> \in m.arcs
  <2>1. PICK f : f[0] \in m.start /\ f[q] = u /\ Run(m, f, w, q)
    BY <1>3, <1>4 DEF Leads, Spells
  <2>2. <<f[k], x, u>> \in m.arcs
    BY <1>3, <2>1 DEF Run
  <2>3. Run(m, f, v, k)
    BY <1>1, <1>3, <2>1 DEF Run
  <2>4. Leads(m, v, f[k])
    BY <2>1, <2>3 DEF Leads, Spells, k
  <2> QED
    BY <2>2, <2>4
<1>5. ASSUME NEW s, Leads(m, v, s), <<s, x, u>> \in m.arcs
      PROVE  Leads(m, w, u)
  <2>1. PICK f : f[0] \in m.start /\ f[k] = s /\ Run(m, f, v, k)
    BY <1>5 DEF Leads, Spells, k
  <2> DEFINE n == [i \in 0 .. q |-> IF i = q THEN u ELSE f[i]]
  <2>2. n[0] = f[0] /\ n[q] = u /\ n[k] = s
    BY <1>1, <1>2, <2>1
  <2>3. ASSUME NEW i \in 1 .. q PROVE <<n[i - 1], w[i], n[i]>> \in m.arcs
    <3>1. CASE i = q
      BY <1>3, <1>5, <2>2, <3>1
    <3>2. CASE i # q
      <4>1. i \in 1 .. k /\ i - 1 \in 0 .. q /\ i - 1 # q /\ i \in 0 .. q
        BY <1>1, <1>2, <3>2
      <4>2. n[i - 1] = f[i - 1] /\ n[i] = f[i] /\ w[i] = v[i]
        BY <1>1, <3>2, <4>1
      <4> QED
        BY <2>1, <4>1, <4>2 DEF Run
    <3> QED
      BY <3>1, <3>2
  <2> HIDE DEF n
  <2>4. Run(m, n, w, q)
    BY <2>3 DEF Run
  <2>5. Spells(m, n[0], w, u)
    BY <1>3, <2>2, <2>4 DEF Spells
  <2> QED
    BY <2>1, <2>2, <2>5 DEF Leads
<1> QED
  BY <1>4, <1>5 DEF w

(* A word is accepted that leads to a final state.                           *)
LEMMA AcceptedByLeading ==
    ASSUME NEW m
    PROVE  Accepted(m) = { w \in Seq(Int) : \E u \in m.final : Leads(m, w, u) }
BY DEF Accepted, Leads

(* The letters of a word that leads anywhere are labels.                     *)
LEMMA LeadsToStates ==
    ASSUME NEW m, NEW b \in Nat, Bounded(m, b), NEW w \in Seq(Int), NEW u, Leads(m, w, u)
    PROVE  /\ u \in states(m)
           /\ w \in Seq(labels(m))
           /\ Rising(m) => Len(w) + 1 <= number_of_states(m)
<1>1. PICK f : f[0] \in m.start /\ f[Len(w)] = u /\ Run(m, f, w, Len(w))
  BY DEF Leads, Spells
<1>2. f[0] \in states(m) /\ Len(w) \in Nat
  BY <1>1, StatesBounded
<1>3. \A i \in 1 .. Len(w) : f[i] \in states(m) /\ w[i] \in labels(m)
  <2> SUFFICES ASSUME NEW i \in 1 .. Len(w) PROVE f[i] \in states(m) /\ w[i] \in labels(m)
    OBVIOUS
  <2>1. PICK t \in m.arcs : t = <<f[i - 1], w[i], f[i]>>
    BY <1>1 DEF Run
  <2>2. t[2] = w[i] /\ t[3] = f[i]
    BY <2>1
  <2> QED
    BY <2>2, StatesBounded
<1>4. w \in Seq(labels(m))
  <2>1. \A i \in 1 .. Len(w) : w[i] \in labels(m)
    BY <1>3
  <2> HIDE DEF labels
  <2> QED
    BY <2>1, ElementOfSeq, IsASeq, LenProperties
<1>5. u \in states(m)
  <2>1. Len(w) = 0 \/ Len(w) \in 1 .. Len(w)
    BY <1>2
  <2> QED
    BY <1>1, <1>2, <1>3, <2>1
<1>6. Rising(m) => Len(w) + 1 <= number_of_states(m)
  BY <1>1, <1>2, RunsAreShort
<1> QED
  BY <1>4, <1>5, <1>6

-----------------------------------------------------------------------------
(***************************************************************************)
(* member_of_language() runs the machine on a word.                        *)
(***************************************************************************)
Follows(m, w, h) ==
    /\ h[0] = m.start
    /\ \A i \in 1 .. Len(w) : h[i] = SinksOn(m, h[i - 1], w[i])

(* The sets of states that member_of_language() goes through are those       *)
(* that the word, as far as it is read, leads to.                            *)
LEMMA FollowingLeads ==
    ASSUME NEW m, NEW b \in Nat, Bounded(m, b), NEW h
    PROVE  \A w \in Seq(Int) : Follows(m, w, h) => h[Len(w)] = {u \in states(m) : Leads(m, w, u)}
<1> DEFINE T == { w \in Seq(Int) : Follows(m, w, h) =>
                       h[Len(w)] = {u \in states(m) : Leads(m, w, u)} }
<1>1. <<>> \in T
  <2>1. m.start \subseteq states(m)
    BY StatesBounded
  <2>2. {u \in states(m) : Leads(m, <<>>, u)} = m.start
    BY <2>1, LeadsAtOnce
  <2> QED
    BY <2>2 DEF Follows
<1>2. ASSUME NEW v \in Seq(Int), NEW x \in Int, v \in T PROVE Append(v, x) \in T
  <2> DEFINE w == Append(v, x)
             k == Len(v)
  <2>1. /\ w \in Seq(Int) /\ Len(w) = k + 1 /\ k \in Nat /\ w[k + 1] = x
        /\ \A i \in 1 .. k : w[i] = v[i]
    BY AppendProperties
  <2>2. PICK q \in Nat : q = k + 1
    BY <2>1
  <2>3. Len(w) = q /\ w[q] = x /\ q - 1 = k /\ q \in 1 .. q /\ \A i \in 1 .. k : i \in 1 .. q
    BY <2>1, <2>2
  <2> HIDE DEF w
  <2> SUFFICES ASSUME Follows(m, w, h)
               PROVE  h[q] = {u \in states(m) : Leads(m, w, u)}
    BY <2>1, <2>3 DEF w
  <2>4. Follows(m, v, h)
    BY <2>1, <2>3 DEF Follows
  <2>5. h[k] = {u \in states(m) : Leads(m, v, u)}
    BY <1>2, <2>4
  <2>6. h[q] = SinksOn(m, h[k], x)
    BY <2>3 DEF Follows
  <2>7. ASSUME NEW u PROVE u \in h[q] <=> u \in states(m) /\ Leads(m, w, u)
    <3>1. u \in h[q] <=> \E t \in m.arcs : t[1] \in h[k] /\ t[2] = x /\ t[3] = u
      BY <2>6 DEF SinksOn
    <3>2. \A t \in m.arcs : t = <<t[1], t[2], t[3]>> /\ t[1] \in states(m) /\ t[3] \in states(m)
      BY StatesBounded
    <3>3. (\E s : Leads(m, v, s) /\ <<s, x, u>> \in m.arcs) <=> Leads(m, w, u)
      BY LeadsByLetter DEF w
    <3>4. ASSUME NEW t \in m.arcs, t[1] \in h[k], t[2] = x, t[3] = u
          PROVE  u \in states(m) /\ \E s : Leads(m, v, s) /\ <<s, x, u>> \in m.arcs
      BY <2>5, <3>2, <3>4
    <3>5. ASSUME NEW s, Leads(m, v, s), <<s, x, u>> \in m.arcs
          PROVE  \E t \in m.arcs : t[1] \in h[k] /\ t[2] = x /\ t[3] = u
      <4>1. s \in states(m)
        BY <3>2, <3>5
      <4>2. s \in h[k]
        BY <2>5, <3>5, <4>1
      <4> QED
        BY <3>5, <4>2
    <3> QED
      BY <3>1, <3>3, <3>4, <3>5
  <2> QED
    BY <2>7
<1>3. Seq(Int) \subseteq T
  <2> HIDE DEF T
  <2> QED
    BY <1>1, <1>2, WordInduction
<1> QED
  BY <1>3

(* member_of_language() says of every word whether the machine accepts it.   *)
LEMMA MembersAreAccepted ==
    ASSUME NEW m, NEW b \in Nat, Bounded(m, b), NEW w \in Seq(Int)
    PROVE  member_of_language(m, w) <=> w \in Accepted(m)
<1> DEFINE S == SUBSET (0 .. b)
           n == Len(w)
           g == [p \in Nat \X S |-> SinksOn(m, p[2], w[p[1] + 1])]
           R(h) == h = [i \in 0 .. n |-> IF i = 0 THEN m.start ELSE SinksOn(m, h[i - 1], w[i])]
           run == CHOOSE h : R(h)
<1>1. m.start \in S /\ g \in [Nat \X S -> S]
  <2>1. m.start \in S
    BY DEF Bounded
  <2>2. ASSUME NEW U, NEW x PROVE SinksOn(m, U, x) \in S
    BY DEF Bounded, SinksOn
  <2> HIDE DEF S
  <2> QED
    BY <2>1, <2>2
<1>2. \A i \in Nat, U \in S : g[<<i, U>>] = SinksOn(m, U, w[i + 1])
  <2> HIDE DEF S
  <2> QED
    OBVIOUS
<1> HIDE DEF g, S
<1>3. PICK f \in [Nat -> S] : IsIteration(f, m.start, g)
  BY <1>1, Iterations
<1>4. f[0] = m.start /\ \A i \in Nat : f[i + 1] = SinksOn(m, f[i], w[i + 1])
  BY <1>2, <1>3 DEF IsIteration
<1> DEFINE h == [i \in 0 .. n |-> f[i]]
<1>n. n \in Nat
  OBVIOUS
<1>5. R(h)
  <2> SUFFICES ASSUME NEW i \in 0 .. n
               PROVE  f[i] = IF i = 0 THEN m.start ELSE SinksOn(m, h[i - 1], w[i])
    BY Zenon
  <2>1. CASE i = 0
    BY <1>4, <2>1
  <2>2. CASE i # 0
    <3>1. PICK j \in Nat : i = j + 1 /\ i - 1 = j /\ j \in 0 .. n
      <4>1. i - 1 \in Nat /\ i = (i - 1) + 1 /\ i - 1 \in 0 .. n
        BY <1>n, <2>2
      <4> QED
        BY <4>1
    <3>2. h[j] = f[j]
      BY <3>1
    <3> HIDE DEF n, h
    <3> QED
      BY <1>4, <2>2, <3>1, <3>2
  <2> QED
    BY <2>1, <2>2
<1> HIDE DEF h
<1>6. R(run)
  BY <1>5
<1>7. member_of_language(m, w) <=> run[n] \cap m.final # {}
  BY DEF member_of_language
<1> HIDE DEF run
<1>8. Follows(m, w, run)
  <2>1. run[0] = m.start
    BY <1>6, <1>n
  <2>2. ASSUME NEW i \in 1 .. n PROVE run[i] = SinksOn(m, run[i - 1], w[i])
    <3>1. i \in 0 .. n /\ i # 0
      BY <1>n
    <3> HIDE DEF n
    <3> QED
      BY <1>6, <3>1
  <2> QED
    BY <2>1, <2>2 DEF Follows
<1>9. run[n] = {u \in states(m) : Leads(m, w, u)}
  BY <1>8, FollowingLeads
<1>10. m.final \subseteq states(m)
  BY StatesBounded
<1> QED
  BY <1>7, <1>9, <1>10, AcceptedByLeading

-----------------------------------------------------------------------------
(***************************************************************************)
(* What is left of a machine when only useful states are kept: all its     *)
(* accepting runs.                                                         *)
(***************************************************************************)
AcceptingRun(m, f, w, k) == f[0] \in m.start /\ f[k] \in m.final /\ Run(m, f, w, k)

(* A machine that lost states and instructions.                              *)
Within(n, m) == n.start \subseteq m.start /\ n.final \subseteq m.final /\ n.arcs \subseteq m.arcs

(* reachable_fm() keeps every accepting run and adds nothing.                *)
LEMMA ReachablePart ==
    ASSUME NEW m, NEW b \in Nat, Bounded(m, b)
    PROVE  LET n == reachable_fm(m)
           IN  /\ Bounded(n, b) /\ Within(n, m)
               /\ Rising(m) => Rising(n)
               /\ Falling(m) => Falling(n)
               /\ \A k \in Nat : \A f, w : AcceptingRun(m, f, w, k) => AcceptingRun(n, f, w, k)
<1> DEFINE n == reachable_fm(m)
           Re == reachable_states(m)
<1>1. ASSUME NEW S1, NEW S2, NEW S3, NEW q \in [start : S1, final : S2, arcs : S3],
             NEW G \in S2, NEW B \in S3
      PROVE  LET r == [q EXCEPT !.final = G, !.arcs = B]
             IN  /\ r \in [start : S1, final : S2, arcs : S3]
                 /\ r.start = q.start /\ r.final = G /\ r.arcs = B
  <2> DEFINE r == [q EXCEPT !.final = G]
  <2>1. r \in [start : S1, final : S2, arcs : S3] /\ r.start = q.start /\ r.final = G
    OBVIOUS
  <2> HIDE DEF r
  <2> DEFINE p == [r EXCEPT !.arcs = B]
  <2>2. p \in [start : S1, final : S2, arcs : S3] /\ p.start = r.start /\ p.final = r.final /\ p.arcs = B
    BY <2>1
  <2> QED
    BY <2>1, <2>2 DEF r
<1>2. /\ Bounded(n, b)
      /\ n.start = m.start /\ n.final = m.final \cap Re /\ n.arcs = {t \in m.arcs : t[1] \in Re /\ t[3] \in Re}
  <2>3. n = [m EXCEPT !.final = m.final \cap Re, !.arcs = {t \in m.arcs : t[1] \in Re /\ t[3] \in Re}]
    BY DEF reachable_fm
  <2>4. /\ m.final \cap Re \in SUBSET (0 .. b)
        /\ {t \in m.arcs : t[1] \in Re /\ t[3] \in Re} \in SUBSET ((0 .. b) \X Int \X (0 .. b))
    BY DEF Bounded
  <2> HIDE DEF n, Re
  <2> QED
    BY <1>1, <2>3, <2>4 DEF Bounded
<1> HIDE DEF n, Re
<1>3. Within(n, m)
  BY <1>2 DEF Within
<1>5. (Rising(m) => Rising(n)) /\ (Falling(m) => Falling(n))
  BY <1>3 DEF Within, Rising, Falling
<1>6. ASSUME NEW k \in Nat, NEW f, NEW w, AcceptingRun(m, f, w, k)
      PROVE  AcceptingRun(n, f, w, k)
  <2>1. f[0] \in m.start /\ f[k] \in m.final /\ Run(m, f, w, k)
    BY <1>6 DEF AcceptingRun
  <2>5. \A i \in 0 .. k : f[i] \in Re
    BY <2>1, RunsAreReached DEF Re
  <2>6. f[k] \in n.final /\ f[0] \in n.start
    BY <1>2, <2>1, <2>5
  <2>7. ASSUME NEW i \in 1 .. k PROVE <<f[i - 1], w[i], f[i]>> \in n.arcs
    <3>1. i \in 0 .. k /\ i - 1 \in 0 .. k
      OBVIOUS
    <3>2. <<f[i - 1], w[i], f[i]>> \in m.arcs
      BY <2>1 DEF Run
    <3>3. f[i] \in Re /\ f[i - 1] \in Re
      BY <2>5, <3>1
    <3> QED
      BY <1>2, <3>2, <3>3
  <2> QED
    BY <2>6, <2>7 DEF AcceptingRun, Run
<1> QED
  BY <1>2, <1>3, <1>5, <1>6 DEF n

(* reverse() turns every arc and every accepting run around.                 *)
LEMMA ReversedMachine ==
    ASSUME NEW m, NEW b \in Nat, Bounded(m, b)
    PROVE  LET n == reverse(m)
           IN  /\ Bounded(n, b)
               /\ n.start = m.final /\ n.final = m.start
               /\ \A s, x, u : <<s, x, u>> \in n.arcs <=> <<u, x, s>> \in m.arcs
               /\ Rising(m) => Falling(n)
               /\ Falling(m) => Rising(n)
               /\ \A k \in Nat : \A f, w : AcceptingRun(m, f, w, k) =>
                     AcceptingRun(n, [i \in 0 .. k |-> f[k - i]], [i \in 1 .. k |-> w[k + 1 - i]], k)
<1> DEFINE n == reverse(m)
<1>1. n = [start |-> m.final, final |-> m.start, arcs |-> {<<t[3], t[2], t[1]>> : t \in m.arcs}]
  BY DEF reverse
<1>2. n.start = m.final /\ n.final = m.start /\ n.arcs = {<<t[3], t[2], t[1]>> : t \in m.arcs}
  BY <1>1
<1> HIDE DEF n
<1>3. \A t \in m.arcs : t = <<t[1], t[2], t[3]>> /\ t[1] \in 0 .. b /\ t[2] \in Int /\ t[3] \in 0 .. b
  BY DEF Bounded
<1>4. Bounded(n, b)
  <2>1. n.arcs \subseteq (0 .. b) \X Int \X (0 .. b)
    BY <1>2, <1>3
  <2> QED
    BY <1>1, <1>2, <2>1 DEF Bounded
<1>5. ASSUME NEW s, NEW x, NEW u PROVE <<s, x, u>> \in n.arcs <=> <<u, x, s>> \in m.arcs
  <2>1. ASSUME <<s, x, u>> \in n.arcs PROVE <<u, x, s>> \in m.arcs
    <3>1. PICK t \in m.arcs : <<s, x, u>> = <<t[3], t[2], t[1]>>
      BY <1>2, <2>1
    <3>2. t = <<u, x, s>>
      BY <1>3, <3>1
    <3> QED
      BY <3>2
  <2>2. ASSUME <<u, x, s>> \in m.arcs PROVE <<s, x, u>> \in n.arcs
    <3>1. PICK t \in m.arcs : t = <<u, x, s>>
      BY <2>2
    <3>2. <<s, x, u>> = <<t[3], t[2], t[1]>>
      BY <3>1
    <3> QED
      BY <1>2, <3>2
  <2> QED
    BY <2>1, <2>2
<1>6. ASSUME NEW t \in n.arcs PROVE \E u \in m.arcs : t[1] = u[3] /\ t[3] = u[1]
  <2>1. PICK u \in m.arcs : t = <<u[3], u[2], u[1]>>
    BY <1>2
  <2> QED
    BY <2>1
<1>7. ASSUME Rising(m) PROVE Falling(n)
  <2> SUFFICES ASSUME NEW t \in n.arcs PROVE t[3] < t[1]
    BY DEF Falling
  <2>1. PICK u \in m.arcs : t[1] = u[3] /\ t[3] = u[1]
    BY <1>6
  <2> QED
    BY <1>7, <2>1 DEF Rising
<1>8. ASSUME Falling(m) PROVE Rising(n)
  <2> SUFFICES ASSUME NEW t \in n.arcs PROVE t[1] < t[3]
    BY DEF Rising
  <2>1. PICK u \in m.arcs : t[1] = u[3] /\ t[3] = u[1]
    BY <1>6
  <2> QED
    BY <1>8, <2>1 DEF Falling
<1>9. ASSUME NEW k \in Nat, NEW f, NEW w, AcceptingRun(m, f, w, k)
      PROVE  AcceptingRun(n, [i \in 0 .. k |-> f[k - i]], [i \in 1 .. k |-> w[k + 1 - i]], k)
  <2> DEFINE h == [i \in 0 .. k |-> f[k - i]]
             v == [i \in 1 .. k |-> w[k + 1 - i]]
  <2>1. h[0] = f[k] /\ h[k] = f[0]
    <3>1. 0 \in 0 .. k /\ k \in 0 .. k /\ k - 0 = k /\ k - k = 0
      OBVIOUS
    <3> QED
      BY <3>1
  <2>2. ASSUME NEW i \in 1 .. k PROVE <<h[i - 1], v[i], h[i]>> \in n.arcs
    <3>1. PICK j \in 1 .. k : j = k + 1 - i /\ k - i = j - 1 /\ k - (i - 1) = j
      <4>1. k + 1 - i \in 1 .. k /\ k - i = (k + 1 - i) - 1 /\ k - (i - 1) = k + 1 - i
        OBVIOUS
      <4> QED
        BY <4>1
    <3>2. i \in 0 .. k /\ i - 1 \in 0 .. k
      OBVIOUS
    <3>3. h[i - 1] = f[j] /\ h[i] = f[j - 1] /\ v[i] = w[j]
      BY <3>1, <3>2
    <3>4. <<f[j - 1], w[j], f[j]>> \in m.arcs
      BY <1>9, <3>1 DEF AcceptingRun, Run
    <3> QED
      BY <1>5, <3>3, <3>4
  <2> HIDE DEF h, v
  <2>3. AcceptingRun(n, h, v, k)
    BY <1>2, <1>9, <2>1, <2>2 DEF AcceptingRun, Run
  <2> QED
    BY <2>3 DEF h, v
<1> QED
  BY <1>2, <1>4, <1>5, <1>7, <1>8, <1>9 DEF n

(* A machine left with its useful states accepts the same words.             *)
LEMMA TrimmedAccepts ==
    ASSUME NEW m, NEW b \in Nat, Bounded(m, b)
    PROVE  /\ Bounded(Trimmed(m), b) /\ Accepted(Trimmed(m)) = Accepted(m)
           /\ Rising(m) => Rising(Trimmed(m))
<1> DEFINE n1 == reachable_fm(m)
           n2 == reverse(n1)
           n3 == reachable_fm(n2)
           t == reverse(n3)
<1>1. /\ Bounded(n1, b) /\ Within(n1, m) /\ (Rising(m) => Rising(n1))
      /\ \A k \in Nat : \A f, w : AcceptingRun(m, f, w, k) => AcceptingRun(n1, f, w, k)
  BY ReachablePart
<1> HIDE DEF n1
<1>2. /\ Bounded(n2, b) /\ (Rising(m) => Falling(n2)) /\ n2.start = n1.final /\ n2.final = n1.start
      /\ \A s, x, u : <<s, x, u>> \in n2.arcs <=> <<u, x, s>> \in n1.arcs
      /\ \A k \in Nat : \A f, w : AcceptingRun(n1, f, w, k) =>
              AcceptingRun(n2, [i \in 0 .. k |-> f[k - i]], [i \in 1 .. k |-> w[k + 1 - i]], k)
  BY <1>1, ReversedMachine
<1> HIDE DEF n2
<1>3. /\ Bounded(n3, b) /\ Within(n3, n2) /\ (Rising(m) => Falling(n3))
      /\ \A k \in Nat : \A f, w : AcceptingRun(n2, f, w, k) => AcceptingRun(n3, f, w, k)
  BY <1>2, ReachablePart
<1> HIDE DEF n3
<1>4. /\ Bounded(t, b) /\ (Rising(m) => Rising(t)) /\ t.start = n3.final /\ t.final = n3.start
      /\ \A s, x, u : <<s, x, u>> \in t.arcs <=> <<u, x, s>> \in n3.arcs
      /\ \A k \in Nat : \A f, w : AcceptingRun(n3, f, w, k) =>
              AcceptingRun(t, [i \in 0 .. k |-> f[k - i]], [i \in 1 .. k |-> w[k + 1 - i]], k)
  BY <1>3, ReversedMachine
<1> HIDE DEF t
<1>5. t = Trimmed(m)
  BY DEF Trimmed, t, n3, n2, n1
<1>6. t.start \subseteq m.start /\ t.final \subseteq m.final
  BY <1>1, <1>2, <1>3, <1>4 DEF Within
<1>7. ASSUME NEW s, NEW x, NEW u, <<s, x, u>> \in t.arcs PROVE <<s, x, u>> \in m.arcs
  BY <1>1, <1>2, <1>3, <1>4, <1>7 DEF Within
<1>8. ASSUME NEW w \in Accepted(t) PROVE w \in Accepted(m)
  <2>1. w \in Seq(Int) /\ \E s \in t.start, u \in t.final : Spells(t, s, w, u)
    BY DEF Accepted
  <2>2. PICK f : AcceptingRun(t, f, w, Len(w))
    BY <2>1 DEF Spells, AcceptingRun
  <2>3. AcceptingRun(m, f, w, Len(w))
    BY <1>6, <1>7, <2>2 DEF AcceptingRun, Run
  <2> QED
    BY <2>1, <2>3 DEF Accepted, Spells, AcceptingRun
<1>9. ASSUME NEW w \in Accepted(m) PROVE w \in Accepted(t)
  <2> DEFINE k == Len(w)
  <2>1. w \in Seq(Int) /\ k \in Nat /\ \E s \in m.start, u \in m.final : Spells(m, s, w, u)
    BY DEF Accepted
  <2>2. PICK f : AcceptingRun(m, f, w, k)
    BY <2>1 DEF Spells, AcceptingRun
  <2> HIDE DEF k
  <2> DEFINE f1 == [i \in 0 .. k |-> f[k - i]]
             w1 == [i \in 1 .. k |-> w[k + 1 - i]]
             f2 == [i \in 0 .. k |-> f1[k - i]]
             w2 == [i \in 1 .. k |-> w1[k + 1 - i]]
  <2>3. AcceptingRun(n3, f1, w1, k)
    <3>1. AcceptingRun(n1, f, w, k)
      BY <1>1, <2>1, <2>2
    <3>2. AcceptingRun(n2, f1, w1, k)
      BY <1>2, <2>1, <3>1
    <3> HIDE DEF f1, w1
    <3> QED
      BY <1>3, <2>1, <3>2
  <2>4. \A i \in 0 .. k : f2[i] = f[i]
    <3> SUFFICES ASSUME NEW i \in 0 .. k PROVE f2[i] = f[i]
      OBVIOUS
    <3>1. k - i \in 0 .. k /\ k - (k - i) = i
      BY <2>1
    <3> QED
      BY <3>1
  <2>5. \A i \in 1 .. k : w2[i] = w[i]
    <3> SUFFICES ASSUME NEW i \in 1 .. k PROVE w2[i] = w[i]
      OBVIOUS
    <3>1. k + 1 - i \in 1 .. k /\ k + 1 - (k + 1 - i) = i
      BY <2>1
    <3> QED
      BY <3>1
  <2>6. AcceptingRun(t, f2, w2, k)
    <3> HIDE DEF f1, w1
    <3> QED
      BY <1>4, <2>1, <2>3
  <2> HIDE DEF f2, w2
  <2>7. AcceptingRun(t, f, w, k)
    <3>1. 0 \in 0 .. k /\ k \in 0 .. k /\ \A i \in 1 .. k : i \in 0 .. k /\ i - 1 \in 0 .. k
      BY <2>1
    <3>2. f[0] \in t.start /\ f[k] \in t.final
      BY <2>4, <2>6, <3>1 DEF AcceptingRun
    <3>3. ASSUME NEW i \in 1 .. k PROVE <<f[i - 1], w[i], f[i]>> \in t.arcs
      <4>1. f2[i - 1] = f[i - 1] /\ f2[i] = f[i] /\ w2[i] = w[i]
        BY <2>4, <2>5, <3>1
      <4>2. <<f2[i - 1], w2[i], f2[i]>> \in t.arcs
        BY <2>6 DEF AcceptingRun, Run
      <4> QED
        BY <4>1, <4>2
    <3> QED
      BY <3>2, <3>3 DEF AcceptingRun, Run
  <2> QED
    BY <2>1, <2>7 DEF Accepted, Spells, AcceptingRun, k
<1>10. Accepted(t) = Accepted(m)
  BY <1>8, <1>9
<1> QED
  BY <1>4, <1>5, <1>10

-----------------------------------------------------------------------------
(***************************************************************************)
(* fmtofl() lists what the machine accepts.                                *)
(***************************************************************************)
WordsOf(t, b, i) == {p \in (0 .. b) \X Seq(Int) : Len(p[2]) = i /\ Leads(t, p[2], p[1])}

(* Longer() makes of the words of i letters those of one letter more.        *)
LEMMA LongerWords ==
    ASSUME NEW t, NEW b \in Nat, Bounded(t, b), NEW i \in Nat
    PROVE  Longer(t, WordsOf(t, b, i)) = WordsOf(t, b, i + 1)
<1>1. \A a \in t.arcs : a = <<a[1], a[2], a[3]>> /\ a[1] \in 0 .. b /\ a[2] \in Int /\ a[3] \in 0 .. b
  BY DEF Bounded
<1>2. ASSUME NEW q \in Longer(t, WordsOf(t, b, i)) PROVE q \in WordsOf(t, b, i + 1)
  <2>1. PICK p \in WordsOf(t, b, i), a \in t.arcs :
            a[1] = p[1] /\ q = <<a[3], Append(p[2], a[2])>>
    BY DEF Longer
  <2>2. p[2] \in Seq(Int) /\ Len(p[2]) = i /\ Leads(t, p[2], p[1])
    BY <2>1 DEF WordsOf
  <2> DEFINE v == p[2]
             x == a[2]
             u == a[3]
  <2>3. v \in Seq(Int) /\ Len(v) = i /\ x \in Int /\ u \in 0 .. b /\ Leads(t, v, a[1])
    BY <1>1, <2>1, <2>2
  <2>4. <<a[1], x, u>> \in t.arcs /\ q = <<u, Append(v, x)>>
    BY <1>1, <2>1
  <2> HIDE DEF v, x, u
  <2>5. Leads(t, Append(v, x), u)
    BY <2>3, <2>4, LeadsByLetter
  <2>6. Append(v, x) \in Seq(Int) /\ Len(Append(v, x)) = i + 1
    BY <2>3, AppendProperties
  <2>7. q \in (0 .. b) \X Seq(Int) /\ q[1] = u /\ q[2] = Append(v, x)
    BY <2>3, <2>4, <2>6
  <2> QED
    BY <2>5, <2>6, <2>7 DEF WordsOf
<1>3. ASSUME NEW q \in WordsOf(t, b, i + 1) PROVE q \in Longer(t, WordsOf(t, b, i))
  <2> DEFINE u == q[1]
             w == q[2]
  <2>1. u \in 0 .. b /\ w \in Seq(Int) /\ Len(w) = i + 1 /\ Leads(t, w, u) /\ q = <<u, w>>
    BY DEF WordsOf
  <2> HIDE DEF u, w
  <2>2. w # <<>>
    BY <2>1
  <2>3. PICK v \in Seq(Int), x \in Int : w = Append(v, x)
    BY <2>1, <2>2, SequenceEmptyOrAppend
  <2>4. PICK s : Leads(t, v, s) /\ <<s, x, u>> \in t.arcs
    BY <2>1, <2>3, LeadsByLetter
  <2>5. PICK a \in t.arcs : a = <<s, x, u>>
    BY <2>4
  <2>6. Len(v) = i
    <3>1. Len(w) = Len(v) + 1 /\ Len(v) \in Nat
      BY <2>3, AppendProperties
    <3> QED
      BY <2>1, <3>1
  <2>7. s \in 0 .. b /\ a[1] = s /\ a[2] = x /\ a[3] = u
    BY <1>1, <2>5
  <2>8. PICK p : p = <<s, v>>
    OBVIOUS
  <2>9. p \in (0 .. b) \X Seq(Int) /\ p[1] = s /\ p[2] = v
    BY <2>7, <2>8
  <2>10. p \in WordsOf(t, b, i)
    BY <2>4, <2>6, <2>9 DEF WordsOf
  <2>11. a[1] = p[1] /\ q = <<a[3], Append(p[2], a[2])>>
    BY <2>1, <2>3, <2>7, <2>9
  <2> QED
    BY <2>10, <2>11 DEF Longer
<1> QED
  BY <1>2, <1>3

(* fmtofl() lists exactly the words accepted.                                *)
LEMMA ListsLanguage ==
    ASSUME NEW m, NEW b \in Nat, Bounded(m, b), Rising(m)
    PROVE  fmtofl(m) = Accepted(m)
<1> DEFINE t == Trimmed(m)
           S == SUBSET ((0 .. b) \X Seq(Int))
           nil == {<<s, <<>>>> : s \in t.start}
           g == [p \in Nat \X S |-> Longer(t, p[2])]
           R(h) == h = [i \in Nat |-> IF i = 0 THEN nil ELSE Longer(t, h[i - 1])]
           wave == CHOOSE h : R(h)
<1>1. Bounded(t, b) /\ Rising(t) /\ Accepted(t) = Accepted(m)
  BY TrimmedAccepts
<1>2. fmtofl(m) = MembersIn(t, UNION {wave[i] : i \in 0 .. number_of_states(t)})
  BY DEF fmtofl
<1> HIDE DEF t
<1>3. nil \in S /\ g \in [Nat \X S -> S]
  <2>1. nil \in S
    <3>1. t.start \subseteq 0 .. b
      BY <1>1 DEF Bounded
    <3>2. <<>> \in Seq(Int)
      OBVIOUS
    <3>3. \A s \in t.start : <<s, <<>>>> \in (0 .. b) \X Seq(Int)
      BY <3>1, <3>2
    <3> QED
      BY <3>3
  <2>2. ASSUME NEW W \in S PROVE Longer(t, W) \in S
    <3> SUFFICES ASSUME NEW q \in Longer(t, W) PROVE q \in (0 .. b) \X Seq(Int)
      OBVIOUS
    <3>1. PICK p \in W, a \in t.arcs : a[1] = p[1] /\ q = <<a[3], Append(p[2], a[2])>>
      BY DEF Longer
    <3>2. p[2] \in Seq(Int) /\ a[2] \in Int /\ a[3] \in 0 .. b
      BY <1>1 DEF Bounded
    <3>3. Append(p[2], a[2]) \in Seq(Int)
      BY <3>2, AppendProperties
    <3> QED
      BY <3>1, <3>2, <3>3
  <2> HIDE DEF S, nil
  <2>3. \A p \in Nat \X S : Longer(t, p[2]) \in S
    BY <2>2
  <2> QED
    BY <2>1, <2>3
<1>4. \A i \in Nat, W \in S : g[<<i, W>>] = Longer(t, W)
  <2> HIDE DEF S
  <2> QED
    OBVIOUS
<1> HIDE DEF g, S
<1>5. PICK h \in [Nat -> S] : IsIteration(h, nil, g)
  BY <1>3, Iterations
<1> HIDE DEF nil
<1>6. R(h)
  <2>1. h[0] = nil /\ \A i \in Nat : h[i + 1] = Longer(t, h[i])
    BY <1>4, <1>5 DEF IsIteration
  <2>2. ASSUME NEW i \in Nat PROVE h[i] = IF i = 0 THEN nil ELSE Longer(t, h[i - 1])
    <3>1. CASE i = 0
      BY <2>1, <3>1
    <3>2. CASE i # 0
      <4>1. PICK j \in Nat : i = j + 1 /\ i - 1 = j
        <5>1. i - 1 \in Nat /\ i = (i - 1) + 1
          BY <3>2
        <5> QED
          BY <5>1
      <4> QED
        BY <2>1, <3>2, <4>1
    <3> QED
      BY <3>1, <3>2
  <2> QED
    BY <1>5, <2>2
<1>7. R(wave)
  BY <1>6
<1> HIDE DEF wave
<1>8. wave[0] = nil /\ \A i \in Nat \ {0} : wave[i] = Longer(t, wave[i - 1])
  BY <1>7
<1> HIDE DEF R
<1>9. ASSUME NEW i \in Nat PROVE wave[i] = WordsOf(t, b, i)
  <2> DEFINE Bad == { j \in Nat : wave[j] # WordsOf(t, b, j) }
  <2> SUFFICES ASSUME Bad # {} PROVE FALSE
    OBVIOUS
  <2>1. Bad \in SUBSET Nat
    OBVIOUS
  <2>2. PICK j \in Bad : \A x \in Bad : j <= x
    BY <2>1, LeastOfNaturals
  <2>3. j \in Nat /\ wave[j] # WordsOf(t, b, j)
    BY <2>2
  <2>4. CASE j = 0
    <3>1. t.start \subseteq 0 .. b
      BY <1>1 DEF Bounded
    <3>2. ASSUME NEW p \in WordsOf(t, b, 0) PROVE p \in nil
      <4>1. p = <<p[1], p[2]>> /\ p[2] \in Seq(Int) /\ Len(p[2]) = 0 /\ Leads(t, p[2], p[1])
        BY DEF WordsOf
      <4>2. p[2] = <<>>
        BY <4>1
      <4>3. p[1] \in t.start
        BY <4>1, <4>2, LeadsAtOnce
      <4> QED
        BY <4>1, <4>2, <4>3 DEF nil
    <3>3. ASSUME NEW p \in nil PROVE p \in WordsOf(t, b, 0)
      <4>1. PICK s \in t.start : p = <<s, <<>>>>
        BY DEF nil
      <4>2. Leads(t, <<>>, s)
        BY LeadsAtOnce
      <4>3. <<>> \in Seq(Int) /\ Len(<<>>) = 0
        OBVIOUS
      <4>4. p[1] = s /\ p[2] = <<>> /\ p \in (0 .. b) \X Seq(Int)
        BY <3>1, <4>1, <4>3
      <4> QED
        BY <4>2, <4>3, <4>4 DEF WordsOf
    <3> QED
      BY <1>8, <2>3, <2>4, <3>2, <3>3
  <2>5. CASE j # 0
    <3>1. PICK i1 \in Nat : i1 = j - 1 /\ j = i1 + 1 /\ ~ (j <= i1) /\ j \in Nat \ {0}
      <4>1. j - 1 \in Nat /\ j = (j - 1) + 1 /\ ~ (j <= j - 1)
        BY <2>3, <2>5
      <4> QED
        BY <2>3, <2>5, <4>1
    <3>2. i1 \notin Bad
      BY <2>2, <3>1
    <3>3. wave[i1] = WordsOf(t, b, i1)
      BY <3>2
    <3> QED
      BY <1>1, <1>8, <2>3, <3>1, <3>3, LongerWords
  <2> QED
    BY <2>4, <2>5
<1> DEFINE n == number_of_states(t)
           U == UNION {wave[i] : i \in 0 .. n}
<1>n. n \in Nat
  BY <1>1, StatesBounded
<1> HIDE DEF n
<1>10. ASSUME NEW w \in Accepted(t) PROVE w \in MembersIn(t, U)
  <2>1. w \in Seq(Int) /\ Len(w) \in Nat
    BY DEF Accepted
  <2>2. PICK u \in t.final : Leads(t, w, u)
    BY AcceptedByLeading
  <2>3. Len(w) + 1 <= n
    BY <1>1, <2>1, <2>2, LeadsToStates DEF n
  <2>4. Len(w) \in 0 .. n
    BY <1>n, <2>1, <2>3
  <2>5. PICK p : p = <<u, w>>
    OBVIOUS
  <2>6. u \in 0 .. b
    BY <1>1 DEF Bounded
  <2>7. p[1] = u /\ p[2] = w /\ p \in (0 .. b) \X Seq(Int)
    BY <2>1, <2>5, <2>6
  <2>8. p \in WordsOf(t, b, Len(w))
    BY <2>2, <2>7 DEF WordsOf
  <2>9. p \in wave[Len(w)]
    BY <1>9, <2>1, <2>8
  <2>10. p \in U
    BY <2>4, <2>9
  <2> HIDE DEF U
  <2> QED
    BY <2>7, <2>10 DEF MembersIn
<1>11. ASSUME NEW w \in MembersIn(t, U) PROVE w \in Accepted(t)
  <2>1. PICK p \in U : w = p[2] /\ p[1] \in t.final
    <3> HIDE DEF U
    <3> QED
      BY DEF MembersIn
  <2>2. PICK i \in 0 .. n : p \in wave[i]
    BY <2>1
  <2>3. p \in WordsOf(t, b, i)
    BY <1>9, <1>n, <2>2
  <2>4. p[2] \in Seq(Int) /\ Leads(t, p[2], p[1])
    BY <2>3 DEF WordsOf
  <2> QED
    BY <2>1, <2>4, AcceptedByLeading
<1>12. fmtofl(m) = MembersIn(t, U)
  BY <1>2 DEF n
<1> HIDE DEF U
<1>13. MembersIn(t, U) = Accepted(t)
  BY <1>10, <1>11
<1> QED
  BY <1>1, <1>12, <1>13

-----------------------------------------------------------------------------
(***************************************************************************)
(* += joins two machines whose states cannot meet.                         *)
(***************************************************************************)
LEMMA Renumbered ==
    ASSUME NEW p, NEW c \in Nat, NEW d \in Nat, Bounded(p, c)
    PROVE  LET r == renumber(p, d)
           IN  /\ Bounded(r, c + d) /\ (Rising(p) => Rising(r))
               /\ \A u \in states(r) : u >= d
               /\ Accepted(r) = Accepted(p)
<1> DEFINE r == renumber(p, d)
<1>1. /\ r.start = {s + d : s \in p.start} /\ r.final = {s + d : s \in p.final}
      /\ r.arcs = {<<t[1] + d, t[2], t[3] + d>> : t \in p.arcs}
      /\ r = [start |-> {s + d : s \in p.start}, final |-> {s + d : s \in p.final},
              arcs |-> {<<t[1] + d, t[2], t[3] + d>> : t \in p.arcs}]
  BY DEF renumber
<1> HIDE DEF r
<1>2. /\ p.start \subseteq 0 .. c /\ p.final \subseteq 0 .. c
      /\ \A t \in p.arcs : t = <<t[1], t[2], t[3]>> /\ t[1] \in 0 .. c /\ t[2] \in Int /\ t[3] \in 0 .. c
  BY DEF Bounded
<1>3. \A s \in 0 .. c : s + d \in 0 .. c + d /\ s + d >= d
  OBVIOUS
<1>4. r.start \subseteq 0 .. c + d /\ r.final \subseteq 0 .. c + d
  BY <1>1, <1>2, <1>3
<1>5. ASSUME NEW a \in r.arcs
      PROVE  \E t \in p.arcs : /\ a = <<t[1] + d, t[2], t[3] + d>>
                               /\ a[1] = t[1] + d /\ a[2] = t[2] /\ a[3] = t[3] + d
  BY <1>1
<1>6. Bounded(r, c + d)
  <2>1. ASSUME NEW a \in r.arcs PROVE a \in (0 .. c + d) \X Int \X (0 .. c + d)
    <3>1. PICK t \in p.arcs : a = <<t[1] + d, t[2], t[3] + d>>
      BY <1>5
    <3>2. t[1] + d \in 0 .. c + d /\ t[2] \in Int /\ t[3] + d \in 0 .. c + d
      BY <1>2, <1>3
    <3> QED
      BY <3>1, <3>2
  <2>2. r.arcs \subseteq (0 .. c + d) \X Int \X (0 .. c + d)
    BY <2>1
  <2> QED
    BY <1>1, <1>4, <2>2 DEF Bounded
<1>7. Rising(p) => Rising(r)
  <2> SUFFICES ASSUME Rising(p), NEW a \in r.arcs PROVE a[1] < a[3]
    BY DEF Rising
  <2>1. PICK t \in p.arcs : a[1] = t[1] + d /\ a[3] = t[3] + d
    BY <1>5
  <2>2. t[1] \in 0 .. c /\ t[3] \in 0 .. c /\ t[1] < t[3]
    BY <1>2 DEF Rising
  <2> QED
    BY <2>1, <2>2
<1>8. \A u \in states(r) : u >= d
  <2>1. \A u \in r.start \cup r.final : u >= d
    BY <1>1, <1>2, <1>3
  <2>2. ASSUME NEW a \in r.arcs PROVE a[1] >= d /\ a[3] >= d
    <3>1. PICK t \in p.arcs : a[1] = t[1] + d /\ a[3] = t[3] + d
      BY <1>5
    <3> QED
      BY <1>2, <1>3, <3>1
  <2> QED
    BY <2>1, <2>2 DEF states
<1>9. ASSUME NEW s \in 0 .. c, NEW x, NEW u \in 0 .. c
      PROVE  <<s + d, x, u + d>> \in r.arcs <=> <<s, x, u>> \in p.arcs
  <2>1. ASSUME <<s + d, x, u + d>> \in r.arcs PROVE <<s, x, u>> \in p.arcs
    <3>1. PICK t \in p.arcs : <<s + d, x, u + d>> = <<t[1] + d, t[2], t[3] + d>>
      BY <1>5, <2>1
    <3>2. s + d = t[1] + d /\ x = t[2] /\ u + d = t[3] + d
      BY <3>1
    <3>3. t[1] \in 0 .. c /\ t[3] \in 0 .. c /\ t = <<t[1], t[2], t[3]>>
      BY <1>2
    <3>4. s = t[1] /\ u = t[3]
      BY <3>2, <3>3
    <3> QED
      BY <3>2, <3>3, <3>4
  <2>2. ASSUME <<s, x, u>> \in p.arcs PROVE <<s + d, x, u + d>> \in r.arcs
    <3>1. PICK t \in p.arcs : t = <<s, x, u>>
      BY <2>2
    <3>2. <<t[1] + d, t[2], t[3] + d>> = <<s + d, x, u + d>>
      BY <3>1
    <3> QED
      BY <1>1, <3>2
  <2> QED
    BY <2>1, <2>2
<1>10. ASSUME NEW w \in Seq(Int), NEW u, Leads(p, w, u) PROVE u \in 0 .. c
  BY <1>10, LeadsToStates, StatesBounded
<1>11. ASSUME NEW w \in Seq(Int), NEW u, Leads(r, w, u) PROVE \E s \in 0 .. c : u = s + d
  <2>1. u \in states(r)
    BY <1>6, <1>11, LeadsToStates
  <2>2. u \in d .. c + d
    <3>1. c + d \in Nat
      OBVIOUS
    <3>2. u \in 0 .. c + d
      BY <1>6, <2>1, <3>1, StatesBounded
    <3> QED
      BY <1>8, <2>1, <3>2
  <2>3. u - d \in 0 .. c /\ u = (u - d) + d
    BY <2>2
  <2> QED
    BY <2>3
<1> DEFINE T == { w \in Seq(Int) : \A s \in 0 .. c : Leads(r, w, s + d) <=> Leads(p, w, s) }
<1>12. <<>> \in T
  <2> SUFFICES ASSUME NEW s \in 0 .. c PROVE s + d \in r.start <=> s \in p.start
    BY LeadsAtOnce
  <2>1. \A z \in p.start : z + d = s + d => z = s
    BY <1>2
  <2> QED
    BY <1>1, <2>1
<1>13. ASSUME NEW v \in Seq(Int), NEW x \in Int, v \in T PROVE Append(v, x) \in T
  <2>1. Append(v, x) \in Seq(Int)
    OBVIOUS
  <2> SUFFICES ASSUME NEW s \in 0 .. c
               PROVE  Leads(r, Append(v, x), s + d) <=> Leads(p, Append(v, x), s)
    BY <2>1
  <2>2. ASSUME Leads(r, Append(v, x), s + d) PROVE Leads(p, Append(v, x), s)
    <3>1. PICK z : Leads(r, v, z) /\ <<z, x, s + d>> \in r.arcs
      BY <2>2, LeadsByLetter
    <3>2. PICK y \in 0 .. c : z = y + d
      BY <1>11, <3>1
    <3>3. Leads(p, v, y) /\ <<y, x, s>> \in p.arcs
      BY <1>9, <1>13, <3>1, <3>2
    <3> QED
      BY <3>3, LeadsByLetter
  <2>3. ASSUME Leads(p, Append(v, x), s) PROVE Leads(r, Append(v, x), s + d)
    <3>1. PICK y : Leads(p, v, y) /\ <<y, x, s>> \in p.arcs
      BY <2>3, LeadsByLetter
    <3>2. y \in 0 .. c
      BY <1>10, <3>1
    <3>3. Leads(r, v, y + d) /\ <<y + d, x, s + d>> \in r.arcs
      BY <1>9, <1>13, <3>1, <3>2
    <3> QED
      BY <3>3, LeadsByLetter
  <2> QED
    BY <2>2, <2>3
<1>14. Seq(Int) \subseteq T
  <2> HIDE DEF T
  <2> QED
    BY <1>12, <1>13, WordInduction
<1>15. \A s \in 0 .. c : s + d \in r.final <=> s \in p.final
  <2> SUFFICES ASSUME NEW s \in 0 .. c PROVE s + d \in r.final <=> s \in p.final
    OBVIOUS
  <2>1. \A z \in p.final : z + d = s + d => z = s
    BY <1>2
  <2> QED
    BY <1>1, <2>1
<1>16. ASSUME NEW w \in Seq(Int)
       PROVE  (\E u \in r.final : Leads(r, w, u)) <=> (\E u \in p.final : Leads(p, w, u))
  <2>1. ASSUME NEW u \in r.final, Leads(r, w, u) PROVE \E s \in p.final : Leads(p, w, s)
    <3>1. PICK s \in 0 .. c : u = s + d
      BY <1>11, <2>1
    <3>2. Leads(p, w, s) /\ s \in p.final
      BY <1>14, <1>15, <2>1, <3>1
    <3> QED
      BY <3>2
  <2>2. ASSUME NEW s \in p.final, Leads(p, w, s) PROVE \E u \in r.final : Leads(r, w, u)
    <3>1. s \in 0 .. c
      BY <1>2
    <3>2. Leads(r, w, s + d) /\ s + d \in r.final
      BY <1>14, <1>15, <2>2, <3>1
    <3> QED
      BY <3>2
  <2> QED
    BY <2>1, <2>2
<1>17. Accepted(r) = Accepted(p)
  BY <1>16, AcceptedByLeading
<1> QED
  BY <1>6, <1>7, <1>8, <1>17 DEF r

(* += makes a machine that accepts what one of the two accepts.              *)
LEMMA UnionLanguage ==
    ASSUME NEW a, NEW b \in Nat, Bounded(a, b),
           NEW p, NEW c \in Nat, Bounded(p, c)
    PROVE  LET n == unite(a, p)
           IN  /\ \E e \in Nat : Bounded(n, e)
               /\ Rising(a) /\ Rising(p) => Rising(n)
               /\ Accepted(n) = Accepted(a) \cup Accepted(p)
<1> DEFINE top == max_state(a)
<1>1. top \in 0 .. b /\ states(a) \subseteq 0 .. top
  BY StatesBounded
<1>2. PICK d \in Nat : d = top + 1 /\ d <= b + 1
  BY <1>1
<1>3. top < d
  BY <1>1, <1>2
<1> HIDE DEF top
<1> DEFINE r == renumber(p, d)
           n == unite(a, p)
           e == b + (c + d)
<1>4. /\ Bounded(r, c + d) /\ (Rising(p) => Rising(r)) /\ Accepted(r) = Accepted(p)
      /\ \A u \in states(r) : u >= d
  BY Renumbered
<1>5. /\ n = [start |-> a.start \cup r.start, final |-> a.final \cup r.final, arcs |-> a.arcs \cup r.arcs]
      /\ n.start = a.start \cup r.start /\ n.final = a.final \cup r.final /\ n.arcs = a.arcs \cup r.arcs
  BY <1>2 DEF unite, top
<1> HIDE DEF r, n
<1>6. e \in Nat /\ Bounded(n, e)
  <2>1. e \in Nat /\ \A z \in 0 .. b : z \in 0 .. e
    OBVIOUS
  <2>2. \A z \in 0 .. c + d : z \in 0 .. e
    OBVIOUS
  <2> HIDE DEF e
  <2>3. /\ a.start \subseteq 0 .. e /\ a.final \subseteq 0 .. e
        /\ a.arcs \subseteq (0 .. e) \X Int \X (0 .. e)
    BY <2>1 DEF Bounded
  <2>4. /\ r.start \subseteq 0 .. e /\ r.final \subseteq 0 .. e
        /\ r.arcs \subseteq (0 .. e) \X Int \X (0 .. e)
    BY <1>4, <2>2 DEF Bounded
  <2>5. /\ a.start \cup r.start \in SUBSET (0 .. e) /\ a.final \cup r.final \in SUBSET (0 .. e)
        /\ a.arcs \cup r.arcs \in SUBSET ((0 .. e) \X Int \X (0 .. e))
    BY <2>3, <2>4
  <2> QED
    BY <1>5, <2>1, <2>5 DEF Bounded
<1>7. Rising(a) /\ Rising(p) => Rising(n)
  BY <1>4, <1>5 DEF Rising
<1>c. c + d \in Nat
  OBVIOUS
<1>8. \A u \in states(a) : u \notin states(r)
  <2> SUFFICES ASSUME NEW u \in states(a), u \in states(r) PROVE FALSE
    OBVIOUS
  <2>1. u \in 0 .. top /\ top \in 0 .. b /\ u >= d
    BY <1>1, <1>4
  <2> QED
    BY <1>3, <2>1
<1>9. /\ \A t \in a.arcs : t[1] \in states(a)
      /\ \A t \in r.arcs : t[1] \in states(r)
      /\ a.final \subseteq states(a) /\ r.final \subseteq states(r)
  BY <1>4, <1>c, StatesBounded
<1>10. ASSUME NEW s, NEW x, NEW u, <<s, x, u>> \in n.arcs
       PROVE  /\ s \in states(a) => <<s, x, u>> \in a.arcs
              /\ s \in states(r) => <<s, x, u>> \in r.arcs
  <2>1. PICK t \in n.arcs : t = <<s, x, u>> /\ t[1] = s
    BY <1>10
  <2> QED
    BY <1>5, <1>8, <1>9, <2>1
<1>11. ASSUME NEW w \in Seq(Int), NEW u
       PROVE  /\ Leads(a, w, u) => u \in states(a)
              /\ Leads(r, w, u) => u \in states(r)
  BY <1>4, <1>c, LeadsToStates
<1> DEFINE T == { w \in Seq(Int) : \A u : Leads(n, w, u) <=> Leads(a, w, u) \/ Leads(r, w, u) }
<1>12. <<>> \in T
  BY <1>5, LeadsAtOnce
<1>13. ASSUME NEW v \in Seq(Int), NEW x \in Int, v \in T PROVE Append(v, x) \in T
  <2>1. Append(v, x) \in Seq(Int)
    OBVIOUS
  <2> SUFFICES ASSUME NEW u
               PROVE  Leads(n, Append(v, x), u) <=> Leads(a, Append(v, x), u) \/ Leads(r, Append(v, x), u)
    BY <2>1
  <2>2. ASSUME Leads(n, Append(v, x), u)
        PROVE  Leads(a, Append(v, x), u) \/ Leads(r, Append(v, x), u)
    <3>1. PICK s : Leads(n, v, s) /\ <<s, x, u>> \in n.arcs
      BY <2>2, LeadsByLetter
    <3>2. Leads(a, v, s) \/ Leads(r, v, s)
      BY <1>13, <3>1
    <3>a. <<s, x, u>> \in n.arcs /\ v \in Seq(Int)
      BY <3>1, <1>13
    <3>b. /\ Leads(a, v, s) => s \in states(a)
          /\ Leads(r, v, s) => s \in states(r)
      BY <1>11, <3>a
    <3>c. /\ s \in states(a) => <<s, x, u>> \in a.arcs
          /\ s \in states(r) => <<s, x, u>> \in r.arcs
      BY <1>10, <3>a
    <3>3. \/ Leads(a, v, s) /\ <<s, x, u>> \in a.arcs
          \/ Leads(r, v, s) /\ <<s, x, u>> \in r.arcs
      BY <3>2, <3>b, <3>c
    <3> QED
      BY <3>3, LeadsByLetter
  <2>3. ASSUME NEW m \in {a, r}, Leads(m, Append(v, x), u)
        PROVE  Leads(n, Append(v, x), u)
    <3>1. PICK s : Leads(m, v, s) /\ <<s, x, u>> \in m.arcs
      BY <2>3, LeadsByLetter
    <3>2. Leads(n, v, s) /\ <<s, x, u>> \in n.arcs
      BY <1>5, <1>13, <3>1
    <3> QED
      BY <3>2, LeadsByLetter
  <2> QED
    BY <2>2, <2>3
<1>14. Seq(Int) \subseteq T
  <2> HIDE DEF T
  <2> QED
    BY <1>12, <1>13, WordInduction
<1>15. ASSUME NEW w \in Seq(Int)
       PROVE  (\E u \in n.final : Leads(n, w, u)) <=>
                 (\E u \in a.final : Leads(a, w, u)) \/ (\E u \in r.final : Leads(r, w, u))
  <2>1. \A u : Leads(n, w, u) <=> Leads(a, w, u) \/ Leads(r, w, u)
    BY <1>14
  <2>2. \A u : /\ Leads(a, w, u) => u \in states(a)
               /\ Leads(r, w, u) => u \in states(r)
    BY <1>11
  <2> QED
    BY <1>5, <1>8, <1>9, <2>1, <2>2
<1>16. Accepted(n) = Accepted(a) \cup Accepted(r)
  BY <1>15, AcceptedByLeading
<1> HIDE DEF e
<1> QED
  BY <1>4, <1>6, <1>7, <1>16 DEF n

-----------------------------------------------------------------------------
(***************************************************************************)
(* The prefixes of a set of words, and their order: shorter ones first,    *)
(* those of a length by their letters.                                     *)
(***************************************************************************)
PrefixesOf(L) == UNION {{SubSeq(w, 1, i) : i \in 0 .. Len(w)} : w \in L}
Before(u, v) == \/ Len(u) < Len(v)
                \/ /\ Len(u) = Len(v)
                   /\ \E i \in DOMAIN u : u[i] < v[i] /\ SubSeq(u, 1, i - 1) = SubSeq(v, 1, i - 1)
PlaceAmong(P, w) == Cardinality({u \in P : Before(u, w)})

(* A prefix is a word that agrees with one of the set as far as it goes.     *)
LEMMA PrefixesAreWords ==
    ASSUME NEW L \in SUBSET Seq(Int), NEW v
    PROVE  v \in PrefixesOf(L) <=>
              /\ v \in Seq(Int)
              /\ \E w \in L : Len(v) <= Len(w) /\ \A i \in 1 .. Len(v) : v[i] = w[i]
<1>1. ASSUME NEW w \in L, NEW i \in 0 .. Len(w)
      PROVE  /\ SubSeq(w, 1, i) \in Seq(Int) /\ Len(SubSeq(w, 1, i)) = i
             /\ \A j \in 1 .. i : SubSeq(w, 1, i)[j] = w[j]
  <2>1. w \in Seq(Int) /\ \A j \in 1 .. i : w[j] \in Int
    OBVIOUS
  <2> QED
    BY <2>1, SubSeqProperties
<1>2. ASSUME v \in PrefixesOf(L)
      PROVE  /\ v \in Seq(Int)
             /\ \E w \in L : Len(v) <= Len(w) /\ \A i \in 1 .. Len(v) : v[i] = w[i]
  <2>1. PICK w \in L : \E i \in 0 .. Len(w) : v = SubSeq(w, 1, i)
    BY <1>2 DEF PrefixesOf
  <2>2. PICK i \in 0 .. Len(w) : v = SubSeq(w, 1, i)
    BY <2>1
  <2>3. v \in Seq(Int) /\ Len(v) = i /\ \A j \in 1 .. i : v[j] = w[j]
    BY <1>1, <2>2
  <2>4. i <= Len(w)
    BY <2>2
  <2> QED
    BY <2>3, <2>4
<1>3. ASSUME v \in Seq(Int), NEW w \in L, Len(v) <= Len(w), \A i \in 1 .. Len(v) : v[i] = w[i]
      PROVE  v \in PrefixesOf(L)
  <2> DEFINE k == Len(v)
  <2>1. k \in 0 .. Len(w)
    BY <1>3
  <2>2. PICK p : p = SubSeq(w, 1, k)
    OBVIOUS
  <2>3. p \in Seq(Int) /\ Len(p) = k /\ \A j \in 1 .. k : p[j] = w[j]
    BY <1>1, <2>1, <2>2
  <2>4. v = p
    BY <1>3, <2>3, SeqEqual
  <2> HIDE DEF k
  <2> QED
    BY <2>1, <2>2, <2>4 DEF PrefixesOf
<1> QED
  BY <1>2, <1>3

(* Finitely many words have finitely many prefixes.                          *)
LEMMA PrefixesAreFinite ==
    ASSUME NEW L \in SUBSET Seq(Int), IsFiniteSet(L)
    PROVE  IsFiniteSet(PrefixesOf(L))
<1> DEFINE Of(w) == {SubSeq(w, 1, i) : i \in 0 .. Len(w)}
           S == {Of(w) : w \in L}
           f == [w \in L |-> Of(w)]
<1>1. ASSUME NEW w \in L PROVE IsFiniteSet(Of(w))
  <2> DEFINE h == [i \in 0 .. Len(w) |-> SubSeq(w, 1, i)]
  <2>1. h \in Surjection(0 .. Len(w), Of(w))
    BY DEF Surjection
  <2>2. IsFiniteSet(0 .. Len(w))
    <3>1. Len(w) \in Int
      OBVIOUS
    <3> QED
      BY <3>1, FS_Interval
  <2> HIDE DEF h, Of
  <2> QED
    BY <2>1, <2>2, FS_Surjection
<1> HIDE DEF Of
<1>2. f \in Surjection(L, S)
  BY DEF Surjection
<1> HIDE DEF f
<1>3. IsFiniteSet(S)
  BY <1>2, FS_Surjection
<1>4. \A T \in S : IsFiniteSet(T)
  BY <1>1
<1> HIDE DEF S
<1>5. IsFiniteSet(UNION S)
  BY <1>3, <1>4, FS_UNION
<1> QED
  BY <1>5 DEF PrefixesOf, S, Of

(* The order, by places instead of prefixes.                                 *)
LessFrom(u, v, i) == i \in 1 .. Len(u) /\ u[i] < v[i] /\ \A j \in 1 .. i - 1 : u[j] = v[j]

(* Of words as long as each other the first different letter decides.        *)
LEMMA BeforeByPlace ==
    ASSUME NEW u \in Seq(Int), NEW v \in Seq(Int)
    PROVE  Before(u, v) <=> Len(u) < Len(v) \/ (Len(u) = Len(v) /\ \E i \in 1 .. Len(u) : LessFrom(u, v, i))
<1>1. DOMAIN u = 1 .. Len(u)
  OBVIOUS
<1>2. ASSUME Len(u) = Len(v), NEW i \in 1 .. Len(u)
      PROVE  SubSeq(u, 1, i - 1) = SubSeq(v, 1, i - 1) <=> \A j \in 1 .. i - 1 : u[j] = v[j]
  <2> DEFINE k == i - 1
             p == SubSeq(u, 1, k)
             q == SubSeq(v, 1, k)
  <2>1. k \in Nat /\ k <= Len(u) /\ \A j \in 1 .. k : u[j] \in Int /\ v[j] \in Int
    BY <1>2
  <2> HIDE DEF k
  <2>2. /\ p \in Seq(Int) /\ Len(p) = k /\ \A j \in 1 .. k : p[j] = u[j]
        /\ q \in Seq(Int) /\ Len(q) = k /\ \A j \in 1 .. k : q[j] = v[j]
    <3>1. (IF 1 <= k THEN k - 1 + 1 ELSE 0) = k /\ k - 1 + 1 = k /\ \A j \in 1 .. k : 1 + j - 1 = j
      BY <2>1
    <3>2. 1 \in Int /\ k \in Int
      BY <2>1
    <3>3. /\ p \in Seq(Int) /\ Len(p) = (IF 1 <= k THEN k - 1 + 1 ELSE 0)
          /\ \A j \in 1 .. k - 1 + 1 : p[j] = u[1 + j - 1]
      BY <2>1, <3>2, SubSeqProperties
    <3>4. /\ q \in Seq(Int) /\ Len(q) = (IF 1 <= k THEN k - 1 + 1 ELSE 0)
          /\ \A j \in 1 .. k - 1 + 1 : q[j] = v[1 + j - 1]
      BY <2>1, <3>2, SubSeqProperties
    <3> HIDE DEF p, q
    <3> QED
      BY <3>1, <3>3, <3>4
  <2> HIDE DEF p, q
  <2>3. p = q <=> \A j \in 1 .. k : u[j] = v[j]
    BY <2>2, SeqEqual
  <2> QED
    BY <2>3 DEF p, q, k
<1> QED
  BY <1>1, <1>2 DEF Before, LessFrom

(* Before() is a strict and total order of the words.                        *)
LEMMA BeforeIsOrder ==
    /\ \A u \in Seq(Int) : ~ Before(u, u)
    /\ \A u, v, w \in Seq(Int) : Before(u, v) /\ Before(v, w) => Before(u, w)
    /\ \A u, v \in Seq(Int) : u = v \/ Before(u, v) \/ Before(v, u)
<1>1. ASSUME NEW u \in Seq(Int) PROVE ~ Before(u, u)
  <2>1. ~ (Len(u) < Len(u)) /\ \A i \in 1 .. Len(u) : ~ (u[i] < u[i])
    <3>1. Len(u) \in Int /\ \A i \in 1 .. Len(u) : u[i] \in Int
      OBVIOUS
    <3> QED
      BY <3>1
  <2> QED
    BY <2>1, BeforeByPlace DEF LessFrom
<1>2. ASSUME NEW u \in Seq(Int), NEW v \in Seq(Int), NEW w \in Seq(Int), Before(u, v), Before(v, w)
      PROVE  Before(u, w)
  <2>1. Len(u) \in Nat /\ Len(v) \in Nat /\ Len(w) \in Nat
    OBVIOUS
  <2>2. CASE Len(u) < Len(v) \/ Len(v) < Len(w)
    <3>1. Len(u) <= Len(v) /\ Len(v) <= Len(w)
      BY <1>2, <2>1, BeforeByPlace
    <3>2. Len(u) < Len(w)
      BY <2>1, <2>2, <3>1
    <3> QED
      BY <3>2, BeforeByPlace
  <2>3. CASE ~ (Len(u) < Len(v) \/ Len(v) < Len(w))
    <3>1. PICK i \in 1 .. Len(u) : LessFrom(u, v, i)
      BY <1>2, <2>3, BeforeByPlace
    <3>2. PICK j \in 1 .. Len(v) : LessFrom(v, w, j)
      BY <1>2, <2>3, BeforeByPlace
    <3>3. Len(u) = Len(v) /\ Len(v) = Len(w)
      BY <1>2, <2>3, BeforeByPlace
    <3>4. \A x \in 1 .. Len(u) : u[x] \in Int /\ v[x] \in Int /\ w[x] \in Int
      <4>1. \A x \in 1 .. Len(u) : u[x] \in Int
        OBVIOUS
      <4>2. \A x \in 1 .. Len(v) : v[x] \in Int
        OBVIOUS
      <4>3. \A x \in 1 .. Len(w) : w[x] \in Int
        OBVIOUS
      <4> QED
        BY <3>3, <4>1, <4>2, <4>3
    <3> DEFINE k == IF i <= j THEN i ELSE j
    <3>5. k \in 1 .. Len(u) /\ k <= i /\ k <= j /\ (k = i \/ k = j)
      BY <3>3
    <3> HIDE DEF k
    <3>6. \A x \in 1 .. k - 1 : u[x] = w[x]
      <4> SUFFICES ASSUME NEW x \in 1 .. k - 1 PROVE u[x] = w[x]
        OBVIOUS
      <4>1. x \in 1 .. i - 1 /\ x \in 1 .. j - 1
        BY <3>5
      <4> QED
        BY <3>1, <3>2, <4>1 DEF LessFrom
    <3>7. u[k] <= v[k] /\ v[k] <= w[k] /\ (u[k] < v[k] \/ v[k] < w[k])
      <4>1. (k = i \/ k \in 1 .. i - 1) /\ (k = j \/ k \in 1 .. j - 1)
        BY <3>5
      <4>2. u[k] \in Int /\ v[k] \in Int /\ w[k] \in Int
        BY <3>4, <3>5
      <4>3. u[k] < v[k] \/ u[k] = v[k]
        BY <3>1, <4>1 DEF LessFrom
      <4>4. v[k] < w[k] \/ v[k] = w[k]
        BY <3>2, <4>1 DEF LessFrom
      <4>5. u[k] < v[k] \/ v[k] < w[k]
        BY <3>1, <3>2, <3>5 DEF LessFrom
      <4>6. \A x, y \in Int : x < y \/ x = y => x <= y
        OBVIOUS
      <4> QED
        BY <4>2, <4>3, <4>4, <4>5, <4>6
    <3>8. u[k] < w[k]
      <4>1. u[k] \in Int /\ v[k] \in Int /\ w[k] \in Int
        BY <3>4, <3>5
      <4>2. \A x, y, z \in Int : x <= y /\ y <= z /\ (x < y \/ y < z) => x < z
        OBVIOUS
      <4> QED
        BY <3>7, <4>1, <4>2
    <3>9. LessFrom(u, w, k)
      BY <3>5, <3>6, <3>8 DEF LessFrom
    <3> QED
      BY <3>3, <3>5, <3>9, BeforeByPlace
  <2> QED
    BY <2>2, <2>3
<1>3. ASSUME NEW u \in Seq(Int), NEW v \in Seq(Int), u # v PROVE Before(u, v) \/ Before(v, u)
  <2>1. Len(u) \in Nat /\ Len(v) \in Nat
    OBVIOUS
  <2>2. CASE Len(u) # Len(v)
    <3>1. Len(u) < Len(v) \/ Len(v) < Len(u)
      BY <2>1, <2>2
    <3> QED
      BY <3>1, BeforeByPlace
  <2>3. CASE Len(u) = Len(v)
    <3> DEFINE Off == { i \in 1 .. Len(u) : u[i] # v[i] }
    <3>1. Off \in SUBSET Nat
      OBVIOUS
    <3>2. Off # {}
      BY <1>3, <2>3, SeqEqual
    <3>3. PICK i \in Off : \A x \in Off : i <= x
      BY <3>1, <3>2, LeastOfNaturals
    <3>4. i \in 1 .. Len(u) /\ u[i] # v[i]
      BY <3>3
    <3>5. ASSUME NEW x \in 1 .. i - 1 PROVE u[x] = v[x]
      <4>1. x \in 1 .. Len(u) /\ ~ (i <= x)
        BY <3>4
      <4> QED
        BY <3>3, <4>1
    <3>6. u[i] \in Int /\ v[i] \in Int
      BY <2>3, <3>4
    <3>7. LessFrom(u, v, i) \/ LessFrom(v, u, i)
      BY <2>3, <3>4, <3>5, <3>6 DEF LessFrom
    <3> QED
      BY <2>3, <3>4, <3>7, BeforeByPlace
  <2> QED
    BY <2>2, <2>3
<1> QED
  BY <1>1, <1>2, <1>3

(* The number a prefix gets follows the order, and is its own.               *)
LEMMA PlacesAreOrdered ==
    ASSUME NEW P \in SUBSET Seq(Int), IsFiniteSet(P)
    PROVE  /\ \A u \in P : PlaceAmong(P, u) \in 0 .. Cardinality(P)
           /\ \A u, v \in P : Before(u, v) => PlaceAmong(P, u) < PlaceAmong(P, v)
           /\ \A u, v \in P : PlaceAmong(P, u) = PlaceAmong(P, v) => u = v
<1> DEFINE Pre(u) == {x \in P : Before(x, u)}
<1>1. ASSUME NEW u \in P
      PROVE  IsFiniteSet(Pre(u)) /\ Cardinality(Pre(u)) \in Nat /\ Cardinality(Pre(u)) <= Cardinality(P)
  BY FS_Subset, FS_CardinalityType
<1>2. ASSUME NEW u \in P, NEW v \in P, Before(u, v)
      PROVE  PlaceAmong(P, u) < PlaceAmong(P, v)
  <2>1. Pre(u) \in SUBSET Pre(v)
    BY <1>2, BeforeIsOrder
  <2>2. u \in Pre(v) /\ u \notin Pre(u)
    BY <1>2, BeforeIsOrder
  <2> HIDE DEF Pre
  <2>3. Cardinality(Pre(u)) <= Cardinality(Pre(v)) /\ Cardinality(Pre(u)) # Cardinality(Pre(v))
    BY <1>1, <2>1, <2>2, FS_Subset
  <2>4. Cardinality(Pre(u)) < Cardinality(Pre(v))
    BY <1>1, <2>3
  <2> QED
    BY <2>4 DEF PlaceAmong, Pre
<1>3. ASSUME NEW u \in P PROVE PlaceAmong(P, u) \in 0 .. Cardinality(P)
  <2>1. Cardinality(P) \in Nat
    BY FS_CardinalityType
  <2> HIDE DEF Pre
  <2>2. Cardinality(Pre(u)) \in 0 .. Cardinality(P)
    BY <1>1, <2>1
  <2> QED
    BY <2>2 DEF PlaceAmong, Pre
<1>4. ASSUME NEW u \in P, NEW v \in P, PlaceAmong(P, u) = PlaceAmong(P, v) PROVE u = v
  <2>1. PlaceAmong(P, u) \in Int /\ PlaceAmong(P, v) \in Int
    <3>1. Cardinality(P) \in Nat
      BY FS_CardinalityType
    <3> QED
      BY <1>3, <3>1
  <2>2. ~ Before(u, v) /\ ~ Before(v, u)
    BY <1>2, <1>4, <2>1
  <2> QED
    BY <2>2, BeforeIsOrder
<1> QED
  BY <1>2, <1>3, <1>4

(* Taking the last letter off undoes appending it.                           *)
LEMMA FrontsAndLasts ==
    ASSUME NEW v \in Seq(Int), NEW x \in Int
    PROVE  Front(Append(v, x)) = v /\ Last(Append(v, x)) = x
<1> DEFINE w == Append(v, x)
           p == Front(w)
<1>1. /\ w \in Seq(Int) /\ Len(w) = Len(v) + 1 /\ Len(v) \in Nat
      /\ \A i \in 1 .. Len(v) : w[i] = v[i]
      /\ w[Len(v) + 1] = x
  BY AppendProperties
<1> HIDE DEF w
<1>2. Last(w) = x
  BY <1>1 DEF Last
<1>3. Len(w) - 1 = Len(v)
  BY <1>1
<1>4. p = SubSeq(w, 1, Len(v))
  BY <1>3 DEF Front
<1>5. \A i \in 1 .. Len(v) : w[i] \in Int
  BY <1>1
<1> DEFINE k == Len(v)
<1>6. k \in Nat /\ k \in Int /\ 1 \in Int
  BY <1>1
<1> HIDE DEF k, p
<1>7. p \in Seq(Int) /\ Len(p) = k /\ \A i \in 1 .. k : p[i] = w[i]
  <2>1. (IF 1 <= k THEN k - 1 + 1 ELSE 0) = k /\ k - 1 + 1 = k /\ \A j \in 1 .. k : 1 + j - 1 = j
    BY <1>6
  <2>2. \A i \in 1 .. k : w[i] \in Int
    BY <1>5 DEF k
  <2>3. p = SubSeq(w, 1, k)
    BY <1>4 DEF k
  <2>4. /\ p \in Seq(Int) /\ Len(p) = (IF 1 <= k THEN k - 1 + 1 ELSE 0)
        /\ \A j \in 1 .. k - 1 + 1 : p[j] = w[1 + j - 1]
    BY <1>6, <2>2, <2>3, SubSeqProperties
  <2> QED
    BY <2>1, <2>4
<1>8. p = v
  BY <1>1, <1>7, SeqEqual DEF k
<1> QED
  BY <1>2, <1>8 DEF w, p

(* The machine that fltofm() makes of finitely many words accepts those.     *)
LEMMA TreeLanguage ==
    ASSUME NEW L \in SUBSET Seq(Int), IsFiniteSet(L)
    PROVE  /\ \E e \in Nat : Bounded(fltofm(L), e)
           /\ Rising(fltofm(L))
           /\ Accepted(fltofm(L)) = L
<1> DEFINE n == fltofm(L)
<1>1. CASE L = {}
  <2>1. n = Clear
    BY <1>1 DEF fltofm
  <2>2. n.start = {} /\ n.final = {} /\ n.arcs = {} /\ Bounded(n, 0)
    BY <2>1 DEF Clear, Bounded
  <2> HIDE DEF n
  <2>3. Accepted(n) = {} /\ Rising(n)
    BY <2>2, AcceptedByLeading DEF Rising
  <2> QED
    BY <1>1, <2>2, <2>3 DEF n
<1>2. CASE L # {}
  <2> DEFINE P == PrefixesOf(L)
             e == Cardinality(P)
             At(w) == PlaceAmong(P, w)
  <2>1. /\ n.start = {0} /\ n.final = {At(w) : w \in L}
        /\ n.arcs = {<<At(Front(w)), Last(w), At(w)>> : w \in P \ {<<>>}}
        /\ n = [start |-> {0}, final |-> {At(w) : w \in L},
                arcs |-> {<<At(Front(w)), Last(w), At(w)>> : w \in P \ {<<>>}}]
    BY <1>2 DEF fltofm, PrefixesOf, Before, PlaceAmong
  <2>2. P \in SUBSET Seq(Int) /\ IsFiniteSet(P) /\ e \in Nat
    BY PrefixesAreWords, PrefixesAreFinite, FS_CardinalityType
  <2>3. /\ \A u \in P : At(u) \in 0 .. e
        /\ \A u, v \in P : Before(u, v) => At(u) < At(v)
        /\ \A u, v \in P : At(u) = At(v) => u = v
    BY <2>2, PlacesAreOrdered
  <2>4. L \subseteq P /\ <<>> \in P
    <3>1. ASSUME NEW w \in L PROVE w \in P
      <4>1. w \in Seq(Int) /\ Len(w) <= Len(w)
        OBVIOUS
      <4> QED
        BY <4>1, PrefixesAreWords
    <3>2. <<>> \in P
      <4>1. PICK w \in L : TRUE
        BY <1>2
      <4>2. <<>> \in Seq(Int) /\ Len(<<>>) <= Len(w) /\ 1 .. Len(<<>>) = {}
        OBVIOUS
      <4> QED
        BY <4>2, PrefixesAreWords
    <3> QED
      BY <3>1, <3>2
  <2>5. ASSUME NEW v \in Seq(Int), NEW x \in Int, Append(v, x) \in P
        PROVE  v \in P
    <3>1. PICK w \in L : Len(Append(v, x)) <= Len(w) /\ \A i \in 1 .. Len(Append(v, x)) : Append(v, x)[i] = w[i]
      BY <2>5, PrefixesAreWords
    <3>2. /\ Len(Append(v, x)) = Len(v) + 1 /\ Len(v) \in Nat
          /\ \A i \in 1 .. Len(v) : Append(v, x)[i] = v[i]
      BY AppendProperties
    <3>3. w \in Seq(Int) /\ Len(w) \in Nat
      OBVIOUS
    <3>4. Len(v) <= Len(w) /\ \A i \in 1 .. Len(v) : v[i] = w[i]
      BY <3>1, <3>2, <3>3
    <3> QED
      BY <3>4, PrefixesAreWords
  <2>6. At(<<>>) = 0
    <3>1. ASSUME NEW u \in P PROVE ~ Before(u, <<>>)
      <4>1. u \in Seq(Int) /\ <<>> \in Seq(Int) /\ Len(<<>>) = 0
        BY <2>2
      <4>2. ~ (Len(u) < 0) /\ (Len(u) = 0 => 1 .. Len(u) = {})
        BY <4>1
      <4> QED
        BY <4>1, <4>2, BeforeByPlace
    <3>2. {u \in P : Before(u, <<>>)} = {}
      BY <3>1
    <3> QED
      BY <3>2, FS_EmptySet DEF PlaceAmong
  <2> HIDE DEF n, P, e, At
  (* An arc is a prefix and its last letter.                                 *)
  <2>7. ASSUME NEW t \in n.arcs
        PROVE  \E v \in P, x \in Int : /\ Append(v, x) \in P
                                       /\ t = <<At(v), x, At(Append(v, x))>>
    <3>1. PICK w \in P \ {<<>>} : t = <<At(Front(w)), Last(w), At(w)>>
      BY <2>1
    <3>2. PICK v \in Seq(Int), x \in Int : w = Append(v, x)
      BY <2>2, <3>1, SequenceEmptyOrAppend
    <3>3. Front(w) = v /\ Last(w) = x
      BY <3>2, FrontsAndLasts
    <3> QED
      BY <2>5, <3>1, <3>2, <3>3
  <2>8. ASSUME NEW v \in Seq(Int), NEW x \in Int, Append(v, x) \in P
        PROVE  <<At(v), x, At(Append(v, x))>> \in n.arcs
    <3>1. PICK w \in P \ {<<>>} : w = Append(v, x)
      <4>1. Append(v, x) # <<>>
        BY AppendProperties
      <4> QED
        BY <2>8, <4>1
    <3>2. Front(w) = v /\ Last(w) = x
      BY <3>1, FrontsAndLasts
    <3> QED
      BY <2>1, <3>1, <3>2
  <2>9. Bounded(n, e)
    <3>1. {0} \in SUBSET (0 .. e) /\ {At(w) : w \in L} \in SUBSET (0 .. e)
      BY <2>2, <2>3, <2>4
    <3>2. ASSUME NEW t \in n.arcs PROVE t \in (0 .. e) \X Int \X (0 .. e)
      <4>1. PICK v \in P, x \in Int : Append(v, x) \in P /\ t = <<At(v), x, At(Append(v, x))>>
        BY <2>7
      <4>2. At(v) \in 0 .. e /\ At(Append(v, x)) \in 0 .. e
        BY <2>3, <4>1
      <4> QED
        BY <4>1, <4>2
    <3>3. n.arcs \in SUBSET ((0 .. e) \X Int \X (0 .. e))
      BY <3>2
    <3> QED
      BY <2>1, <3>1, <3>3 DEF Bounded
  <2>10. Rising(n)
    <3> SUFFICES ASSUME NEW t \in n.arcs PROVE t[1] < t[3]
      BY DEF Rising
    <3>1. PICK v \in P, x \in Int : Append(v, x) \in P /\ t = <<At(v), x, At(Append(v, x))>>
      BY <2>7
    <3>2. v \in Seq(Int) /\ Append(v, x) \in Seq(Int) /\ Len(v) < Len(Append(v, x))
      <4>1. v \in Seq(Int)
        BY <2>2
      <4>2. Len(Append(v, x)) = Len(v) + 1 /\ Len(v) \in Nat
        BY <4>1, AppendProperties
      <4> QED
        BY <2>2, <3>1, <4>1, <4>2
    <3>3. Before(v, Append(v, x))
      BY <3>2, BeforeByPlace
    <3>4. At(v) < At(Append(v, x))
      BY <2>3, <3>1, <3>3
    <3> QED
      BY <3>1, <3>4
  <2> DEFINE T == { w \in Seq(Int) : \A u : Leads(n, w, u) <=> w \in P /\ u = At(w) }
  <2>11. <<>> \in T
    BY <2>1, <2>4, <2>6, LeadsAtOnce
  <2>12. ASSUME NEW v \in Seq(Int), NEW x \in Int, v \in T PROVE Append(v, x) \in T
    <3>1. PICK w : w = Append(v, x) /\ w \in Seq(Int)
      <4>1. Append(v, x) \in Seq(Int)
        BY AppendProperties
      <4> QED
        BY <4>1
    <3> SUFFICES ASSUME NEW u PROVE Leads(n, w, u) <=> w \in P /\ u = At(w)
      BY <3>1
    <3>2. ASSUME Leads(n, w, u) PROVE w \in P /\ u = At(w)
      <4>1. PICK s : Leads(n, v, s) /\ <<s, x, u>> \in n.arcs
        BY <3>1, <3>2, LeadsByLetter
      <4>2. v \in P /\ s = At(v)
        BY <2>12, <4>1
      <4>3. PICK v1 \in P, x1 \in Int : /\ Append(v1, x1) \in P
                                        /\ <<s, x, u>> = <<At(v1), x1, At(Append(v1, x1))>>
        BY <2>7, <4>1
      <4>4. At(v1) = At(v) /\ x1 = x /\ u = At(Append(v1, x1))
        BY <4>2, <4>3
      <4>5. v1 = v
        BY <2>3, <4>2, <4>4
      <4> QED
        BY <3>1, <4>3, <4>4, <4>5
    <3>3. ASSUME w \in P PROVE Leads(n, w, At(w))
      <4>1. v \in P
        BY <2>5, <3>1, <3>3
      <4>2. Leads(n, v, At(v))
        BY <2>12, <4>1
      <4>3. <<At(v), x, At(w)>> \in n.arcs
        BY <2>8, <3>1, <3>3
      <4> QED
        BY <3>1, <4>2, <4>3, LeadsByLetter
    <3> QED
      BY <3>2, <3>3
  <2>13. Seq(Int) \subseteq T
    <3> HIDE DEF T
    <3> QED
      BY <2>11, <2>12, WordInduction
  <2>14. ASSUME NEW w \in Seq(Int)
         PROVE  (\E u \in n.final : Leads(n, w, u)) <=> w \in L
    <3>1. \A u : Leads(n, w, u) <=> w \in P /\ u = At(w)
      BY <2>13
    <3>2. ASSUME NEW u \in n.final, Leads(n, w, u) PROVE w \in L
      <4>1. PICK l \in L : u = At(l)
        BY <2>1
      <4>2. w \in P /\ l \in P /\ At(w) = At(l)
        BY <2>4, <3>1, <3>2, <4>1
      <4>3. w = l
        BY <2>3, <4>2
      <4> QED
        BY <4>1, <4>3
    <3>3. ASSUME w \in L PROVE \E u \in n.final : Leads(n, w, u)
      BY <2>1, <2>4, <3>1, <3>3
    <3> QED
      BY <3>2, <3>3
  <2>15. Accepted(n) = L
    BY <2>14, AcceptedByLeading
  <2> QED
    BY <2>2, <2>9, <2>10, <2>15 DEF n
<1> QED
  BY <1>1, <1>2

-----------------------------------------------------------------------------
(***************************************************************************)
(* The bucket.                                                             *)
(***************************************************************************)
(* What Language says of a machine.                                          *)
LEMMA LanguageIsAccepted ==
    ASSUME NEW m, NEW b \in Nat, Bounded(m, b), Rising(m), Accepted(m) \subseteq Issued
    PROVE  LET longest == Max({Len(w) : w \in Issued})
           IN  {w \in UNION {[1 .. i -> labels(m)] : i \in 0 .. longest + 1} : member_of_language(m, w)}
                  = Accepted(m)
<1> DEFINE Lens == {Len(w) : w \in Issued}
           top == Max(Lens)
           Words == UNION {[1 .. i -> labels(m)] : i \in 0 .. top + 1}
<1>1. top \in Nat /\ \A w \in Issued : Len(w) <= top
  <2>1. Issued \subseteq Seq(Int)
    BY IssuedAssumption
  <2>2. Lens \in SUBSET Nat
    BY <2>1
  <2>3. PICK longest \in Issued : \A w \in Issued : Len(w) <= Len(longest)
    BY IssuedAssumption
  <2>4. \A w \in Issued : Len(w) \in Lens
    OBVIOUS
  <2>5. Lens # {} /\ Len(longest) \in Nat /\ \A x \in Lens : x <= Len(longest)
    <3>1. Len(longest) \in Lens
      BY <2>4
    <3>2. \A x \in Lens : x <= Len(longest)
      BY <2>3
    <3> HIDE DEF Lens
    <3> QED
      BY <2>2, <3>1, <3>2
  <2> HIDE DEF Lens
  <2>6. top \in Lens /\ \A x \in Lens : x <= top
    BY <2>2, <2>5, MaxOfNaturals
  <2> HIDE DEF top
  <2> QED
    BY <2>2, <2>4, <2>6
<1> HIDE DEF top
<1>2. labels(m) \subseteq Int
  BY StatesBounded
<1>3. ASSUME NEW w \in Words PROVE w \in Seq(Int)
  <2>1. PICK i \in 0 .. top + 1 : w \in [1 .. i -> labels(m)]
    OBVIOUS
  <2>2. i \in Nat /\ w \in [1 .. i -> Int]
    BY <1>1, <1>2, <2>1
  <2> QED
    BY <2>2
<1>4. ASSUME NEW w \in Accepted(m) PROVE w \in Words
  <2>1. w \in Seq(Int) /\ \E u \in m.final : Leads(m, w, u)
    BY AcceptedByLeading
  <2>2. w \in Seq(labels(m))
    BY <2>1, LeadsToStates
  <2>3. w \in Issued
    OBVIOUS
  <2>4. Len(w) \in 0 .. top + 1
    <3>1. Len(w) \in Nat /\ Len(w) <= top
      BY <1>1, <2>1, <2>3
    <3> QED
      BY <1>1, <3>1
  <2>5. w \in [1 .. Len(w) -> labels(m)]
    <3> HIDE DEF labels
    <3> QED
      BY <2>2, LenProperties
  <2> QED
    BY <2>4, <2>5
<1> HIDE DEF Words
<1>5. {w \in Words : member_of_language(m, w)} = Accepted(m)
  <2>1. \A w \in Words : member_of_language(m, w) <=> w \in Accepted(m)
    BY <1>3, MembersAreAccepted
  <2> QED
    BY <1>4, <2>1
<1> QED
  BY <1>5 DEF Words, top

(* Arcs rise, so that no path comes back, and finitely many words that were  *)
(* issued are accepted.                                                      *)
SoundMachine(m) ==
    /\ \E b \in Nat : Bounded(m, b)
    /\ Rising(m)
    /\ Accepted(m) \subseteq Issued
    /\ IsFiniteSet(Accepted(m))

MachineInv ==
    /\ SoundMachine(bucket)
    /\ text \in Issued \cup Others
    /\ verdict \in BOOLEAN

(* The language of the bucket is what its machine accepts.                   *)
LEMMA LanguageOfSound ==
    SoundMachine(bucket) => Language = Accepted(bucket)
<1> SUFFICES ASSUME SoundMachine(bucket) PROVE Language = Accepted(bucket)
  OBVIOUS
<1>1. PICK b \in Nat : Bounded(bucket, b)
  BY DEF SoundMachine
<1>2. Rising(bucket) /\ Accepted(bucket) \subseteq Issued
  BY DEF SoundMachine
<1> QED
  BY <1>1, <1>2, LanguageIsAccepted DEF Language

(* addWordToVerificationBucket() adds the word and nothing else.             *)
LEMMA AddedWord ==
    ASSUME NEW m, SoundMachine(m), NEW w \in Issued
    PROVE  LET n == unite(m, fltofm({w}))
           IN  SoundMachine(n) /\ Accepted(n) = Accepted(m) \cup {w}
<1> DEFINE p == fltofm({w})
           n == unite(m, p)
<1>1. {w} \in SUBSET Seq(Int) /\ IsFiniteSet({w})
  BY IssuedAssumption, FS_Singleton
<1>2. PICK c \in Nat : Bounded(p, c)
  BY <1>1, TreeLanguage
<1>3. Rising(p) /\ Accepted(p) = {w}
  BY <1>1, TreeLanguage
<1>4. PICK b \in Nat : Bounded(m, b)
  BY DEF SoundMachine
<1>5. Rising(m) /\ Accepted(m) \subseteq Issued /\ IsFiniteSet(Accepted(m))
  BY DEF SoundMachine
<1> HIDE DEF p
<1>6. (\E e \in Nat : Bounded(n, e)) /\ Rising(n) /\ Accepted(n) = Accepted(m) \cup Accepted(p)
  BY <1>2, <1>3, <1>4, <1>5, UnionLanguage
<1> HIDE DEF n
<1>7. IsFiniteSet(Accepted(m) \cup {w})
  BY <1>5, FS_AddElement
<1> QED
  BY <1>3, <1>5, <1>6, <1>7 DEF SoundMachine, n, p

(* removeWordFromMachine() takes the word away and nothing else.             *)
LEMMA RemovedWord ==
    ASSUME NEW m, SoundMachine(m), NEW w
    PROVE  LET n == removeWordFromMachine(m, w)
           IN  SoundMachine(n) /\ Accepted(n) = Accepted(m) \ {w}
<1> DEFINE L == Accepted(m) \ {w}
           n == removeWordFromMachine(m, w)
<1>1. PICK b \in Nat : Bounded(m, b)
  BY DEF SoundMachine
<1>2. Rising(m) /\ Accepted(m) \subseteq Issued /\ IsFiniteSet(Accepted(m))
  BY DEF SoundMachine
<1>3. fmtofl(m) = Accepted(m)
  BY <1>1, <1>2, ListsLanguage
<1>4. n = fltofm(L)
  BY <1>3 DEF removeWordFromMachine
<1>5. L \subseteq Issued /\ L \in SUBSET Seq(Int) /\ IsFiniteSet(L)
  BY <1>2, IssuedAssumption, FS_RemoveElement
<1> HIDE DEF L, n
<1>6. (\E e \in Nat : Bounded(n, e)) /\ Rising(n) /\ Accepted(n) = L
  BY <1>4, <1>5, TreeLanguage
<1> QED
  BY <1>5, <1>6 DEF SoundMachine, L, n

(* The empty machine is sound.                                               *)
LEMMA MbInitSound == MbInit => MachineInv
<1> SUFFICES ASSUME MbInit PROVE MachineInv
  OBVIOUS
<1>1. {} \in SUBSET Seq(Int) /\ IsFiniteSet({}) /\ fltofm({}) = Clear
  BY FS_EmptySet DEF fltofm
<1>2. (\E e \in Nat : Bounded(Clear, e)) /\ Rising(Clear) /\ Accepted(Clear) = {}
  BY <1>1, TreeLanguage
<1> QED
  BY <1>1, <1>2, IssuedAssumption DEF MbInit, MachineInv, SoundMachine

(* A call on a sound machine is a step of the abstract bucket.               *)
LEMMA MbStep ==
    MachineInv /\ [MbNext]_mbVars =>
        /\ MachineInv'
        /\ [OneTime!OpenNext]_<<Language, [t \in {0} |-> RedeemedText], [t \in {0} |-> verdict]>>
<1> SUFFICES ASSUME MachineInv, [MbNext]_mbVars
             PROVE  /\ MachineInv'
                    /\ [OneTime!OpenNext]_<<Language, [t \in {0} |-> RedeemedText], [t \in {0} |-> verdict]>>
  OBVIOUS
<1> DEFINE asked == [t \in {0} |-> RedeemedText]
           result == [t \in {0} |-> verdict]
<1>1. SoundMachine(bucket) /\ text \in Issued \cup Others /\ verdict \in BOOLEAN
  BY DEF MachineInv
<1>2. Language = Accepted(bucket)
  BY <1>1, LanguageOfSound
<1>3. asked[0] = RedeemedText /\ asked' = [t \in {0} |-> RedeemedText']
      /\ result' = [t \in {0} |-> verdict']
  OBVIOUS
<1>4. \A x : [asked EXCEPT ![0] = x] = [t \in {0} |-> x] /\ [result EXCEPT ![0] = x] = [t \in {0} |-> x]
  OBVIOUS
<1>5. <<>> \notin Issued
  BY IssuedAssumption
<1>6. Accepted(bucket) \subseteq Issued
  BY <1>1 DEF SoundMachine
<1> HIDE DEF asked, result
<1>7. ASSUME SoundMachine(bucket') PROVE Language' = Accepted(bucket')
  <2>1. PICK b \in Nat : Bounded(bucket', b)
    BY <1>7 DEF SoundMachine
  <2>2. Rising(bucket') /\ Accepted(bucket') \subseteq Issued
    BY <1>7 DEF SoundMachine
  <2> QED
    BY <2>1, <2>2, LanguageIsAccepted DEF Language
<1>8. CASE TakeText
  <2>1. text' \in Issued \cup Others /\ bucket' = bucket /\ verdict' = verdict
    BY <1>8 DEF TakeText
  <2>2. MachineInv'
    BY <1>1, <2>1 DEF MachineInv
  <2>3. Language' = Language
    BY <1>1, <1>2, <1>7, <2>1
  <2>4. RedeemedText' \in Issued \cup {<<>>}
    BY <2>1 DEF RedeemedText
  <2>5. OneTime!Ask(0)
    BY <1>3, <1>4, <2>1, <2>3, <2>4 DEF OneTime!Ask, asked, result
  <2> QED
    BY <2>2, <2>5 DEF OneTime!OpenNext
<1>9. CASE AddWord
  <2>1. text \in Issued /\ bucket' = unite(bucket, fltofm({text})) /\ text' = text /\ verdict' = verdict
    BY <1>9 DEF AddWord
  <2>2. SoundMachine(bucket') /\ Accepted(bucket') = Accepted(bucket) \cup {text}
    BY <1>1, <2>1, AddedWord
  <2>3. MachineInv'
    BY <1>1, <2>1, <2>2 DEF MachineInv
  <2>4. Language' = Language \cup {text}
    BY <1>2, <1>7, <2>2
  <2>5. RedeemedText = text /\ RedeemedText' = text
    BY <2>1 DEF RedeemedText
  <2>6. OneTime!Issue(0)
    BY <1>3, <2>1, <2>4, <2>5 DEF OneTime!Issue, asked, result
  <2> QED
    BY <2>3, <2>6 DEF OneTime!OpenNext
<1>10. CASE Verify
  <2>1. /\ verdict' = member_of_language(bucket, text)
        /\ bucket' = removeWordFromMachine(bucket, text) /\ text' = text
    BY <1>10 DEF Verify
  <2>2. SoundMachine(bucket') /\ Accepted(bucket') = Accepted(bucket) \ {text}
    BY <1>1, <2>1, RemovedWord
  <2>3. verdict' = (text \in Accepted(bucket))
    <3>1. text \in Seq(Int)
      BY <1>1, IssuedAssumption
    <3>2. PICK b \in Nat : Bounded(bucket, b)
      BY <1>1 DEF SoundMachine
    <3>3. verdict' <=> text \in Accepted(bucket)
      BY <2>1, <3>1, <3>2, MembersAreAccepted
    <3>4. verdict' \in BOOLEAN
      BY <2>1 DEF member_of_language
    <3> QED
      BY <3>3, <3>4
  <2>4. MachineInv'
    BY <1>1, <2>1, <2>2, <2>3 DEF MachineInv
  <2>5. RedeemedText' = RedeemedText
    BY <2>1 DEF RedeemedText
  <2>6. Language' = Language \ {RedeemedText} /\ (text \in Language <=> RedeemedText \in Language)
    BY <1>2, <1>5, <1>6, <1>7, <2>2 DEF RedeemedText
  <2>7. OneTime!Redeem(0)
    BY <1>2, <1>3, <1>4, <2>3, <2>5, <2>6 DEF OneTime!Redeem, asked, result
  <2> QED
    BY <2>4, <2>7 DEF OneTime!OpenNext
<1>11. CASE UNCHANGED mbVars
  <2>1. bucket' = bucket /\ text' = text /\ verdict' = verdict
    BY <1>11 DEF mbVars
  <2>2. MachineInv'
    BY <1>1, <2>1 DEF MachineInv
  <2>3. Language' = Language /\ RedeemedText' = RedeemedText
    BY <1>1, <1>2, <1>7, <2>1 DEF RedeemedText
  <2> QED
    BY <2>1, <2>2, <2>3
<1> QED
  BY <1>8, <1>9, <1>10, <1>11 DEF MbNext

(* The machine of grail is a bucket of one-time words.                       *)
THEOREM MachineIsOneTime == MbSpec => MachineIsBucket
<1>1. MbInit => OneTime!OpenInit
  <2> SUFFICES ASSUME MbInit PROVE OneTime!OpenInit
    OBVIOUS
  <2>1. SoundMachine(bucket)
    BY MbInitSound DEF MachineInv
  <2>2. Accepted(bucket) = {}
    <3>1. {} \in SUBSET Seq(Int) /\ IsFiniteSet({}) /\ fltofm({}) = Clear
      BY FS_EmptySet DEF fltofm
    <3>2. Accepted(Clear) = {}
      BY <3>1, TreeLanguage
    <3> QED
      BY <3>2 DEF MbInit
  <2>3. Language = {}
    BY <2>1, <2>2, LanguageOfSound
  <2>4. RedeemedText = <<>> /\ verdict = FALSE
    BY IssuedAssumption DEF MbInit, RedeemedText
  <2> QED
    BY <2>3, <2>4 DEF OneTime!OpenInit
<1> QED
  BY <1>1, MbInitSound, MbStep, PTL DEF MbSpec, MachineIsBucket, OneTime!OpenSpec
-----------------------------------------------------------------------------
(***************************************************************************)
(* The adapter.  Most functions of the class DFA make their result         *)
(* deterministic by subset() when it is not; that leaves to show that a    *)
(* machine subset() returns is deterministic, which needs the machine to   *)
(* be finite, and that Hopminimize(), which does not ask, keeps a          *)
(* deterministic machine deterministic.  Both number the states they meet: *)
(* the numbering meets each once.                                          *)
(***************************************************************************)

(* Images of finite sets are finite, and small ones have one element.        *)
LEMMA ImageIsFinite ==
    ASSUME NEW S, IsFiniteSet(S), NEW f
    PROVE  IsFiniteSet({f[x] : x \in S})
<1> DEFINE T == {f[x] : x \in S}
           g == [x \in S |-> f[x]]
<1>1. g \in [S -> T] /\ \A y \in T : \E x \in S : g[x] = y
  OBVIOUS
<1> HIDE DEF g, T
<1>2. g \in Surjection(S, T)
  BY <1>1 DEF Surjection
<1>3. IsFiniteSet(T)
  BY <1>2, FS_Surjection
<1> QED
  BY <1>3 DEF T

(* A finite set has at most one element exactly if its members are equal.    *)
LEMMA SmallSets ==
    ASSUME NEW S
    PROVE  /\ IsFiniteSet(S) /\ Cardinality(S) <= 1 => \A x, y \in S : x = y
           /\ (\A x, y \in S : x = y) => Cardinality(S) <= 1
<1>1. ASSUME IsFiniteSet(S), Cardinality(S) <= 1, NEW x \in S, NEW y \in S
      PROVE  x = y
  <2>1. Cardinality(S) \in Nat /\ S # {}
    BY <1>1, FS_CardinalityType
  <2>2. Cardinality(S) = 1
    BY <1>1, <2>1, FS_EmptySet
  <2>3. PICK z : S = {z}
    BY <1>1, <2>2, FS_Singleton
  <2> QED
    BY <1>1, <2>3
<1>2. ASSUME \A x, y \in S : x = y PROVE Cardinality(S) <= 1
  <2>1. CASE S = {}
    BY <2>1, FS_EmptySet
  <2>2. CASE S # {}
    <3>1. PICK z \in S : TRUE
      BY <2>2
    <3>2. S = {z}
      BY <1>2, <3>1
    <3> QED
      BY <3>2, FS_Singleton
  <2> QED
    BY <2>1, <2>2
<1> QED
  BY <1>1, <1>2

Settles(f, S, Stop, next) == f = [a \in S |-> IF a \in Stop THEN a ELSE f[next[a]]]

(* A recursion that stops: each item is the next one's until one is where it *)
(* stops; and what each step keeps, the item it stops at has.                *)
LEMMA StoppingRecursion ==
    ASSUME NEW S, NEW Stop \in SUBSET S, NEW next \in [S -> S]
    PROVE  \E f : Settles(f, S, Stop, next)
<1>0. CASE S = {}
  <2> DEFINE e == [a \in S |-> a]
  <2>1. e = [a \in S |-> IF a \in Stop THEN a ELSE e[next[a]]]
    BY <1>0
  <2> QED
    BY <2>1 DEF Settles
<1> SUFFICES ASSUME S # {} PROVE \E f : Settles(f, S, Stop, next)
  BY <1>0
<1> DEFINE g == [p \in Nat \X S |-> next[p[2]]]
           Path(a, h) == h \in [Nat -> S] /\ IsIteration(h, a, g)
           path(a) == CHOOSE h : Path(a, h)
<1>1. g \in [Nat \X S -> S]
  OBVIOUS
<1>2. ASSUME NEW a \in S PROVE Path(a, path(a))
  <2>1. \E h : Path(a, h)
    BY <1>1, Iterations
  <2> HIDE DEF Path
  <2> QED
    BY <2>1
<1>3. ASSUME NEW a \in S
      PROVE  /\ path(a) \in [Nat -> S] /\ path(a)[0] = a
             /\ \A k \in Nat : path(a)[k + 1] = next[path(a)[k]]
  <2>1. path(a) \in [Nat -> S] /\ IsIteration(path(a), a, g)
    BY <1>2
  <2> HIDE DEF path
  <2>2. ASSUME NEW k \in Nat PROVE path(a)[k + 1] = next[path(a)[k]]
    <3>1. path(a)[k] \in S
      BY <2>1
    <3>2. path(a)[k + 1] = g[<<k, path(a)[k]>>]
      BY <2>1 DEF IsIteration
    <3>3. <<k, path(a)[k]>> \in Nat \X S /\ <<k, path(a)[k]>>[2] = path(a)[k]
      BY <3>1
    <3> QED
      BY <3>2, <3>3
  <2> QED
    BY <2>1, <2>2 DEF IsIteration
<1> HIDE DEF path
<1>4. ASSUME NEW a \in S PROVE \A k \in Nat : path(next[a])[k] = path(a)[k + 1]
  <2> DEFINE Off == {k \in Nat : path(next[a])[k] # path(a)[k + 1]}
  <2> SUFFICES ASSUME Off # {} PROVE FALSE
    OBVIOUS
  <2>1. PICK k \in Off : \A x \in Off : k <= x
    <3>1. Off \in SUBSET Nat
      OBVIOUS
    <3> HIDE DEF Off
    <3> QED
      BY <3>1, LeastOfNaturals
  <2>2. k \in Nat /\ path(next[a])[k] # path(a)[k + 1]
    BY <2>1
  <2>3. next[a] \in S
    OBVIOUS
  <2>4. k # 0
    <3>1. path(a)[0 + 1] = next[path(a)[0]] /\ path(a)[0] = a /\ path(next[a])[0] = next[a]
      BY <1>3, <2>3
    <3> QED
      BY <2>2, <3>1
  <2>5. PICK j \in Nat : k = j + 1 /\ j < k
    <3>1. k - 1 \in Nat /\ k = (k - 1) + 1 /\ k - 1 < k
      BY <2>2, <2>4
    <3> QED
      BY <3>1
  <2>6. path(next[a])[j] = path(a)[j + 1]
    <3>1. j \notin Off
      BY <2>1, <2>5
    <3> QED
      BY <3>1
  <2>7. path(next[a])[j + 1] = next[path(next[a])[j]]
    BY <1>3, <2>3
  <2>8. path(a)[k + 1] = next[path(a)[k]]
    BY <1>3, <2>2
  <2> QED
    BY <2>2, <2>5, <2>6, <2>7, <2>8
<1> DEFINE Stops(a) == {k \in Nat : path(a)[k] \in Stop}
           first(a) == CHOOSE k \in Stops(a) : \A x \in Stops(a) : k <= x
           c == CHOOSE s \in S : TRUE
           f == [a \in S |-> IF Stops(a) = {} THEN c ELSE path(a)[first(a)]]
<1>5. ASSUME NEW a \in S, Stops(a) # {}
      PROVE  first(a) \in Stops(a) /\ \A x \in Stops(a) : first(a) <= x
  <2>1. Stops(a) \in SUBSET Nat
    OBVIOUS
  <2> HIDE DEF Stops
  <2> QED
    BY <1>5, <2>1, LeastOfNaturals
<1>6. ASSUME NEW a \in S PROVE f[a] = IF a \in Stop THEN a ELSE f[next[a]]
  <2>1. CASE a \in Stop
    <3>1. 0 \in Stops(a)
      BY <1>3, <2>1
    <3>2. first(a) \in Nat /\ first(a) <= 0
      <4>1. Stops(a) \in SUBSET Nat /\ Stops(a) # {}
        BY <3>1
      <4> HIDE DEF Stops, first
      <4> QED
        BY <1>5, <3>1, <4>1
    <3> HIDE DEF first, Stops
    <3>3. first(a) = 0
      BY <3>2
    <3> QED
      BY <1>3, <2>1, <3>1, <3>3
  <2>2. CASE a \notin Stop
    <3>1. next[a] \in S
      OBVIOUS
    <3>2. ASSUME NEW k \in Nat PROVE k \in Stops(next[a]) <=> k + 1 \in Stops(a)
      BY <1>4
    <3>3. 0 \notin Stops(a)
      BY <1>3, <2>2
    <3>4. Stops(a) \in SUBSET Nat /\ Stops(next[a]) \in SUBSET Nat
      OBVIOUS
    <3>5. ASSUME NEW k \in Stops(a) PROVE k - 1 \in Nat /\ k - 1 \in Stops(next[a]) /\ k \in Nat
      <4> HIDE DEF Stops
      <4>1. k \in Nat /\ k # 0
        BY <3>3, <3>4
      <4>2. k - 1 \in Nat /\ (k - 1) + 1 = k
        BY <4>1
      <4> QED
        BY <3>2, <4>1, <4>2
    <3>6. CASE Stops(a) = {}
      <4>1. Stops(next[a]) = {}
        <5> HIDE DEF Stops
        <5> QED
          BY <3>2, <3>4, <3>6
      <4> HIDE DEF Stops, first
      <4> QED
        BY <2>2, <3>1, <3>6, <4>1
    <3>7. CASE Stops(a) # {}
      <4>0. Stops(next[a]) # {}
        BY <3>5, <3>7
      <4> HIDE DEF Stops
      <4>1. first(a) \in Stops(a) /\ \A x \in Stops(a) : first(a) <= x
        BY <1>5, <3>7
      <4>2. first(next[a]) \in Stops(next[a]) /\ \A x \in Stops(next[a]) : first(next[a]) <= x
        BY <1>5, <3>1, <4>0
      <4> HIDE DEF first
      <4>3. first(next[a]) \in Nat /\ first(a) \in Nat
        BY <3>4, <4>1, <4>2
      <4>4. first(next[a]) <= first(a) - 1
        BY <3>5, <4>1, <4>2
      <4>5. first(a) <= first(next[a]) + 1
        BY <3>2, <4>1, <4>2, <4>3
      <4>6. first(a) = first(next[a]) + 1
        BY <4>3, <4>4, <4>5
      <4>7. path(next[a])[first(next[a])] = path(a)[first(next[a]) + 1]
        BY <1>4, <4>3
      <4> QED
        BY <2>2, <3>1, <3>7, <4>0, <4>6, <4>7
    <3> QED
      BY <3>6, <3>7
  <2> QED
    BY <2>1, <2>2
<1>7. f = [a \in S |-> f[a]]
  OBVIOUS
<1> HIDE DEF f
<1>8. Settles(f, S, Stop, next)
  BY <1>6, <1>7 DEF Settles
<1> QED
  BY <1>8

(* What a step keeps until it stops, and a measure that a step lowers: it    *)
(* stops, and what is kept holds there.                                      *)
LEMMA StoppingKeeps ==
    ASSUME NEW S, NEW Stop \in SUBSET S, NEW next \in [S -> S],
           NEW f, Settles(f, S, Stop, next),
           NEW Kept \in SUBSET S, NEW left \in [Kept -> Nat],
           \A a \in Kept : a \notin Stop => next[a] \in Kept /\ left[next[a]] < left[a]
    PROVE  \A a \in Kept : f[a] \in Kept /\ f[a] \in Stop
<1> DEFINE Bad == {a \in Kept : ~ (f[a] \in Kept /\ f[a] \in Stop)}
           Lefts == {left[a] : a \in Bad}
<1> SUFFICES ASSUME Bad # {} PROVE FALSE
  OBVIOUS
<1>1. Lefts \in SUBSET Nat /\ Lefts # {}
  OBVIOUS
<1>2. PICK n \in Lefts : \A x \in Lefts : n <= x
  <2> HIDE DEF Lefts
  <2> QED
    BY <1>1, LeastOfNaturals
<1>3. PICK a \in Bad : left[a] = n
  BY <1>2
<1>4. a \in Kept /\ a \in S /\ f[a] = IF a \in Stop THEN a ELSE f[next[a]]
  <2>1. a \in Kept /\ a \in S
    BY <1>3
  <2> HIDE DEF Bad
  <2> QED
    BY <2>1 DEF Settles
<1>5. a \notin Stop
  BY <1>3, <1>4
<1>6. next[a] \in Kept /\ left[next[a]] < left[a]
  BY <1>4, <1>5
<1>7. next[a] \notin Bad
  <2>1. left[next[a]] \in Nat /\ left[a] \in Nat /\ n \in Nat
    BY <1>1, <1>2, <1>4, <1>6
  <2> HIDE DEF Bad
  <2>2. next[a] \in Bad => n <= left[next[a]]
    BY <1>2
  <2> QED
    BY <1>3, <1>6, <2>1, <2>2
<1> QED
  BY <1>3, <1>4, <1>5, <1>6, <1>7

(* A function on 1 .. n is a list of n items.                                *)
LEMMA FunctionsAreLists ==
    ASSUME NEW S, NEW n \in Nat, NEW q \in [1 .. n -> S]
    PROVE  q \in Seq(S) /\ Len(q) = n
<1>1. q \in Seq(S)
  BY SeqDef
<1>2. Len(q) \in Nat /\ DOMAIN q = 1 .. Len(q) /\ DOMAIN q = 1 .. n
  BY <1>1, LenProperties
<1>3. ASSUME NEW l \in Nat, NEW k \in Nat, 1 .. l = 1 .. k PROVE l = k
  <2>1. l \in 1 .. l \/ l = 0
    OBVIOUS
  <2>2. k \in 1 .. k \/ k = 0
    OBVIOUS
  <2>3. l <= k /\ k <= l
    BY <1>3, <2>1, <2>2
  <2> QED
    BY <2>3
<1> QED
  BY <1>1, <1>2, <1>3

(* The least numbers first: every number of a finite set has one place.      *)
LEMMA AscendingNumbers ==
    ASSUME NEW T \in SUBSET Int, IsFiniteSet(T)
    PROVE  /\ Ascending(T) \in Seq(T) /\ Len(Ascending(T)) = Cardinality(T)
           /\ Cardinality(T) \in Nat
           /\ \A i, j \in 1 .. Cardinality(T) : Ascending(T)[i] = Ascending(T)[j] => i = j
           /\ \A s \in T : \E i \in 1 .. Cardinality(T) : Ascending(T)[i] = s
           /\ T # {} => \E s \in T : \A u \in T : s <= u
<1> DEFINE n == Cardinality(T)
           Below(s) == {u \in T : u < s}
           r == [s \in T |-> Cardinality(Below(s)) + 1]
<1>1. n \in Nat
  BY FS_CardinalityType
<1>2. ASSUME NEW s \in T
      PROVE  /\ IsFiniteSet(Below(s)) /\ Cardinality(Below(s)) \in Nat
             /\ Cardinality(Below(s)) <= n /\ Cardinality(Below(s)) # n
  <2>1. Below(s) \in SUBSET T /\ s \notin Below(s)
    OBVIOUS
  <2>2. IsFiniteSet(Below(s)) /\ Cardinality(Below(s)) <= n /\ (n = Cardinality(Below(s)) => T = Below(s))
    BY <2>1, FS_Subset
  <2>3. Cardinality(Below(s)) \in Nat
    BY <2>2, FS_CardinalityType
  <2> QED
    BY <2>1, <2>2, <2>3
<1>3. ASSUME NEW s \in T, NEW u \in T, s < u
      PROVE  Cardinality(Below(s)) # Cardinality(Below(u))
  <2>1. Below(s) \in SUBSET Below(u)
    <3>1. \A x, y, z \in Int : x < y /\ y < z => x < z
      OBVIOUS
    <3> QED
      BY <1>3, <3>1
  <2>2. s \in Below(u) /\ s \notin Below(s)
    BY <1>3
  <2> HIDE DEF Below
  <2>3. Cardinality(Below(u)) = Cardinality(Below(s)) => Below(u) = Below(s)
    BY <1>2, <2>1, FS_Subset
  <2> QED
    BY <2>2, <2>3
<1>4. ASSUME NEW s \in T, NEW u \in T, Cardinality(Below(s)) = Cardinality(Below(u)) PROVE s = u
  <2>1. s < u \/ u < s \/ s = u
    OBVIOUS
  <2> HIDE DEF Below
  <2> QED
    BY <1>3, <1>4, <2>1
<1> HIDE DEF n
<1>5. r \in [T -> 1 .. n] /\ \A s \in T : r[s] = Cardinality(Below(s)) + 1
  <2> HIDE DEF Below
  <2>1. ASSUME NEW s \in T PROVE Cardinality(Below(s)) + 1 \in 1 .. n
    BY <1>1, <1>2
  <2> QED
    BY <2>1
<1>6. \A s, u \in T : r[s] = r[u] => s = u
  <2> HIDE DEF Below, r
  <2>1. ASSUME NEW s \in T, NEW u \in T, r[s] = r[u]
        PROVE  Cardinality(Below(s)) = Cardinality(Below(u))
    BY <1>2, <1>5, <2>1
  <2> QED
    BY <1>4, <2>1
<1>7. \A i \in 1 .. n : \E s \in T : r[s] = i
  <2> HIDE DEF r
  <2>1. r \in Injection(T, 1 .. n)
    BY <1>5, <1>6 DEF Injection, IsInjective
  <2>2. IsFiniteSet(1 .. n) /\ Cardinality(1 .. n) = n
    BY <1>1, FS_Interval
  <2>3. r \in Surjection(T, 1 .. n)
    BY <2>1, <2>2, FS_Injection DEF n
  <2> QED
    BY <2>3 DEF Surjection
<1> DEFINE q == Ascending(T)
<1>8. q = [i \in 1 .. n |-> CHOOSE s \in T : Cardinality(Below(s)) = i - 1]
  BY DEF Ascending, n
<1>9. ASSUME NEW i \in 1 .. n PROVE q[i] \in T /\ Cardinality(Below(q[i])) = i - 1
  <2>1. PICK s \in T : r[s] = i
    BY <1>7
  <2>2. Cardinality(Below(s)) = i - 1
    <3> HIDE DEF Below, r
    <3> QED
      BY <1>1, <1>2, <1>5, <2>1
  <2>3. q[i] = CHOOSE x \in T : Cardinality(Below(x)) = i - 1
    BY <1>8
  <2> HIDE DEF Below, q
  <2> QED
    BY <2>2, <2>3
<1> HIDE DEF q, Below, r
<1>10. q \in Seq(T) /\ Len(q) = n
  <2>1. q \in [1 .. n -> T]
    BY <1>8, <1>9
  <2> QED
    BY <1>1, <2>1, FunctionsAreLists
<1>11. \A i, j \in 1 .. n : q[i] = q[j] => i = j
  <2>1. ASSUME NEW i \in 1 .. n, NEW j \in 1 .. n, q[i] = q[j] PROVE i = j
    <3>1. i - 1 = j - 1
      BY <1>9, <2>1
    <3> QED
      BY <1>1, <3>1
  <2> QED
    BY <2>1
<1>12. ASSUME NEW s \in T PROVE \E i \in 1 .. n : q[i] = s
  <2>1. PICK i \in 1 .. n : i = r[s]
    BY <1>5
  <2>2. Cardinality(Below(s)) = i - 1
    BY <1>1, <1>2, <1>5, <2>1
  <2>3. q[i] = s
    BY <1>4, <1>9, <2>2
  <2> QED
    BY <2>3
<1>13. T # {} => \E s \in T : \A u \in T : s <= u
  <2> SUFFICES ASSUME T # {} PROVE \E s \in T : \A u \in T : s <= u
    OBVIOUS
  <2>1. n # 0
    BY FS_EmptySet DEF n
  <2>2. 1 \in 1 .. n
    BY <1>1, <2>1
  <2>3. q[1] \in T /\ Cardinality(Below(q[1])) = 0
    BY <1>9, <2>2
  <2>4. Below(q[1]) = {}
    BY <1>2, <2>3, FS_EmptySet
  <2>5. \A u \in T : ~ (u < q[1])
    BY <2>4 DEF Below
  <2>6. \A u \in T : q[1] <= u
    <3>1. \A x, y \in Int : ~ (x < y) => y <= x
      OBVIOUS
    <3>2. q[1] \in Int
      BY <2>3
    <3> QED
      BY <2>5, <3>1, <3>2
  <2> QED
    BY <2>3, <2>6
<1> QED
  BY <1>1, <1>10, <1>11, <1>12, <1>13 DEF q, n

(* What the numbering goes through: what it has met, from the first item on, *)
(* each item once, and what lies ahead of the items before place i as well.  *)
Places(S) == [seq : Seq(S), i : Nat \ {0}]
Once(seq) == \A j, k \in 1 .. Len(seq) : seq[j] = seq[k] => j = k
Ahead(at, X, ahead) == \A j \in 1 .. at.i - 1 : \A x \in X : ahead[<<at.seq[j], x>>] \subseteq ToSet(at.seq)
Onward(at, first, X, ahead) ==
    /\ Len(at.seq) >= 1 /\ at.seq[1] = first /\ at.i <= Len(at.seq) + 1
    /\ Once(at.seq)
    /\ Ahead(at, X, ahead)

(* One place of the numbering: what is new ahead of it is met, once.         *)
NewOn(seq, s, x, ahead) == ahead[<<s, x>>] \ ToSet(seq)
FreshOn(seq, s, X, ahead) ==
    {x \in X : NewOn(seq, s, x, ahead) # {}
               /\ \A y \in X : y < x => NewOn(seq, s, y, ahead) # NewOn(seq, s, x, ahead)}
MetOn(seq, s, X, ahead) ==
    LET L == Ascending(FreshOn(seq, s, X, ahead))
    IN  seq \o [j \in DOMAIN L |-> CHOOSE u \in NewOn(seq, s, L[j], ahead) : TRUE]

(* One state's arcs: what was met keeps its place, what the arcs lead to is  *)
(* met, and nothing is met twice.                                            *)
LEMMA MetOnce ==
    ASSUME NEW X \in SUBSET Int, IsFiniteSet(X), NEW S,
           NEW ahead \in [S \X X -> SUBSET S], \A p \in S \X X : \A u, v \in ahead[p] : u = v,
           NEW seq \in Seq(S), NEW s \in S
    PROVE  LET met == MetOn(seq, s, X, ahead)
           IN  /\ met \in Seq(S) /\ Len(seq) <= Len(met)
               /\ \A j \in 1 .. Len(seq) : met[j] = seq[j]
               /\ Once(seq) => Once(met)
               /\ \A x \in X : ahead[<<s, x>>] \subseteq ToSet(met)
               /\ ToSet(seq) \subseteq ToSet(met)
<1> DEFINE New(x) == NewOn(seq, s, x, ahead)
           F == FreshOn(seq, s, X, ahead)
           L == Ascending(F)
           n == Cardinality(F)
           K == [j \in 1 .. n |-> CHOOSE u \in New(L[j]) : TRUE]
           met == seq \o K
<1>1. F = {x \in X : New(x) # {} /\ \A y \in X : y < x => New(y) # New(x)}
  BY DEF FreshOn
<1>2. ASSUME NEW x \in X
      PROVE  /\ New(x) \subseteq S /\ New(x) \subseteq ahead[<<s, x>>]
             /\ \A u, v \in New(x) : u = v
             /\ \A u \in New(x) : u \notin ToSet(seq)
  <2>1. <<s, x>> \in S \X X
    OBVIOUS
  <2>2. ahead[<<s, x>>] \subseteq S /\ \A u, v \in ahead[<<s, x>>] : u = v
    BY <2>1
  <2> QED
    BY <2>2 DEF NewOn
<1> HIDE DEF New, F
<1>3. F \in SUBSET X /\ F \in SUBSET Int /\ IsFiniteSet(F)
  <2>1. F \in SUBSET X
    BY <1>1
  <2> QED
    BY <2>1, FS_Subset
<1>4. /\ L \in Seq(F) /\ Len(L) = n /\ n \in Nat
      /\ \A i, j \in 1 .. n : L[i] = L[j] => i = j
      /\ \A x \in F : \E i \in 1 .. n : L[i] = x
  BY <1>3, AscendingNumbers
<1> HIDE DEF L, n
<1>5. ASSUME NEW j \in 1 .. n
      PROVE  /\ L[j] \in F /\ L[j] \in X /\ K[j] \in New(L[j]) /\ K[j] \in S
             /\ K[j] \notin ToSet(seq)
  <2>1. L[j] \in F /\ L[j] \in X
    BY <1>3, <1>4, ElementOfSeq
  <2>2. New(L[j]) # {}
    BY <1>1, <2>1
  <2>3. K[j] \in New(L[j])
    BY <2>2
  <2> QED
    BY <1>2, <2>1, <2>3
<1>6. K \in Seq(S) /\ Len(K) = n /\ DOMAIN L = 1 .. n
  <2>1. K \in [1 .. n -> S]
    BY <1>5
  <2>2. DOMAIN L = 1 .. n
    BY <1>4, LenProperties
  <2> HIDE DEF K
  <2> QED
    BY <1>4, <2>1, <2>2, FunctionsAreLists
<1>7. ASSUME NEW i \in 1 .. n, NEW j \in 1 .. n, K[i] = K[j] PROVE i = j
  <2>1. New(L[i]) = New(L[j])
    <3>1. New(L[i]) = {K[i]}
      BY <1>2, <1>5
    <3>2. New(L[j]) = {K[j]}
      BY <1>2, <1>5
    <3> QED
      BY <1>7, <3>1, <3>2
  <2>2. ~ (L[i] < L[j]) /\ ~ (L[j] < L[i])
    BY <1>1, <1>5, <2>1
  <2>3. L[i] = L[j]
    <3>1. \A x, y \in Int : ~ (x < y) /\ ~ (y < x) => x = y
      OBVIOUS
    <3>2. L[i] \in Int /\ L[j] \in Int
      BY <1>5
    <3> QED
      BY <2>2, <3>1, <3>2
  <2> QED
    BY <1>4, <2>3
<1> HIDE DEF K
<1>8. MetOn(seq, s, X, ahead) = met
  <2>1. MetOn(seq, s, X, ahead) = seq \o [j \in DOMAIN L |-> CHOOSE u \in New(L[j]) : TRUE]
    BY DEF MetOn, L, F, New
  <2> QED
    BY <1>6, <2>1 DEF K
<1>9. Len(seq) \in Nat /\ DOMAIN seq = 1 .. Len(seq)
  BY LenProperties
<1>10. /\ met \in Seq(S) /\ Len(met) = Len(seq) + n
       /\ \A j \in 1 .. Len(seq) + n : met[j] = IF j <= Len(seq) THEN seq[j] ELSE K[j - Len(seq)]
  BY <1>6, ConcatProperties
<1> HIDE DEF met
<1>11. DOMAIN met = 1 .. Len(seq) + n
  BY <1>10, LenProperties
<1>12. ASSUME NEW j \in 1 .. Len(seq) PROVE met[j] = seq[j] /\ j \in DOMAIN met
  BY <1>4, <1>9, <1>10, <1>11
<1>13. ASSUME NEW j \in 1 .. n PROVE met[Len(seq) + j] = K[j] /\ Len(seq) + j \in DOMAIN met
  <2>1. Len(seq) + j \in 1 .. Len(seq) + n /\ ~ (Len(seq) + j <= Len(seq)) /\ (Len(seq) + j) - Len(seq) = j
    BY <1>4, <1>9
  <2> QED
    BY <1>10, <1>11, <2>1
<1>14. ASSUME NEW j \in DOMAIN met
       PROVE  j \in 1 .. Len(seq) \/ \E i \in 1 .. n : j = Len(seq) + i
  <2>1. j \in 1 .. Len(seq) \/ (j - Len(seq) \in 1 .. n /\ j = Len(seq) + (j - Len(seq)))
    BY <1>4, <1>9, <1>11
  <2> QED
    BY <2>1
<1>15. ToSet(seq) \subseteq ToSet(met)
  BY <1>9, <1>12 DEF ToSet
<1>16. ASSUME NEW j \in 1 .. Len(seq), NEW i \in 1 .. n PROVE seq[j] # K[i]
  BY <1>5, <1>9 DEF ToSet
<1>17. ASSUME Once(seq), NEW j \in DOMAIN met, NEW k \in DOMAIN met, met[j] = met[k] PROVE j = k
  <2>1. CASE j \in 1 .. Len(seq) /\ k \in 1 .. Len(seq)
    BY <1>12, <1>17, <2>1 DEF Once
  <2>2. CASE j \in 1 .. Len(seq) /\ \E i \in 1 .. n : k = Len(seq) + i
    BY <1>12, <1>13, <1>16, <1>17, <2>2
  <2>3. CASE k \in 1 .. Len(seq) /\ \E i \in 1 .. n : j = Len(seq) + i
    BY <1>12, <1>13, <1>16, <1>17, <2>3
  <2>4. CASE (\E i \in 1 .. n : j = Len(seq) + i) /\ \E i \in 1 .. n : k = Len(seq) + i
    BY <1>7, <1>13, <1>17, <2>4
  <2> QED
    BY <1>14, <2>1, <2>2, <2>3, <2>4
<1>18. ASSUME NEW x \in X, NEW u \in ahead[<<s, x>>] PROVE u \in ToSet(met)
  <2>1. CASE u \in ToSet(seq)
    BY <1>15, <2>1
  <2>2. CASE u \notin ToSet(seq)
    <3>1. u \in New(x)
      BY <1>18, <2>2 DEF New, NewOn
    <3> DEFINE Y == {y \in X : New(y) = New(x)}
    <3>2. Y \in SUBSET Int /\ IsFiniteSet(Y) /\ Y # {}
      <4>1. Y \in SUBSET X /\ x \in Y
        OBVIOUS
      <4> HIDE DEF Y
      <4> QED
        BY <4>1, FS_Subset
    <3>3. PICK y \in Y : \A z \in Y : y <= z
      <4> HIDE DEF Y
      <4> QED
        BY <3>2, AscendingNumbers
    <3>4. y \in X /\ New(y) = New(x)
      BY <3>3
    <3>5. ASSUME NEW z \in X, z < y PROVE New(z) # New(y)
      <4>1. \A a, b \in Int : a < b => ~ (b <= a)
        OBVIOUS
      <4>2. z \notin Y
        BY <3>3, <3>4, <3>5, <4>1
      <4> QED
        BY <3>4, <4>2
    <3>6. y \in F
      BY <1>1, <3>1, <3>4, <3>5
    <3>7. PICK i \in 1 .. n : L[i] = y
      BY <1>4, <3>6
    <3>8. K[i] \in New(x)
      BY <1>5, <3>4, <3>7
    <3>9. K[i] = u
      BY <1>2, <3>1, <3>8
    <3> QED
      BY <1>13, <3>9 DEF ToSet
  <2> QED
    BY <2>1, <2>2
<1>19. Len(seq) <= Len(met)
  BY <1>4, <1>9, <1>10
<1> QED
  BY <1>8, <1>10, <1>11, <1>12, <1>15, <1>17, <1>18, <1>19 DEF Once

(* The whole numbering: it starts with the first, numbers each item once, and *)
(* numbers all that the arcs of the numbered lead to.                        *)
LEMMA NumberedOnce ==
    ASSUME NEW X \in SUBSET Int, IsFiniteSet(X), NEW S, IsFiniteSet(S), NEW first \in S,
           NEW ahead \in [S \X X -> SUBSET S], \A p \in S \X X : \A u, v \in ahead[p] : u = v
    PROVE  LET met == Numbered(first, X, S, ahead)
           IN  /\ met \in Seq(S) /\ Len(met) >= 1 /\ met[1] = first
               /\ Once(met)
               /\ \A j \in 1 .. Len(met) : \A x \in X : ahead[<<met[j], x>>] \subseteq ToSet(met)
<1> DEFINE D == Places(S)
           Stop == {at \in D : at.i > Len(at.seq)}
           Met(at) == MetOn(at.seq, at.seq[at.i], X, ahead)
           To(at) == [seq |-> Met(at), i |-> at.i + 1]
           R(f) == f = [at \in D |-> IF at.i > Len(at.seq) THEN at ELSE f[To(at)]]
           from == CHOOSE f : R(f)
           start == [seq |-> <<first>>, i |-> 1]
           next == [at \in D |-> IF at \in Stop THEN at ELSE To(at)]
           Kept == {at \in D : Onward(at, first, X, ahead)}
           left == [at \in Kept |-> Cardinality(S) + 1 - at.i]
<1>1. Numbered(first, X, S, ahead) = from[start].seq
  BY DEF Numbered, Places, MetOn, FreshOn, NewOn
<1>2. ASSUME NEW at \in D
      PROVE  /\ at.seq \in Seq(S) /\ at.i \in Nat /\ at.i >= 1 /\ Len(at.seq) \in Nat
             /\ at = [seq |-> at.seq, i |-> at.i]
             /\ at \notin Stop => at.i \in 1 .. Len(at.seq) /\ at.seq[at.i] \in S
  <2>1. at.seq \in Seq(S) /\ at.i \in Nat \ {0} /\ at = [seq |-> at.seq, i |-> at.i]
    BY DEF Places
  <2>2. Len(at.seq) \in Nat
    BY <2>1, LenProperties
  <2>3. at \notin Stop => at.i \in 1 .. Len(at.seq)
    BY <2>1, <2>2
  <2>4. at \notin Stop => at.seq[at.i] \in S
    BY <2>1, <2>3, ElementOfSeq
  <2> QED
    BY <2>1, <2>2, <2>3, <2>4
<1>3. ASSUME NEW at \in D, at \notin Stop
      PROVE  /\ Met(at) \in Seq(S) /\ Len(at.seq) <= Len(Met(at))
             /\ \A j \in 1 .. Len(at.seq) : Met(at)[j] = at.seq[j]
             /\ Once(at.seq) => Once(Met(at))
             /\ \A x \in X : ahead[<<at.seq[at.i], x>>] \subseteq ToSet(Met(at))
             /\ ToSet(at.seq) \subseteq ToSet(Met(at))
  <2>1. at.seq \in Seq(S) /\ at.seq[at.i] \in S
    BY <1>2, <1>3
  <2> QED
    BY <2>1, MetOnce
<1> HIDE DEF Met
<1>4. ASSUME NEW at \in D, at \notin Stop
      PROVE  To(at) \in D /\ To(at).seq = Met(at) /\ To(at).i = at.i + 1
  <2>1. Met(at) \in Seq(S) /\ at.i + 1 \in Nat \ {0}
    BY <1>2, <1>3, <1>4
  <2> QED
    BY <2>1 DEF Places
<1> HIDE DEF To
<1>5. next \in [D -> D] /\ Stop \in SUBSET D
  <2>1. ASSUME NEW at \in D PROVE (IF at \in Stop THEN at ELSE To(at)) \in D
    BY <1>4
  <2> HIDE DEF D, Stop
  <2>2. next \in [D -> D]
    BY <2>1
  <2> QED
    BY <2>2 DEF Stop
<1>6. R(from)
  <2>1. PICK f : Settles(f, D, Stop, next)
    <3> HIDE DEF D, Stop, next
    <3> QED
      BY <1>5, StoppingRecursion
  <2>2. ASSUME NEW at \in D
        PROVE  (IF at \in Stop THEN at ELSE f[next[at]]) = IF at.i > Len(at.seq) THEN at ELSE f[To(at)]
    <3> HIDE DEF D
    <3> QED
      BY DEF Stop
  <2>3. R(f)
    <3> HIDE DEF D, Stop, next
    <3> QED
      BY <2>1, <2>2 DEF Settles
  <2> HIDE DEF R
  <2> QED
    BY <2>3
<1> HIDE DEF from
<1>7. Settles(from, D, Stop, next)
  <2>1. ASSUME NEW at \in D
        PROVE  (IF at \in Stop THEN at ELSE from[next[at]]) = IF at.i > Len(at.seq) THEN at ELSE from[To(at)]
    <3> HIDE DEF D
    <3> QED
      BY DEF Stop
  <2> HIDE DEF D, Stop, next
  <2> QED
    BY <1>6, <2>1 DEF Settles
<1> HIDE DEF R
<1>8. ASSUME NEW at \in Kept
      PROVE  /\ at \in D /\ Len(at.seq) \in Nat /\ Len(at.seq) <= Cardinality(S)
             /\ Cardinality(S) + 1 - at.i \in Nat /\ Cardinality(S) \in Nat
  <2>1. at \in D /\ Once(at.seq) /\ at.i <= Len(at.seq) + 1
    BY DEF Onward
  <2>2. at.seq \in Seq(S) /\ at.i \in Nat /\ Len(at.seq) \in Nat
    BY <1>2, <2>1
  <2>3. at.seq \in [1 .. Len(at.seq) -> S]
    BY <2>2, LenProperties
  <2>4. at.seq \in Injection(1 .. Len(at.seq), S)
    BY <2>1, <2>3 DEF Once, Injection, IsInjective
  <2>5. Cardinality(1 .. Len(at.seq)) <= Cardinality(S)
    BY <2>4, FS_Injection
  <2>6. Cardinality(1 .. Len(at.seq)) = Len(at.seq)
    BY <2>2, FS_Interval
  <2>7. Cardinality(S) \in Nat
    BY FS_CardinalityType
  <2>8. Len(at.seq) <= Cardinality(S)
    BY <2>5, <2>6
  <2> HIDE DEF D, Kept
  <2>9. Cardinality(S) + 1 - at.i \in Nat
    BY <2>1, <2>2, <2>7, <2>8
  <2> QED
    BY <2>1, <2>2, <2>7, <2>8, <2>9
<1>9. ASSUME NEW at \in Kept, at \notin Stop PROVE next[at] \in Kept /\ left[next[at]] < left[at]
  <2>1. at \in D /\ Onward(at, first, X, ahead)
    OBVIOUS
  <2> DEFINE to == To(at)
  <2>2. next[at] = to /\ to \in D /\ to.seq = Met(at) /\ to.i = at.i + 1
    BY <1>4, <1>9, <2>1
  <2> HIDE DEF to, D, Kept, Stop, next
  <2>3. /\ Met(at) \in Seq(S) /\ Len(at.seq) <= Len(Met(at))
        /\ \A j \in 1 .. Len(at.seq) : Met(at)[j] = at.seq[j]
        /\ Once(at.seq) => Once(Met(at))
        /\ \A x \in X : ahead[<<at.seq[at.i], x>>] \subseteq ToSet(Met(at))
        /\ ToSet(at.seq) \subseteq ToSet(Met(at))
    BY <1>3, <1>9, <2>1
  <2>4. /\ at.i \in Nat /\ at.i >= 1 /\ Len(at.seq) \in Nat /\ at.i \in 1 .. Len(at.seq)
        /\ Len(Met(at)) \in Nat
    BY <1>2, <1>9, <2>1, <2>3, LenProperties
  <2>5. Len(to.seq) >= 1 /\ to.i <= Len(to.seq) + 1
    BY <2>2, <2>3, <2>4
  <2>6. to.seq[1] = first /\ Once(to.seq)
    <3>1. 1 \in 1 .. Len(at.seq)
      BY <2>4
    <3> QED
      BY <2>1, <2>2, <2>3, <3>1 DEF Onward
  <2>7. Ahead(to, X, ahead)
    <3> SUFFICES ASSUME NEW j \in 1 .. to.i - 1, NEW x \in X
                 PROVE  ahead[<<to.seq[j], x>>] \subseteq ToSet(to.seq)
      BY DEF Ahead
    <3>1. j \in 1 .. at.i /\ j \in 1 .. Len(at.seq)
      BY <2>2, <2>4
    <3>2. to.seq[j] = at.seq[j]
      BY <2>2, <2>3, <3>1
    <3>3. CASE j = at.i
      BY <2>2, <2>3, <3>2, <3>3
    <3>4. CASE j # at.i
      <4>1. j \in 1 .. at.i - 1
        BY <2>4, <3>1, <3>4
      <4>2. ahead[<<at.seq[j], x>>] \subseteq ToSet(at.seq)
        BY <2>1, <4>1 DEF Onward, Ahead
      <4> QED
        BY <2>2, <2>3, <3>2, <4>2
    <3> QED
      BY <3>3, <3>4
  <2>8. to \in Kept
    BY <2>2, <2>5, <2>6, <2>7 DEF Kept, Onward
  <2>9. left[to] < left[at]
    <3>1. left[to] = Cardinality(S) + 1 - to.i /\ left[at] = Cardinality(S) + 1 - at.i
      BY <2>8
    <3>2. Cardinality(S) \in Nat
      BY <1>8
    <3> HIDE DEF left
    <3> QED
      BY <2>2, <2>4, <3>1, <3>2
  <2> QED
    BY <2>2, <2>8, <2>9
<1>10. start \in Kept
  <2> DEFINE q == <<first>>
  <2>1. q \in Seq(S) /\ Len(q) = 1 /\ q[1] = first
    OBVIOUS
  <2> HIDE DEF q
  <2>2. start \in D /\ start.seq = q /\ start.i = 1
    BY <2>1 DEF Places, q
  <2> HIDE DEF start, D
  <2>3. Once(q) /\ Ahead(start, X, ahead)
    <3>1. 1 .. start.i - 1 = {}
      BY <2>2
    <3> QED
      BY <2>1, <3>1 DEF Once, Ahead
  <2> QED
    BY <2>1, <2>2, <2>3 DEF Onward
<1>11. left \in [Kept -> Nat] /\ Kept \in SUBSET D
  <2>1. Kept \in SUBSET D
    OBVIOUS
  <2> HIDE DEF Kept
  <2> QED
    BY <1>8, <2>1
<1>12. from[start] \in Kept /\ from[start] \in Stop
  <2> HIDE DEF D, Stop, next, Kept, left, start
  <2>1. \A a \in Kept : a \notin Stop => next[a] \in Kept /\ left[next[a]] < left[a]
    BY <1>9
  <2>2. \A a \in Kept : from[a] \in Kept /\ from[a] \in Stop
    <3>1. \A K \in SUBSET D : \A l \in [K -> Nat] :
            (\A a \in K : a \notin Stop => next[a] \in K /\ l[next[a]] < l[a])
               => \A a \in K : from[a] \in K /\ from[a] \in Stop
      BY <1>5, <1>7, StoppingKeeps
    <3> QED
      BY <1>11, <2>1, <3>1
  <2> QED
    BY <1>10, <2>2
<1> DEFINE end == from[start]
<1>13. end \in D /\ Onward(end, first, X, ahead) /\ end.i > Len(end.seq)
  BY <1>12
<1> HIDE DEF end, D
<1>14. end.i \in Nat /\ Len(end.seq) \in Nat /\ end.seq \in Seq(S)
  BY <1>2, <1>13
<1>15. end.i - 1 = Len(end.seq)
  BY <1>13, <1>14 DEF Onward
<1> QED
  BY <1>1, <1>13, <1>14, <1>15 DEF end, Onward, Ahead

Finite(m) ==
    /\ m = [start |-> m.start, final |-> m.final, arcs |-> m.arcs]
    /\ IsFiniteSet(m.start) /\ IsFiniteSet(m.final) /\ IsFiniteSet(m.arcs)
    /\ \A t \in m.arcs : t[2] \in Int

(* One start state, and one sink for each source and label.                  *)
Determinate(m) ==
    /\ \E s : m.start = {s}
    /\ \A t, u \in m.arcs : t[1] = u[1] /\ t[2] = u[2] => t[3] = u[3]

(* Three finite sets with labels for letters make such a machine.            *)
LEMMA FiniteRecord ==
    ASSUME NEW A, IsFiniteSet(A), NEW B, IsFiniteSet(B), NEW C, IsFiniteSet(C),
           \A t \in C : t[2] \in Int
    PROVE  Finite([start |-> A, final |-> B, arcs |-> C])
BY DEF Finite

(* What replacing some of a machine's three sets makes of it.                *)
LEMMA FieldsReplaced ==
    ASSUME NEW m, m = [start |-> m.start, final |-> m.final, arcs |-> m.arcs],
           NEW A, NEW B, NEW C
    PROVE  /\ [m EXCEPT !.arcs = C] = [start |-> m.start, final |-> m.final, arcs |-> C]
           /\ [m EXCEPT !.final = B, !.arcs = C] = [start |-> m.start, final |-> B, arcs |-> C]
           /\ [m EXCEPT !.start = A, !.arcs = C] = [start |-> A, final |-> m.final, arcs |-> C]
<1>1. ASSUME NEW S1, NEW S2, NEW S3, NEW q \in [start : S1, final : S2, arcs : S3],
             NEW a \in S1, NEW b \in S2, NEW c \in S3
      PROVE  /\ [q EXCEPT !.arcs = c] = [start |-> q.start, final |-> q.final, arcs |-> c]
             /\ [q EXCEPT !.final = b] = [start |-> q.start, final |-> b, arcs |-> q.arcs]
             /\ [q EXCEPT !.start = a] = [start |-> a, final |-> q.final, arcs |-> q.arcs]
  OBVIOUS
<1> DEFINE S1 == {m.start, A}
           S2 == {m.final, B}
           S3 == {m.arcs, C}
<1>2. m \in [start : S1, final : S2, arcs : S3]
  <2>1. m.start \in S1 /\ m.final \in S2 /\ m.arcs \in S3
    OBVIOUS
  <2> HIDE DEF S1, S2, S3
  <2> QED
    BY <2>1
<1>3. A \in S1 /\ B \in S2 /\ C \in S3
  OBVIOUS
<1> HIDE DEF S1, S2, S3
<1>4. [m EXCEPT !.arcs = C] = [start |-> m.start, final |-> m.final, arcs |-> C]
  BY <1>1, <1>2, <1>3
<1>5. [m EXCEPT !.final = B, !.arcs = C] = [start |-> m.start, final |-> B, arcs |-> C]
  <2> DEFINE r == [m EXCEPT !.final = B]
  <2>1. r \in [start : S1, final : S2, arcs : S3] /\ r.start = m.start /\ r.final = B
    BY <1>2, <1>3
  <2> HIDE DEF r
  <2>2. [r EXCEPT !.arcs = C] = [start |-> r.start, final |-> r.final, arcs |-> C]
    BY <1>1, <1>3, <2>1
  <2> QED
    BY <2>1, <2>2 DEF r
<1>6. [m EXCEPT !.start = A, !.arcs = C] = [start |-> A, final |-> m.final, arcs |-> C]
  <2> DEFINE r == [m EXCEPT !.start = A]
  <2>1. r \in [start : S1, final : S2, arcs : S3] /\ r.start = A /\ r.final = m.final
    BY <1>2, <1>3
  <2> HIDE DEF r
  <2>2. [r EXCEPT !.arcs = C] = [start |-> r.start, final |-> r.final, arcs |-> C]
    BY <1>1, <1>3, <2>1
  <2> QED
    BY <2>1, <2>2 DEF r
<1> QED
  BY <1>4, <1>5, <1>6

(* Arcs made one for each member of a finite set.                            *)
LEMMA ArcsThrough ==
    ASSUME NEW S, IsFiniteSet(S), NEW f, \A x \in S : f[x][2] \in Int
    PROVE  IsFiniteSet({f[x] : x \in S}) /\ \A t \in {f[x] : x \in S} : t[2] \in Int
BY ImageIsFinite

(* The same of a set that only has such images in it.                        *)
LEMMA ArcsWithin ==
    ASSUME NEW S, IsFiniteSet(S), NEW f, NEW N, \A e \in N : \E x \in S : e = f[x]
    PROVE  /\ IsFiniteSet(N)
           /\ (\A x \in S : f[x][2] \in Int) => \A t \in N : t[2] \in Int
<1>1. N \in SUBSET {f[x] : x \in S}
  OBVIOUS
<1>2. IsFiniteSet({f[x] : x \in S})
  BY ImageIsFinite
<1>3. IsFiniteSet(N)
  BY <1>1, <1>2, FS_Subset
<1> QED
  BY <1>3

(* Such a machine has finitely many states and labels, and all of its arcs   *)
(* are between its states.                                                   *)
LEMMA FiniteStates ==
    ASSUME NEW m, Finite(m)
    PROVE  /\ IsFiniteSet(states(m)) /\ number_of_states(m) \in Nat
           /\ IsFiniteSet(labels(m)) /\ labels(m) \in SUBSET Int
           /\ m.start \subseteq states(m) /\ m.final \subseteq states(m)
           /\ \A t \in m.arcs : t[1] \in states(m) /\ t[2] \in labels(m) /\ t[3] \in states(m)
<1> DEFINE f == [t \in m.arcs |-> {t[1], t[3]}]
           g == [t \in m.arcs |-> t[2]]
           E == {f[t] : t \in m.arcs}
<1>0. IsFiniteSet(m.start) /\ IsFiniteSet(m.final) /\ IsFiniteSet(m.arcs)
  BY DEF Finite
<1>1. IsFiniteSet(E)
  <2> HIDE DEF f
  <2> QED
    BY <1>0, ImageIsFinite
<1>2. ASSUME NEW e \in E PROVE IsFiniteSet(e)
  <2>1. PICK t \in m.arcs : e = {t[1], t[3]}
    OBVIOUS
  <2>2. e = {t[1]} \cup {t[3]}
    BY <2>1
  <2> QED
    BY <2>2, FS_Singleton, FS_AddElement
<1>3. E = {{t[1], t[3]} : t \in m.arcs}
  OBVIOUS
<1> HIDE DEF E
<1>4. IsFiniteSet(UNION E)
  BY <1>1, <1>2, FS_UNION
<1>5. states(m) = (m.start \cup m.final) \cup UNION E
  BY <1>3 DEF states
<1>6. IsFiniteSet(states(m))
  BY <1>0, <1>4, <1>5, FS_Union
<1>7. IsFiniteSet(labels(m))
  <2>1. labels(m) = {g[t] : t \in m.arcs}
    BY DEF labels
  <2> HIDE DEF g
  <2> QED
    BY <1>0, <2>1, ImageIsFinite
<1>8. number_of_states(m) \in Nat
  BY <1>6, FS_CardinalityType DEF number_of_states
<1>9. \A t \in m.arcs : t[1] \in states(m) /\ t[2] \in labels(m) /\ t[3] \in states(m)
  BY DEF states, labels
<1>10. labels(m) \in SUBSET Int
  BY DEF labels, Finite
<1>11. m.start \subseteq states(m) /\ m.final \subseteq states(m)
  BY DEF states
<1> QED
  BY <1>6, <1>7, <1>8, <1>9, <1>10, <1>11

(* So is what a set of states leads to.                                      *)
LEMMA FiniteSinks ==
    ASSUME NEW m, Finite(m), NEW S, NEW x
    PROVE  IsFiniteSet(SinksOn(m, S, x)) /\ SinksOn(m, S, x) \subseteq states(m)
<1>1. SinksOn(m, S, x) \in SUBSET states(m)
  BY FiniteStates DEF SinksOn
<1> QED
  BY <1>1, FiniteStates, FS_Subset

(* is_deterministic() counts start states and sinks: of a finite machine it  *)
(* says that there is one start state and that arcs do not differ in the sink *)
(* only.                                                                     *)
LEMMA DeterministicMeans ==
    ASSUME NEW m, Finite(m)
    PROVE  is_deterministic(m) <=> Determinate(m)
<1>1. ASSUME is_deterministic(m) PROVE Determinate(m)
  <2>1. \E s : m.start = {s}
    BY <1>1, FS_Singleton DEF is_deterministic, Finite
  <2>2. ASSUME NEW t \in m.arcs, NEW u \in m.arcs, t[1] = u[1], t[2] = u[2] PROVE t[3] = u[3]
    <3>1. t[1] \in states(m) /\ t[2] \in labels(m)
      BY FiniteStates
    <3> DEFINE Z == SinksOn(m, {t[1]}, t[2])
    <3>2. t[3] \in Z /\ u[3] \in Z
      BY <2>2 DEF SinksOn
    <3>3. IsFiniteSet(Z) /\ Cardinality(Z) <= 1
      BY <1>1, <3>1, FiniteSinks DEF is_deterministic
    <3> HIDE DEF Z
    <3> QED
      BY <3>2, <3>3, SmallSets
  <2> QED
    BY <2>1, <2>2 DEF Determinate
<1>2. ASSUME Determinate(m) PROVE is_deterministic(m)
  <2>1. Cardinality(m.start) = 1
    BY <1>2, FS_Singleton DEF Determinate
  <2>2. ASSUME NEW s, NEW x PROVE Cardinality(SinksOn(m, {s}, x)) <= 1
    <3>1. \A y, z \in SinksOn(m, {s}, x) : y = z
      BY <1>2 DEF Determinate, SinksOn
    <3> QED
      BY <3>1, SmallSets
  <2> QED
    BY <2>1, <2>2 DEF is_deterministic
<1> QED
  BY <1>1, <1>2
-----------------------------------------------------------------------------
(* The operations of fm, one by one: each returns a finite machine.          *)
LEMMA FiniteReverse ==
    ASSUME NEW m, Finite(m)
    PROVE  Finite(reverse(m))
<1> DEFINE f == [t \in m.arcs |-> <<t[3], t[2], t[1]>>]
           C == {f[t] : t \in m.arcs}
<1>1. \A t \in m.arcs : f[t][2] \in Int
  BY DEF Finite
<1>2. reverse(m) = [start |-> m.final, final |-> m.start, arcs |-> C]
  BY DEF reverse
<1> HIDE DEF f
<1>3. IsFiniteSet(C) /\ \A t \in C : t[2] \in Int
  BY <1>1, ArcsThrough DEF Finite
<1> HIDE DEF C
<1> QED
  BY <1>2, <1>3, FiniteRecord DEF Finite

(* reachable_fm() only leaves arcs and final states out, and no start state. *)
LEMMA FiniteReachable ==
    ASSUME NEW m, Finite(m)
    PROVE  /\ Finite(reachable_fm(m))
           /\ Determinate(m) => Determinate(reachable_fm(m))
<1> DEFINE Re == reachable_states(m)
           B == m.final \cap Re
           C == {t \in m.arcs : t[1] \in Re /\ t[3] \in Re}
<1>1. reachable_fm(m) = [m EXCEPT !.final = B, !.arcs = C]
  BY DEF reachable_fm
<1>2. B \in SUBSET m.final /\ C \in SUBSET m.arcs
  OBVIOUS
<1> HIDE DEF B, C
<1>3. reachable_fm(m) = [start |-> m.start, final |-> B, arcs |-> C]
  BY <1>1, FieldsReplaced DEF Finite
<1>4. IsFiniteSet(B) /\ IsFiniteSet(C) /\ \A t \in C : t[2] \in Int
  BY <1>2, FS_Subset DEF Finite
<1>5. Finite(reachable_fm(m))
  BY <1>3, <1>4, FiniteRecord DEF Finite
<1>6. Determinate(m) => Determinate(reachable_fm(m))
  BY <1>2, <1>3 DEF Determinate
<1> QED
  BY <1>5, <1>6

(* useful_fm() leaves out what leads to no final state.                      *)
LEMMA FiniteUseful ==
    ASSUME NEW m, Finite(m)
    PROVE  Finite(useful_fm(m))
<1> DEFINE V == reachable_states(reverse(m))
           A == m.start \cap V
           C == {t \in m.arcs : t[1] \in V /\ t[3] \in V}
<1>1. useful_fm(m) = [m EXCEPT !.start = A, !.arcs = C]
  BY DEF useful_fm
<1>2. A \in SUBSET m.start /\ C \in SUBSET m.arcs
  OBVIOUS
<1> HIDE DEF A, C
<1>3. useful_fm(m) = [start |-> A, final |-> m.final, arcs |-> C]
  BY <1>1, FieldsReplaced DEF Finite
<1>4. IsFiniteSet(A) /\ IsFiniteSet(C) /\ \A t \in C : t[2] \in Int
  BY <1>2, FS_Subset DEF Finite
<1> QED
  BY <1>3, <1>4, FiniteRecord DEF Finite

(* reduce() is either of these, or the machine of nothing.                   *)
LEMMA FiniteReduce ==
    ASSUME NEW m, Finite(m)
    PROVE  Finite(reduce(m))
<1>1. Finite([start |-> {0}, final |-> {}, arcs |-> {<<0, 1, 0>>}])
  <2> DEFINE C == {<<0, 1, 0>>}
  <2>1. IsFiniteSet({0}) /\ IsFiniteSet({}) /\ IsFiniteSet(C)
    BY FS_Singleton, FS_EmptySet
  <2>2. \A t \in C : t[2] \in Int
    OBVIOUS
  <2> HIDE DEF C
  <2>3. Finite([start |-> {0}, final |-> {}, arcs |-> C])
    BY <2>1, <2>2, FiniteRecord
  <2> QED
    BY <2>3 DEF C
<1>2. Finite(useful_fm(reachable_fm(m)))
  BY FiniteReachable, FiniteUseful
<1> QED
  BY <1>1, <1>2 DEF reduce

(* plus() leads what enters a final state to the start states as well.       *)
LEMMA FinitePlus ==
    ASSUME NEW m, Finite(m)
    PROVE  Finite(plus(m))
<1> DEFINE T == {u \in m.arcs : u[3] \in m.final}
           f == [p \in T \X m.start |-> <<p[1][1], p[1][2], p[2]>>]
           N == {<<t[1], t[2], s>> : t \in T, s \in m.start}
           C == m.arcs \cup N
<1>1. ASSUME NEW e \in N PROVE \E p \in T \X m.start : e = f[p]
  <2>0. PICK t \in T, s \in m.start : e = <<t[1], t[2], s>>
    OBVIOUS
  <2>1. <<t, s>> \in T \X m.start /\ <<t, s>>[1] = t /\ <<t, s>>[2] = s
    OBVIOUS
  <2>2. f[<<t, s>>] = <<t[1], t[2], s>>
    BY <2>1
  <2> HIDE DEF N, T, f
  <2> QED
    BY <2>0, <2>1, <2>2
<1>2. plus(m) = [m EXCEPT !.arcs = C]
  BY DEF plus
<1>3. IsFiniteSet(T \X m.start)
  <2>1. T \in SUBSET m.arcs
    OBVIOUS
  <2> HIDE DEF T
  <2> QED
    BY <2>1, FS_Subset, FS_Product DEF Finite
<1>4. \A p \in T \X m.start : f[p][2] \in Int
  BY DEF Finite
<1> HIDE DEF N, T, f
<1>5. IsFiniteSet(N) /\ \A t \in N : t[2] \in Int
  BY <1>1, <1>3, <1>4, ArcsWithin
<1>6. IsFiniteSet(C) /\ \A t \in C : t[2] \in Int
  BY <1>5, FS_Union DEF Finite
<1> HIDE DEF C
<1>7. plus(m) = [start |-> m.start, final |-> m.final, arcs |-> C]
  BY <1>2, FieldsReplaced DEF Finite
<1> QED
  BY <1>6, <1>7, FiniteRecord DEF Finite

(* star() adds a start state that is final, too.                             *)
LEMMA FiniteStar ==
    ASSUME NEW m, Finite(m)
    PROVE  Finite(star(m))
<1> DEFINE p == plus(m)
           clone == max_state(p) + 1
           T == {u \in p.arcs : u[1] \in p.start}
           f == [t \in T |-> <<clone, t[2], t[3]>>]
           N == {f[t] : t \in T}
           C == p.arcs \cup N
           B == p.final \cup {clone}
<1>1. Finite(p)
  BY FinitePlus
<1> HIDE DEF p
<1>2. star(m) = [start |-> {clone}, final |-> B, arcs |-> C]
  BY DEF star, p
<1> HIDE DEF clone
<1>3. IsFiniteSet(T)
  <2>1. T \in SUBSET p.arcs
    OBVIOUS
  <2> HIDE DEF T
  <2> QED
    BY <1>1, <2>1, FS_Subset DEF Finite
<1>4. \A t \in T : f[t][2] \in Int
  BY <1>1 DEF Finite
<1> HIDE DEF T, f
<1>5. IsFiniteSet(N) /\ \A t \in N : t[2] \in Int
  BY <1>3, <1>4, ArcsThrough
<1> HIDE DEF N
<1>6. IsFiniteSet(C) /\ (\A t \in C : t[2] \in Int) /\ IsFiniteSet(B) /\ IsFiniteSet({clone})
  BY <1>1, <1>5, FS_Union, FS_AddElement, FS_Singleton DEF Finite
<1> HIDE DEF C, B
<1> QED
  BY <1>2, <1>6, FiniteRecord

(* renumber() shifts the numbers of the states.                              *)
LEMMA FiniteRenumber ==
    ASSUME NEW m, Finite(m), NEW d
    PROVE  Finite(renumber(m, d))
<1> DEFINE a == [s \in m.start |-> s + d]
           b == [s \in m.final |-> s + d]
           f == [t \in m.arcs |-> <<t[1] + d, t[2], t[3] + d>>]
           A == {a[s] : s \in m.start}
           B == {b[s] : s \in m.final}
           C == {f[t] : t \in m.arcs}
<1>1. renumber(m, d) = [start |-> A, final |-> B, arcs |-> C]
  BY DEF renumber
<1>2. \A t \in m.arcs : f[t][2] \in Int
  BY DEF Finite
<1> HIDE DEF a, b, f
<1>3. IsFiniteSet(A) /\ IsFiniteSet(B)
  BY ImageIsFinite DEF Finite
<1>4. IsFiniteSet(C) /\ \A t \in C : t[2] \in Int
  BY <1>2, ArcsThrough DEF Finite
<1> HIDE DEF A, B, C
<1> QED
  BY <1>1, <1>3, <1>4, FiniteRecord

(* operator += puts both next to each other.                                 *)
LEMMA FiniteUnite ==
    ASSUME NEW m, Finite(m), NEW o, Finite(o)
    PROVE  Finite(unite(m, o))
<1> DEFINE b == renumber(o, max_state(m) + 1)
<1>1. Finite(b)
  BY FiniteRenumber
<1>2. unite(m, o) = [start |-> m.start \cup b.start, final |-> m.final \cup b.final,
                     arcs |-> m.arcs \cup b.arcs]
  BY DEF unite
<1> HIDE DEF b
<1>3. /\ IsFiniteSet(m.start \cup b.start) /\ IsFiniteSet(m.final \cup b.final)
      /\ IsFiniteSet(m.arcs \cup b.arcs)
      /\ \A t \in m.arcs \cup b.arcs : t[2] \in Int
  BY <1>1, FS_Union DEF Finite
<1> QED
  BY <1>2, <1>3, FiniteRecord

(* operator ^= redirects the arcs of the second one's start states.          *)
LEMMA FiniteCatenate ==
    ASSUME NEW m, Finite(m), NEW o, Finite(o)
    PROVE  Finite(catenate(m, o))
<1> DEFINE b == renumber(o, max_state(m) + 1)
           T == Redirected(b)
           f == [p \in m.final \X T |-> <<p[1], p[2][2], p[2][3]>>]
           N == {<<g, t[2], t[3]>> : g \in m.final, t \in T}
           K == b.arcs \ Dropped(b)
           B == IF o.start \cap o.final # {} THEN m.final \cup b.final ELSE b.final
           C == m.arcs \cup N \cup K
<1>1. Finite(b)
  BY FiniteRenumber
<1> HIDE DEF b
<1>2. ASSUME NEW e \in N PROVE \E p \in m.final \X T : e = f[p]
  <2> HIDE DEF T
  <2>0. PICK g \in m.final, t \in T : e = <<g, t[2], t[3]>>
    OBVIOUS
  <2>1. <<g, t>> \in m.final \X T /\ <<g, t>>[1] = g /\ <<g, t>>[2] = t
    OBVIOUS
  <2>2. f[<<g, t>>] = <<g, t[2], t[3]>>
    BY <2>1
  <2> HIDE DEF N, f
  <2> QED
    BY <2>0, <2>1, <2>2
<1>3. catenate(m, o) = [start |-> m.start, final |-> B, arcs |-> C]
  BY DEF catenate, b
<1>4. T \in SUBSET b.arcs /\ K \in SUBSET b.arcs
  BY DEF Redirected
<1> HIDE DEF K
<1>5. \A p \in m.final \X T : f[p][2] \in Int
  BY <1>1, <1>4 DEF Finite
<1> HIDE DEF N, T, f
<1>6. IsFiniteSet(m.final \X T) /\ IsFiniteSet(K)
  BY <1>1, <1>4, FS_Subset, FS_Product DEF Finite
<1>7. IsFiniteSet(N) /\ \A t \in N : t[2] \in Int
  BY <1>2, <1>5, <1>6, ArcsWithin
<1>8. IsFiniteSet(C) /\ \A t \in C : t[2] \in Int
  BY <1>1, <1>4, <1>6, <1>7, FS_Union DEF Finite
<1>9. IsFiniteSet(B) /\ IsFiniteSet(m.start)
  BY <1>1, FS_Union DEF Finite
<1> HIDE DEF B, C
<1> QED
  BY <1>3, <1>8, <1>9, FiniteRecord

(* The numbers given to the pairs of two sets.                               *)
LEMMA PairsAreFinite ==
    ASSUME NEW S, IsFiniteSet(S), NEW T, IsFiniteSet(T), NEW max,
           NEW A, \A e \in A : \E s \in S, u \in T : e = s + u * max
    PROVE  IsFiniteSet(A)
<1> DEFINE f == [p \in S \X T |-> p[1] + p[2] * max]
<1>1. ASSUME NEW e \in A PROVE \E p \in S \X T : e = f[p]
  <2>0. PICK s \in S, u \in T : e = s + u * max
    OBVIOUS
  <2>1. <<s, u>> \in S \X T /\ <<s, u>>[1] = s /\ <<s, u>>[2] = u
    OBVIOUS
  <2>2. f[<<s, u>>] = s + u * max
    BY <2>1
  <2> HIDE DEF f
  <2> QED
    BY <2>0, <2>1, <2>2
<1> HIDE DEF f
<1>2. IsFiniteSet(S \X T)
  BY FS_Product
<1> QED
  BY <1>1, <1>2, ArcsWithin

(* cross_product() runs both at once, on the labels they share.              *)
LEMMA FiniteCross ==
    ASSUME NEW m, Finite(m), NEW o, Finite(o)
    PROVE  Finite(cross_product(m, o))
<1> DEFINE max == max_state(m) + 1
           P == {q \in m.arcs \X o.arcs : q[1][2] = q[2][2]}
           f == [p \in P |-> <<p[1][1] + p[2][1] * max, p[1][2], p[1][3] + p[2][3] * max>>]
           A == {s + u * max : s \in m.start, u \in o.start}
           B == {s + u * max : s \in m.final, u \in o.final}
           C == {<<p[1][1] + p[2][1] * max, p[1][2], p[1][3] + p[2][3] * max>> : p \in P}
<1>1. cross_product(m, o) = [start |-> A, final |-> B, arcs |-> C]
  BY DEF cross_product
<1>2. IsFiniteSet(m.start) /\ IsFiniteSet(m.final) /\ IsFiniteSet(m.arcs)
  BY DEF Finite
<1>3. IsFiniteSet(o.start) /\ IsFiniteSet(o.final) /\ IsFiniteSet(o.arcs)
  BY DEF Finite
<1>4. IsFiniteSet(A)
  <2>1. \A e \in A : \E s \in m.start, u \in o.start : e = s + u * max
    OBVIOUS
  <2> HIDE DEF A, max
  <2> QED
    BY <1>2, <1>3, <2>1, PairsAreFinite
<1>5. IsFiniteSet(B)
  <2>1. \A e \in B : \E s \in m.final, u \in o.final : e = s + u * max
    OBVIOUS
  <2> HIDE DEF B, max
  <2> QED
    BY <1>2, <1>3, <2>1, PairsAreFinite
<1>6. \A p \in P : f[p][2] \in Int
  BY DEF Finite
<1>7. P \in SUBSET (m.arcs \X o.arcs)
  OBVIOUS
<1> HIDE DEF max
<1>8. \A e \in C : \E p \in P : e = f[p]
  <2> HIDE DEF P
  <2> QED
    OBVIOUS
<1> HIDE DEF P, f, A, B, C
<1>9. IsFiniteSet(P)
  BY <1>2, <1>3, <1>7, FS_Product, FS_Subset
<1>10. IsFiniteSet(C) /\ \A t \in C : t[2] \in Int
  BY <1>6, <1>8, <1>9, ArcsWithin
<1> QED
  BY <1>1, <1>4, <1>5, <1>10, FiniteRecord

(* The shuffle runs one or the other.                                        *)
LEMMA FiniteShuffle ==
    ASSUME NEW m, Finite(m), NEW o, Finite(o)
    PROVE  Finite(Shuffled(m, o))
<1> DEFINE n == number_of_states(m)
           P == m.arcs \X (0 .. number_of_states(o) - 1)
           Q == o.arcs \X (0 .. number_of_states(m) - 1)
           f == [p \in P |-> <<p[1][1] + p[2] * n, p[1][2], p[1][3] + p[2] * n>>]
           g == [p \in Q |-> <<p[2] + p[1][1] * n, p[1][2], p[2] + p[1][3] * n>>]
           A == {s + u * n : s \in m.start, u \in o.start}
           B == {s + u * n : s \in m.final, u \in o.final}
           C == {<<t[1] + k * n, t[2], t[3] + k * n>> :
                    t \in m.arcs, k \in 0 .. number_of_states(o) - 1}
           D == {<<k + t[1] * n, t[2], k + t[3] * n>> :
                    t \in o.arcs, k \in 0 .. number_of_states(m) - 1}
<1>1. Shuffled(m, o) = [start |-> A, final |-> B, arcs |-> C \cup D]
  BY DEF Shuffled
<1>2. IsFiniteSet(m.start) /\ IsFiniteSet(m.final) /\ IsFiniteSet(m.arcs)
  BY DEF Finite
<1>3. IsFiniteSet(o.start) /\ IsFiniteSet(o.final) /\ IsFiniteSet(o.arcs)
  BY DEF Finite
<1>4. IsFiniteSet(A)
  <2>1. \A e \in A : \E s \in m.start, u \in o.start : e = s + u * n
    OBVIOUS
  <2> HIDE DEF A, n
  <2> QED
    BY <1>2, <1>3, <2>1, PairsAreFinite
<1>5. IsFiniteSet(B)
  <2>1. \A e \in B : \E s \in m.final, u \in o.final : e = s + u * n
    OBVIOUS
  <2> HIDE DEF B, n
  <2> QED
    BY <1>2, <1>3, <2>1, PairsAreFinite
<1>6. IsFiniteSet(P) /\ IsFiniteSet(Q)
  <2> DEFINE I == 0 .. number_of_states(o) - 1
             J == 0 .. number_of_states(m) - 1
  <2>1. number_of_states(o) - 1 \in Int /\ number_of_states(m) - 1 \in Int
    BY FiniteStates
  <2>2. IsFiniteSet(I) /\ IsFiniteSet(J)
    BY <2>1, FS_Interval
  <2> HIDE DEF I, J
  <2>3. IsFiniteSet(m.arcs \X I) /\ IsFiniteSet(o.arcs \X J)
    BY <1>2, <1>3, <2>2, FS_Product
  <2> QED
    BY <2>3 DEF I, J
<1>7. \A p \in P : f[p][2] \in Int
  BY DEF Finite
<1>8. \A p \in Q : g[p][2] \in Int
  BY DEF Finite
<1> HIDE DEF n
<1>9. ASSUME NEW e \in C PROVE \E p \in P : e = f[p]
  <2>1. PICK t \in m.arcs, k \in 0 .. number_of_states(o) - 1 : e = <<t[1] + k * n, t[2], t[3] + k * n>>
    OBVIOUS
  <2>2. <<t, k>> \in P /\ <<t, k>>[1] = t /\ <<t, k>>[2] = k
    OBVIOUS
  <2> HIDE DEF P, C
  <2>3. f[<<t, k>>] = <<t[1] + k * n, t[2], t[3] + k * n>>
    BY <2>2
  <2> HIDE DEF f
  <2> QED
    BY <2>1, <2>2, <2>3
<1>10. ASSUME NEW e \in D PROVE \E p \in Q : e = g[p]
  <2>1. PICK t \in o.arcs, k \in 0 .. number_of_states(m) - 1 : e = <<k + t[1] * n, t[2], k + t[3] * n>>
    OBVIOUS
  <2>2. <<t, k>> \in Q /\ <<t, k>>[1] = t /\ <<t, k>>[2] = k
    OBVIOUS
  <2> HIDE DEF Q, D
  <2>3. g[<<t, k>>] = <<k + t[1] * n, t[2], k + t[3] * n>>
    BY <2>2
  <2> HIDE DEF g
  <2> QED
    BY <2>1, <2>2, <2>3
<1> HIDE DEF P, Q, f, g, A, B, C, D
<1>11. IsFiniteSet(C) /\ \A t \in C : t[2] \in Int
  BY <1>6, <1>7, <1>9, ArcsWithin
<1>12. IsFiniteSet(D) /\ \A t \in D : t[2] \in Int
  BY <1>6, <1>8, <1>10, ArcsWithin
<1> DEFINE E == C \cup D
<1>13. IsFiniteSet(E) /\ \A t \in E : t[2] \in Int
  BY <1>11, <1>12, FS_Union
<1> HIDE DEF E
<1>14. Finite([start |-> A, final |-> B, arcs |-> E])
  BY <1>4, <1>5, <1>13, FiniteRecord
<1> QED
  BY <1>1, <1>14 DEF E

(* What is left of a machine by the two trims is finite, too.                *)
LEMMA FiniteTrimmed ==
    ASSUME NEW m, Finite(m)
    PROVE  Finite(Trimmed(m))
BY FiniteReverse, FiniteReachable DEF Trimmed

(* The subset construction: the sink of an arc depends on its source and its *)
(* label alone.                                                              *)
LEMMA SubsetIsDeterministic ==
    ASSUME NEW m, Finite(m)
    PROVE  Finite(subset(m)) /\ is_deterministic(subset(m))
<1>0. CASE is_deterministic(m)
  BY <1>0 DEF subset
<1> SUFFICES ASSUME ~ is_deterministic(m)
             PROVE  Finite(subset(m)) /\ is_deterministic(subset(m))
  BY <1>0
<1> DEFINE t == Trimmed(m)
           On(S, x) == SinksOn(t, S, x)
           ahead == [p \in (SUBSET states(t)) \X labels(t) |-> {On(p[1], p[2])} \ {{}}]
           met == Numbered(t.start, labels(t), SUBSET states(t), ahead)
           G == {j \in DOMAIN met : met[j] \cap t.final # {}}
           Q == {q \in (DOMAIN met) \X labels(t) : On(met[q[1]], q[2]) # {}}
           h == [i \in G |-> i - 1]
           f == [p \in Q |-> <<p[1] - 1, p[2], Place(met, On(met[p[1]], p[2])) - 1>>]
           B == {h[i] : i \in G}
           C == {f[p] : p \in Q}
<1>1. subset(m) = [start |-> {0}, final |-> B, arcs |-> C]
  <2>1. B = {i - 1 : i \in G}
    OBVIOUS
  <2>2. C = {<<p[1] - 1, p[2], Place(met, On(met[p[1]], p[2])) - 1>> : p \in Q}
    <3> HIDE DEF Q, met, On
    <3> QED
      OBVIOUS
  <2> HIDE DEF B, C
  <2> QED
    BY <2>1, <2>2 DEF subset
<1>2. Finite(t)
  BY FiniteTrimmed
<1> HIDE DEF t
<1>3. /\ labels(t) \in SUBSET Int /\ IsFiniteSet(labels(t))
      /\ IsFiniteSet(SUBSET states(t)) /\ t.start \in SUBSET states(t)
  BY <1>2, FiniteStates, FS_SUBSET
<1>4. \A p \in (SUBSET states(t)) \X labels(t) : On(p[1], p[2]) \in SUBSET states(t)
  BY <1>2, FiniteSinks
<1> HIDE DEF On
<1>5. /\ ahead \in [(SUBSET states(t)) \X labels(t) -> SUBSET (SUBSET states(t))]
      /\ \A p \in (SUBSET states(t)) \X labels(t) : \A u, v \in ahead[p] : u = v
  BY <1>4
<1> HIDE DEF ahead
<1>6. met \in Seq(SUBSET states(t))
  BY <1>3, <1>5, NumberedOnce
<1> HIDE DEF met
<1>7. Len(met) \in Nat /\ DOMAIN met = 1 .. Len(met) /\ IsFiniteSet(DOMAIN met) /\ DOMAIN met \in SUBSET Int
  <2>1. Len(met) \in Nat /\ DOMAIN met = 1 .. Len(met)
    BY <1>6, LenProperties
  <2> QED
    BY <2>1, FS_Interval
<1>8. IsFiniteSet(G) /\ IsFiniteSet(Q)
  <2>1. G \in SUBSET DOMAIN met /\ Q \in SUBSET ((DOMAIN met) \X labels(t))
    OBVIOUS
  <2> HIDE DEF G, Q
  <2> QED
    BY <1>3, <1>7, <2>1, FS_Subset, FS_Product
<1>9. \A p \in Q : /\ p[1] \in Int /\ p[2] \in Int /\ p = <<p[1], p[2]>>
                   /\ f[p] = <<p[1] - 1, p[2], Place(met, On(met[p[1]], p[2])) - 1>>
  BY <1>3, <1>7
<1> HIDE DEF Q, f, G, h
<1>10. IsFiniteSet(B)
  BY <1>8, ImageIsFinite
<1>11. IsFiniteSet(C) /\ \A e \in C : e[2] \in Int
  BY <1>8, <1>9, ArcsThrough
<1>12. ASSUME NEW a \in C, NEW c \in C, a[1] = c[1], a[2] = c[2] PROVE a[3] = c[3]
  <2>1. PICK p \in Q, q \in Q : a = f[p] /\ c = f[q]
    OBVIOUS
  <2>2. p[1] = q[1] /\ p[2] = q[2]
    BY <1>9, <1>12, <2>1
  <2> QED
    BY <1>9, <2>1, <2>2
<1> HIDE DEF B, C
<1>13. IsFiniteSet({0})
  BY FS_Singleton
<1>14. Finite(subset(m))
  BY <1>1, <1>10, <1>11, <1>13, FiniteRecord
<1>15. Determinate(subset(m))
  BY <1>1, <1>12 DEF Determinate
<1> QED
  BY <1>14, <1>15, DeterministicMeans

(* Where an item is in a list that has it once.                              *)
LEMMA PlacesOfItems ==
    ASSUME NEW S, NEW met \in Seq(S), NEW s \in ToSet(met)
    PROVE  Place(met, s) \in 1 .. Len(met) /\ met[Place(met, s)] = s
<1>1. DOMAIN met = 1 .. Len(met)
  BY LenProperties
<1>2. \E i \in DOMAIN met : met[i] = s
  BY DEF ToSet
<1> QED
  BY <1>1, <1>2 DEF Place

(* The states are numbered as they are met: each once, from the start state  *)
(* on, and with a state whatever its arcs lead to.                           *)
Renumbering(m, met) ==
    LET Met == ToSet(met)
        New(s) == Place(met, s) - 1
    IN  [start |-> {0}, final |-> {New(s) : s \in m.final \cap Met},
         arcs  |-> {<<New(t[1]), t[2], New(t[3])>> : t \in {u \in m.arcs : u[1] \in Met}}]

(* canonical_numbering() numbers the states as it meets them.                *)
LEMMA CanonicalNumbers ==
    ASSUME NEW m, Finite(m), is_deterministic(m)
    PROVE  \E met \in Seq(states(m)) :
              /\ Len(met) >= 1 /\ m.start = {met[1]} /\ Once(met)
              /\ \A t \in m.arcs : t[1] \in ToSet(met) => t[3] \in ToSet(met)
              /\ canonical_numbering(m) = Renumbering(m, met)
<1> DEFINE s0 == CHOOSE s \in m.start : TRUE
           ahead == [p \in states(m) \X labels(m) |-> SinksOn(m, {p[1]}, p[2])]
           met == Numbered(s0, labels(m), states(m), ahead)
           Met == ToSet(met)
<1>1. canonical_numbering(m) = Renumbering(m, met)
  BY DEF canonical_numbering, Renumbering
<1>2. Determinate(m)
  BY DeterministicMeans
<1>3. s0 \in states(m) /\ m.start = {s0}
  <2>1. m.start = {s0}
    BY <1>2 DEF Determinate
  <2> HIDE DEF s0
  <2> QED
    BY <2>1, FiniteStates
<1> HIDE DEF s0
<1>4. /\ ahead \in [states(m) \X labels(m) -> SUBSET states(m)]
      /\ \A p \in states(m) \X labels(m) : \A u, v \in ahead[p] : u = v
  <2>1. ASSUME NEW p \in states(m) \X labels(m)
        PROVE  /\ SinksOn(m, {p[1]}, p[2]) \in SUBSET states(m)
               /\ \A u, v \in SinksOn(m, {p[1]}, p[2]) : u = v
    <3>1. SinksOn(m, {p[1]}, p[2]) \in SUBSET states(m)
      BY FiniteSinks
    <3>2. \A u, v \in SinksOn(m, {p[1]}, p[2]) : u = v
      BY <1>2 DEF SinksOn, Determinate
    <3> QED
      BY <3>1, <3>2
  <2> QED
    BY <2>1
<1>5. ASSUME NEW t \in m.arcs PROVE t[3] \in ahead[<<t[1], t[2]>>]
  <2>1. <<t[1], t[2]>> \in states(m) \X labels(m) /\ <<t[1], t[2]>>[1] = t[1] /\ <<t[1], t[2]>>[2] = t[2]
    BY FiniteStates
  <2>2. ahead[<<t[1], t[2]>>] = SinksOn(m, {t[1]}, t[2])
    BY <2>1
  <2> QED
    BY <2>2 DEF SinksOn
<1> HIDE DEF ahead
<1>6. /\ met \in Seq(states(m)) /\ Len(met) >= 1 /\ met[1] = s0 /\ Once(met)
      /\ \A j \in 1 .. Len(met) : \A x \in labels(m) : ahead[<<met[j], x>>] \subseteq ToSet(met)
  <2> DEFINE X == labels(m)
             S == states(m)
  <2>1. X \in SUBSET Int /\ IsFiniteSet(X) /\ IsFiniteSet(S)
    BY FiniteStates
  <2>2. s0 \in S /\ ahead \in [S \X X -> SUBSET S] /\ \A p \in S \X X : \A u, v \in ahead[p] : u = v
    BY <1>3, <1>4
  <2> HIDE DEF X, S
  <2> DEFINE q == Numbered(s0, X, S, ahead)
  <2>3. /\ q \in Seq(S) /\ Len(q) >= 1 /\ q[1] = s0
        /\ Once(q)
        /\ \A j \in 1 .. Len(q) : \A x \in X : ahead[<<q[j], x>>] \subseteq ToSet(q)
    BY <2>1, <2>2, NumberedOnce, Zenon
  <2> HIDE DEF q
  <2> QED
    BY <2>3 DEF q, X, S
<1> HIDE DEF met
<1>7. ASSUME NEW s \in Met
      PROVE  Place(met, s) \in 1 .. Len(met) /\ met[Place(met, s)] = s
  BY <1>6, PlacesOfItems
<1>8. ASSUME NEW t \in m.arcs, t[1] \in Met PROVE t[3] \in Met
  <2>1. t[2] \in labels(m)
    BY FiniteStates
  <2>2. Place(met, t[1]) \in 1 .. Len(met) /\ met[Place(met, t[1])] = t[1]
    BY <1>7, <1>8
  <2>3. ahead[<<t[1], t[2]>>] \subseteq Met
    BY <1>6, <2>1, <2>2
  <2> QED
    BY <1>5, <2>3
<1> QED
  BY <1>1, <1>3, <1>6, <1>8

(* The numbered machine is finite and deterministic.                         *)
LEMMA CanonicalMachine ==
    ASSUME NEW m, Finite(m), is_deterministic(m)
    PROVE  LET c == canonical_numbering(m)
           IN  Finite(c) /\ Determinate(c) /\ \E b \in Nat : Bounded(c, b)
<1>a. PICK met \in Seq(states(m)) :
              /\ Len(met) >= 1 /\ m.start = {met[1]} /\ Once(met)
              /\ \A t \in m.arcs : t[1] \in ToSet(met) => t[3] \in ToSet(met)
              /\ canonical_numbering(m) = Renumbering(m, met)
  BY CanonicalNumbers
<1> DEFINE Met == ToSet(met)
           G == m.final \cap Met
           T == {u \in m.arcs : u[1] \in Met}
           h == [s \in G |-> Place(met, s) - 1]
           f == [t \in T |-> <<Place(met, t[1]) - 1, t[2], Place(met, t[3]) - 1>>]
           B == {h[s] : s \in G}
           C == {f[t] : t \in T}
           c == canonical_numbering(m)
<1>1. c = [start |-> {0}, final |-> B, arcs |-> C]
  <2>1. B = {Place(met, s) - 1 : s \in G}
    <3> HIDE DEF G
    <3> QED
      OBVIOUS
  <2>2. C = {<<Place(met, t[1]) - 1, t[2], Place(met, t[3]) - 1>> : t \in T}
    <3> HIDE DEF T
    <3> QED
      OBVIOUS
  <2> HIDE DEF B, C
  <2> QED
    BY <1>a, <2>1, <2>2 DEF Renumbering
<1> HIDE DEF c
<1>2. Determinate(m)
  BY DeterministicMeans
<1>7. ASSUME NEW s \in Met
      PROVE  Place(met, s) \in 1 .. Len(met) /\ met[Place(met, s)] = s
  BY PlacesOfItems
<1>8. ASSUME NEW t \in T PROVE t \in m.arcs /\ t[1] \in Met /\ t[2] \in Int /\ t[3] \in Met
  BY <1>a, FiniteStates
<1> DEFINE b == Len(met)
<1>9. b \in Nat
  BY LenProperties
<1> HIDE DEF b, Met
<1>10. ASSUME NEW s \in Met PROVE Place(met, s) - 1 \in 0 .. b
  BY <1>7, <1>9 DEF b
<1>11. \A t \in T : f[t] = <<Place(met, t[1]) - 1, t[2], Place(met, t[3]) - 1>>
  OBVIOUS
<1>12. \A s \in G : h[s] = Place(met, s) - 1 /\ s \in Met
  OBVIOUS
<1>13. IsFiniteSet(G) /\ IsFiniteSet(T)
  <2>1. G \in SUBSET m.final /\ T \in SUBSET m.arcs
    OBVIOUS
  <2> HIDE DEF G, T
  <2> QED
    BY <2>1, FS_Subset DEF Finite
<1> HIDE DEF f, h, G, T
<1>14. IsFiniteSet(B)
  BY <1>13, ImageIsFinite
<1>15. IsFiniteSet(C) /\ \A e \in C : e[2] \in Int
  BY <1>8, <1>11, <1>13, ArcsThrough
<1>16. B \in SUBSET (0 .. b)
  BY <1>10, <1>12
<1>17. C \in SUBSET ((0 .. b) \X Int \X (0 .. b))
  <2>1. ASSUME NEW t \in T PROVE f[t] \in (0 .. b) \X Int \X (0 .. b)
    <3>1. Place(met, t[1]) - 1 \in 0 .. b /\ t[2] \in Int /\ Place(met, t[3]) - 1 \in 0 .. b
      BY <1>8, <1>10
    <3>2. \A i, k \in 0 .. b : \A x \in Int : <<i, x, k>> \in (0 .. b) \X Int \X (0 .. b)
      OBVIOUS
    <3>3. f[t] = <<Place(met, t[1]) - 1, t[2], Place(met, t[3]) - 1>>
      BY <1>11
    <3> QED
      BY <3>1, <3>2, <3>3
  <2> QED
    BY <2>1
<1>18. ASSUME NEW a \in C, NEW e \in C, a[1] = e[1], a[2] = e[2] PROVE a[3] = e[3]
  <2>1. PICK t \in T, u \in T : a = f[t] /\ e = f[u]
    OBVIOUS
  <2>2. Place(met, t[1]) - 1 = Place(met, u[1]) - 1 /\ t[2] = u[2]
    BY <1>11, <1>18, <2>1
  <2>3. Place(met, t[1]) = Place(met, u[1])
    <3>1. Place(met, t[1]) \in Int /\ Place(met, u[1]) \in Int
      BY <1>7, <1>8
    <3> QED
      BY <2>2, <3>1
  <2>4. t[1] = u[1]
    BY <1>7, <1>8, <2>3
  <2>5. t[3] = u[3]
    BY <1>2, <1>8, <2>2, <2>4 DEF Determinate
  <2> QED
    BY <1>11, <2>1, <2>5
<1> HIDE DEF B, C
<1>19. Finite(c)
  BY <1>1, <1>14, <1>15, FS_Singleton, FiniteRecord
<1>20. Determinate(c)
  BY <1>1, <1>18 DEF Determinate
<1>21. Bounded(c, b)
  <2>1. {0} \in SUBSET (0 .. b)
    BY <1>9
  <2> QED
    BY <1>1, <1>16, <1>17, <2>1 DEF Bounded
<1> QED
  BY <1>9, <1>19, <1>20, <1>21 DEF c

(* canonical_numbering() leaves others than deterministic machines alone.    *)
LEMMA FiniteCanonical ==
    ASSUME NEW m, Finite(m)
    PROVE  Finite(canonical_numbering(m))
<1>1. CASE is_deterministic(m)
  BY <1>1, CanonicalMachine
<1>2. CASE ~ is_deterministic(m)
  BY <1>2 DEF canonical_numbering
<1> QED
  BY <1>1, <1>2

(* Completing adds arcs only where there are none, to a state that is new.   *)
LEMMA CompleteMachine ==
    ASSUME NEW m, Finite(m)
    PROVE  /\ Finite(complete(m))
           /\ \A b \in Nat : Bounded(m, b) /\ Determinate(m) => Determinate(complete(m))
<1> DEFINE X == labels(m)
           Lacking(s) == Cardinality({t \in m.arcs : t[1] = s}) # Cardinality(X)
           sink == max_state(m) + 1
           P == {q \in states(m) \X X : Lacking(q[1]) /\ SinksOn(m, {q[1]}, q[2]) = {}}
           f == [x \in X |-> <<sink, x, sink>>]
           g == [p \in P |-> <<p[1], p[2], sink>>]
           A == {f[x] : x \in X}
           B == {g[p] : p \in P}
           C == m.arcs \cup A \cup B
<1>0. CASE \A s \in states(m) : ~ Lacking(s)
  BY <1>0 DEF complete
<1> SUFFICES ASSUME ~ \A s \in states(m) : ~ Lacking(s)
             PROVE  /\ Finite(complete(m))
                    /\ \A b \in Nat : Bounded(m, b) /\ Determinate(m) => Determinate(complete(m))
  BY <1>0
<1>1. complete(m) = [m EXCEPT !.arcs = C]
  <2>1. A = {<<sink, x, sink>> : x \in X}
    <3> HIDE DEF X, sink
    <3> QED
      OBVIOUS
  <2>2. B = {<<p[1], p[2], sink>> : p \in P}
    <3> HIDE DEF P, sink
    <3> QED
      OBVIOUS
  <2> HIDE DEF A, B
  <2> QED
    BY <2>1, <2>2 DEF complete
<1>2. X \in SUBSET Int /\ IsFiniteSet(X) /\ IsFiniteSet(states(m))
  BY FiniteStates
<1> HIDE DEF Lacking
<1>3. \A p \in P : p[1] \in states(m) /\ p[2] \in X /\ SinksOn(m, {p[1]}, p[2]) = {}
  OBVIOUS
<1>4. P \in SUBSET (states(m) \X X)
  OBVIOUS
<1> HIDE DEF X, P, sink
<1>5. IsFiniteSet(P)
  BY <1>2, <1>4, FS_Product, FS_Subset
<1>6. \A x \in X : f[x] = <<sink, x, sink>>
  OBVIOUS
<1>7. \A p \in P : g[p] = <<p[1], p[2], sink>>
  OBVIOUS
<1> HIDE DEF f, g
<1>8. IsFiniteSet(A) /\ \A t \in A : t[2] \in Int
  <2>1. \A x \in X : f[x][2] \in Int
    BY <1>2, <1>6
  <2> QED
    BY <1>2, <2>1, ArcsThrough
<1>9. IsFiniteSet(B) /\ \A t \in B : t[2] \in Int
  <2>1. ASSUME NEW p \in P PROVE g[p][2] \in Int
    <3>1. p[2] \in Int
      BY <1>2, <1>3
    <3>2. <<p[1], p[2], sink>>[2] = p[2]
      OBVIOUS
    <3> QED
      BY <1>7, <3>1, <3>2
  <2> QED
    BY <1>5, <2>1, ArcsThrough
<1>10. \A t \in A : t[1] = sink /\ t[3] = sink
  BY <1>6
<1>11. \A t \in B : t[1] \in states(m) /\ t[3] = sink /\ SinksOn(m, {t[1]}, t[2]) = {}
  BY <1>3, <1>7
<1> HIDE DEF A, B
<1>12. IsFiniteSet(C) /\ \A t \in C : t[2] \in Int
  BY <1>8, <1>9, FS_Union DEF Finite
<1>13. \A t \in C : t \in m.arcs \/ t \in A \/ t \in B
  OBVIOUS
<1> HIDE DEF C
<1>14. complete(m) = [start |-> m.start, final |-> m.final, arcs |-> C]
  BY <1>1, FieldsReplaced DEF Finite
<1>15. Finite(complete(m))
  BY <1>12, <1>14, FiniteRecord DEF Finite
<1>16. ASSUME NEW b \in Nat, Bounded(m, b), Determinate(m) PROVE Determinate(complete(m))
  <2>1. \A s \in states(m) : s # sink
    <3>1. /\ max_state(m) \in Int
          /\ \A s \in states(m) : s \in Int /\ s <= max_state(m)
      BY <1>16, StatesBounded
    <3> QED
      BY <3>1 DEF sink
  <2>2. ASSUME NEW t \in m.arcs
        PROVE  t[1] \in states(m) /\ SinksOn(m, {t[1]}, t[2]) # {}
    <3>1. t[3] \in SinksOn(m, {t[1]}, t[2])
      BY DEF SinksOn
    <3> QED
      BY <3>1, FiniteStates
  <2>3. ASSUME NEW t \in C, NEW u \in C, t[1] = u[1], t[2] = u[2] PROVE t[3] = u[3]
    <3>1. CASE t \in m.arcs /\ u \in m.arcs
      BY <1>16, <2>3, <3>1 DEF Determinate
    <3>2. CASE t \in m.arcs /\ u \notin m.arcs
      BY <1>10, <1>11, <1>13, <2>1, <2>2, <2>3, <3>2
    <3>3. CASE t \notin m.arcs /\ u \in m.arcs
      BY <1>10, <1>11, <1>13, <2>1, <2>2, <2>3, <3>3
    <3>4. CASE t \notin m.arcs /\ u \notin m.arcs
      <4>1. t[3] = sink
        BY <1>10, <1>11, <1>13, <3>4
      <4>2. u[3] = sink
        BY <1>10, <1>11, <1>13, <3>4
      <4> QED
        BY <4>1, <4>2
    <3> QED
      BY <3>1, <3>2, <3>3, <3>4
  <2> QED
    BY <1>14, <1>16, <2>3 DEF Determinate
<1> QED
  BY <1>15, <1>16

(* Leading arcs to other states, by what those are, leaves one sink for each *)
(* source and label.                                                         *)
LEMMA MergedMachine ==
    ASSUME NEW m, Finite(m), NEW lists
    PROVE  /\ Finite(Merge(m, lists))
           /\ Determinate(m) => Determinate(Merge(m, lists))
<1> DEFINE Rep(s) == Representative(CHOOSE l \in ToSet(lists) : s \in ToSet(l))
           B == {s \in m.final : Rep(s) = s}
           f == [t \in m.arcs |-> <<t[1], t[2], Rep(t[3])>>]
           C == {f[t] : t \in m.arcs}
<1>1. Merge(m, lists) = [start |-> m.start, final |-> B, arcs |-> C]
  <2>1. C = {<<t[1], t[2], Rep(t[3])>> : t \in m.arcs}
    <3> HIDE DEF Rep
    <3> QED
      OBVIOUS
  <2> HIDE DEF C
  <2> QED
    BY <2>1 DEF Merge
<1> HIDE DEF Rep
<1>2. \A t \in m.arcs : f[t] = <<t[1], t[2], Rep(t[3])>>
  OBVIOUS
<1>3. IsFiniteSet(B)
  <2>1. B \in SUBSET m.final
    OBVIOUS
  <2> HIDE DEF B
  <2> QED
    BY <2>1, FS_Subset DEF Finite
<1> HIDE DEF B, f
<1>4. IsFiniteSet(C) /\ \A t \in C : t[2] \in Int
  BY <1>2, ArcsThrough DEF Finite
<1>5. ASSUME Determinate(m), NEW a \in C, NEW c \in C, a[1] = c[1], a[2] = c[2] PROVE a[3] = c[3]
  <2>1. PICK t \in m.arcs, u \in m.arcs : a = f[t] /\ c = f[u]
    OBVIOUS
  <2>2. t[1] = u[1] /\ t[2] = u[2]
    BY <1>2, <1>5, <2>1
  <2>3. t[3] = u[3]
    BY <1>5, <2>2 DEF Determinate
  <2> QED
    BY <1>2, <2>1, <2>3
<1> HIDE DEF C
<1>6. Finite(Merge(m, lists))
  BY <1>1, <1>3, <1>4, FiniteRecord DEF Finite
<1>7. ASSUME Determinate(m) PROVE Determinate(Merge(m, lists))
  <2>1. \A a, c \in C : a[1] = c[1] /\ a[2] = c[2] => a[3] = c[3]
    BY <1>5, <1>7
  <2>2. \E s : m.start = {s}
    BY <1>7 DEF Determinate
  <2> QED
    BY <1>1, <2>1, <2>2 DEF Determinate
<1> QED
  BY <1>6, <1>7

(* min_by_partition() as a whole, which does not ask whether the result is   *)
(* deterministic: its four steps each leave it so.                           *)
LEMMA MinimisedMachine ==
    ASSUME NEW m, Finite(m), is_deterministic(m)
    PROVE  Finite(min_by_partition(m)) /\ is_deterministic(min_by_partition(m))
<1> DEFINE c == canonical_numbering(m)
           d == complete(c)
           e == MergeAlike(d)
           r == reachable_fm(e)
<1>1. Finite(c) /\ Determinate(c) /\ \E b \in Nat : Bounded(c, b)
  BY CanonicalMachine
<1> HIDE DEF c
<1>2. Finite(d) /\ Determinate(d)
  BY <1>1, CompleteMachine
<1> HIDE DEF d
<1>3. Finite(e) /\ Determinate(e)
  BY <1>2, MergedMachine DEF MergeAlike
<1> HIDE DEF e
<1>4. Finite(r) /\ Determinate(r)
  BY <1>3, FiniteReachable
<1>5. min_by_partition(m) = canonical_numbering(r)
  BY DEF min_by_partition, r, e, d, c
<1> HIDE DEF r
<1>6. is_deterministic(r)
  BY <1>4, DeterministicMeans
<1> QED
  BY <1>4, <1>5, <1>6, CanonicalMachine, DeterministicMeans
-----------------------------------------------------------------------------
(***************************************************************************)
(* The adapter: whatever it is made of, what a call returns is finite, and *)
(* what a call of DFA returns is deterministic.                            *)
(***************************************************************************)
LEMMA FiniteResults ==
    ASSUME NEW m, Finite(m), NEW o, Finite(o)
    PROVE  /\ Finite(reverse(m)) /\ Finite(complete(m)) /\ Finite(unite(m, o)) /\ Finite(plus(m))
           /\ Finite(star(m)) /\ Finite(reachable_fm(m)) /\ Finite(reduce(m))
           /\ Finite(cross_product(m, o)) /\ Finite(shuffle(m, o)) /\ Finite(catenate(m, o))
<1>1. Finite(shuffle(m, o))
  BY FiniteCanonical, FiniteShuffle DEF shuffle
<1> QED
  BY <1>1, FiniteReverse, CompleteMachine, FiniteUnite, FinitePlus, FiniteStar, FiniteReachable,
     FiniteReduce, FiniteCross, FiniteCatenate

(* The adapter asks, and calls subset().                                     *)
LEMMA MadeDeterministic ==
    ASSUME NEW m, Finite(m)
    PROVE  Finite(Deterministic(m)) /\ is_deterministic(Deterministic(m))
BY SubsetIsDeterministic DEF Deterministic

(* What a function of the class DFA returns is deterministic ...             *)
LEMMA DfaResultsAreDfas ==
    ASSUME NEW m, Finite(m), is_deterministic(m), NEW o, Finite(o), NEW r \in DfaResults(m, o)
    PROVE  Finite(r) /\ is_deterministic(r)
<1>1. CASE r = DFA_Hopminimize(m)
  BY <1>1, MinimisedMachine DEF DFA_Hopminimize
<1>2. CASE r # DFA_Hopminimize(m)
  <2>1. \E n : Finite(n) /\ r = Deterministic(n)
    BY <1>2, FiniteResults
    DEF DfaResults, DFA_reverse, DFA_complete, DFA_uniondfa, DFA_plus, DFA_star, DFA_reachable,
        DFA_reduce, DFA_cross, DFA_shuffle, DFA_concat
  <2> QED
    BY <2>1, MadeDeterministic
<1> QED
  BY <1>1, <1>2

(* ... and what one of NFA returns is at least finite.                       *)
LEMMA NfaResultsAreFinite ==
    ASSUME NEW m, Finite(m), NEW o, Finite(o), NEW r \in NfaResults(m, o)
    PROVE  Finite(r)
<1>1. Finite(cross_product(m, m)) /\ Finite(subset(unite(m, o)))
  BY FiniteResults, SubsetIsDeterministic
<1> QED
  BY <1>1, FiniteResults
  DEF NfaResults, NFA_reverse, NFA_unionnfa, NFA_plus, NFA_star, NFA_reachable, NFA_reduce,
      NFA_complete, NFA_cross, NFA_shuffle, NFA_concat

(* So are the machines in files.                                             *)
LEMMA FilesAreFinite ==
    /\ \A m \in Dfas : Finite(m) /\ is_deterministic(m)
    /\ \A m \in Nfas : Finite(m)
<1>1. ASSUME NEW m \in Dfas \cup Nfas PROVE Finite(m)
  <2>1. /\ m \in [start : SUBSET Nat, final : SUBSET Nat, arcs : SUBSET (Nat \X Int \X Nat)]
        /\ IsFiniteSet(m.start) /\ IsFiniteSet(m.final) /\ IsFiniteSet(m.arcs)
    BY FilesAssumption
  <2>2. m = [start |-> m.start, final |-> m.final, arcs |-> m.arcs]
    BY <2>1
  <2>3. \A t \in m.arcs : t[2] \in Int
    BY <2>1
  <2> QED
    BY <2>1, <2>2, <2>3 DEF Finite
<1> QED
  BY <1>1, FilesAssumption

(* The machine held is finite, too.                                          *)
AdapterInv == Finite(held) /\ DfaStaysDeterministic

(* The machine held first is the empty one, and of neither class.            *)
LEMMA AdapterInitHolds == AdapterInit => AdapterInv
<1> SUFFICES ASSUME AdapterInit PROVE AdapterInv
  OBVIOUS
<1>1. Finite([start |-> {}, final |-> {}, arcs |-> {}])
  BY FS_EmptySet, FiniteRecord
<1> QED
  BY <1>1 DEF AdapterInit, AdapterInv, DfaStaysDeterministic, Clear

(* One call of the adapter after the other.                                  *)
LEMMA AdapterStepHolds == AdapterInv /\ [AdapterNext]_adapterVars => AdapterInv'
<1> SUFFICES ASSUME AdapterInv, [AdapterNext]_adapterVars PROVE AdapterInv'
  OBVIOUS
<1> USE DEF AdapterInv, DfaStaysDeterministic
<1>1. CASE ReadFile
  BY <1>1, FilesAreFinite DEF ReadFile
<1>2. CASE CallDfa
  <2>1. PICK o \in Dfas : held' \in DfaResults(held, o)
    BY <1>2 DEF CallDfa
  <2>2. Finite(held) /\ is_deterministic(held) /\ Finite(o)
    BY <1>2, FilesAreFinite DEF CallDfa
  <2> QED
    BY <2>1, <2>2, DfaResultsAreDfas
<1>3. CASE CallNfa
  <2>1. PICK o \in Nfas : held' \in NfaResults(held, o)
    BY <1>3 DEF CallNfa
  <2>2. Finite(held')
    BY <2>1, FilesAreFinite, NfaResultsAreFinite
  <2>3. class' = "NFA"
    BY <1>3 DEF CallNfa
  <2> QED
    BY <2>2, <2>3
<1>4. CASE NfaToDfa
  BY <1>4, MadeDeterministic DEF NfaToDfa, DFA_nfatodfa
<1>5. CASE DfaToNfa
  BY <1>5 DEF DfaToNfa
<1>6. CASE UNCHANGED adapterVars
  BY <1>6 DEF adapterVars
<1> QED
  BY <1>1, <1>2, <1>3, <1>4, <1>5, <1>6 DEF AdapterNext

(* DfaStaysDeterministic for every set of files: whatever the adapter was    *)
(* called with, what DFA returned last is deterministic (dfa.cc: "We should  *)
(* keep it deterministic too"); Hopminimize(), which does not ask, gets and  *)
(* gives a deterministic machine.                                            *)
THEOREM DfasStayDeterministic == AdapterSpec => []DfaStaysDeterministic
<1>1. AdapterInit => AdapterInv
  BY AdapterInitHolds
<1>2. AdapterInv /\ [AdapterNext]_adapterVars => AdapterInv'
  BY AdapterStepHolds
<1>3. AdapterInv => DfaStaysDeterministic
  BY DEF AdapterInv
<1> QED
  BY <1>1, <1>2, <1>3, PTL DEF AdapterSpec

-----------------------------------------------------------------------------
(***************************************************************************)
(* What the operations accept.                                             *)
(***************************************************************************)
(* The word read backwards.                                                  *)
LEMMA ReverseLanguage ==
    ASSUME NEW m, NEW b \in Nat, Bounded(m, b)
    PROVE  /\ Bounded(reverse(m), b)
           /\ Accepted(reverse(m)) = {Reverse(w) : w \in Accepted(m)}
<1> DEFINE n == reverse(m)
<1>1. /\ Bounded(n, b) /\ n.start = m.final /\ n.final = m.start
      /\ \A s, x, u : <<s, x, u>> \in n.arcs <=> <<u, x, s>> \in m.arcs
  BY ReversedMachine
<1> HIDE DEF n
<1>2. ASSUME NEW w \in Seq(Int)
      PROVE  /\ Reverse(w) \in Seq(Int) /\ Len(Reverse(w)) = Len(w)
             /\ \A i \in 1 .. Len(w) : Reverse(w)[i] = w[Len(w) + 1 - i]
             /\ Reverse(Reverse(w)) = w
  <2>1. ASSUME NEW v \in Seq(Int)
        PROVE  /\ Reverse(v) \in Seq(Int) /\ Len(Reverse(v)) = Len(v)
               /\ \A i \in 1 .. Len(v) : Reverse(v)[i] = v[Len(v) + 1 - i]
    <3> DEFINE k == Len(v)
               r == [i \in 1 .. k |-> v[(k - i) + 1]]
    <3>1. k \in Nat /\ \A i \in 1 .. k : v[i] \in Int
      BY ElementOfSeq, LenProperties
    <3>2. Reverse(v) = r
      BY DEF Reverse
    <3> HIDE DEF k
    <3>3. ASSUME NEW i \in 1 .. k PROVE r[i] = v[k + 1 - i] /\ r[i] \in Int
      <4>1. (k - i) + 1 = k + 1 - i /\ k + 1 - i \in 1 .. k
        BY <3>1
      <4> QED
        BY <3>1, <4>1
    <3>4. r \in [1 .. k -> Int]
      BY <3>3
    <3>5. r \in Seq(Int) /\ Len(r) = k
      BY <3>1, <3>4, FunctionsAreLists
    <3> QED
      BY <3>2, <3>3, <3>5 DEF k
  <2>2. /\ Reverse(w) \in Seq(Int) /\ Len(Reverse(w)) = Len(w)
        /\ \A i \in 1 .. Len(w) : Reverse(w)[i] = w[Len(w) + 1 - i]
    BY <2>1
  <2> DEFINE v == Reverse(w)
  <2>3. v \in Seq(Int)
    BY <2>2
  <2>4. /\ Reverse(v) \in Seq(Int) /\ Len(Reverse(v)) = Len(v)
        /\ \A i \in 1 .. Len(v) : Reverse(v)[i] = v[Len(v) + 1 - i]
    BY <2>1, <2>3
  <2> DEFINE z == Reverse(v)
  <2> HIDE DEF v, z
  <2>5. /\ z \in Seq(Int) /\ Len(z) = Len(w) /\ Len(v) = Len(w) /\ Len(w) \in Nat
        /\ \A i \in 1 .. Len(v) : z[i] = v[Len(v) + 1 - i]
        /\ \A i \in 1 .. Len(w) : v[i] = w[Len(w) + 1 - i]
    BY <2>2, <2>4, LenProperties DEF v, z
  <2>6. \A i \in 1 .. Len(w) : z[i] = w[i]
    <3> SUFFICES ASSUME NEW i \in 1 .. Len(w) PROVE z[i] = w[i]
      OBVIOUS
    <3>1. Len(w) + 1 - i \in 1 .. Len(w) /\ Len(w) + 1 - (Len(w) + 1 - i) = i
      BY <2>5
    <3> QED
      BY <2>5, <3>1
  <2>7. z = w
    BY <2>5, <2>6, SeqEqual
  <2> QED
    BY <2>2, <2>7 DEF z, v
<1>3. ASSUME NEW a, NEW c, NEW w \in Seq(Int), a.start = c.final, a.final = c.start,
             \A s, x, u : <<s, x, u>> \in c.arcs => <<u, x, s>> \in a.arcs,
             w \in Accepted(c)
      PROVE  Reverse(w) \in Accepted(a)
  <2> DEFINE k == Len(w)
             v == Reverse(w)
  <2>1. k \in Nat /\ v \in Seq(Int) /\ Len(v) = k /\ \A i \in 1 .. k : v[i] = w[k + 1 - i]
    BY <1>2, LenProperties
  <2>2. PICK f : f[0] \in c.start /\ f[k] \in c.final /\ Run(c, f, w, k)
    BY <1>3 DEF Accepted, Spells
  <2> HIDE DEF k, v
  <2> DEFINE h == [i \in 0 .. k |-> f[k - i]]
  <2>3. h[0] = f[k] /\ h[k] = f[0]
    <3>1. 0 \in 0 .. k /\ k \in 0 .. k /\ k - 0 = k /\ k - k = 0
      BY <2>1
    <3> QED
      BY <3>1
  <2>4. ASSUME NEW i \in 1 .. k PROVE <<h[i - 1], v[i], h[i]>> \in a.arcs
    <3>1. PICK j \in 1 .. k : j = k + 1 - i /\ k - i = j - 1 /\ k - (i - 1) = j
      <4>1. k + 1 - i \in 1 .. k /\ k - i = (k + 1 - i) - 1 /\ k - (i - 1) = k + 1 - i
        BY <2>1
      <4> QED
        BY <4>1
    <3>2. i \in 0 .. k /\ i - 1 \in 0 .. k
      BY <2>1
    <3>3. h[i - 1] = f[j] /\ h[i] = f[j - 1] /\ v[i] = w[j]
      BY <2>1, <3>1, <3>2
    <3>4. <<f[j - 1], w[j], f[j]>> \in c.arcs
      BY <2>2, <3>1 DEF Run
    <3> QED
      BY <1>3, <3>3, <3>4
  <2> HIDE DEF h
  <2>5. Run(a, h, v, k)
    BY <2>4 DEF Run
  <2>6. Spells(a, h[0], v, h[k])
    BY <2>1, <2>5 DEF Spells
  <2> QED
    BY <1>3, <2>1, <2>2, <2>3, <2>6 DEF Accepted, v
<1>4. ASSUME NEW w \in Accepted(m) PROVE Reverse(w) \in Accepted(n)
  BY <1>1, <1>3 DEF Accepted
<1>5. ASSUME NEW v \in Accepted(n) PROVE \E w \in Accepted(m) : v = Reverse(w)
  <2>1. v \in Seq(Int)
    BY DEF Accepted
  <2>2. Reverse(v) \in Accepted(m)
    BY <1>1, <1>3, <2>1
  <2> QED
    BY <1>2, <2>1, <2>2
<1> QED
  BY <1>1, <1>4, <1>5 DEF n

(* What cannot be reached, and what leads nowhere, is part of no word.       *)
LEMMA ReachableLanguage ==
    ASSUME NEW m, NEW b \in Nat, Bounded(m, b)
    PROVE  /\ Bounded(reachable_fm(m), b)
           /\ Accepted(reachable_fm(m)) = Accepted(m)
<1> DEFINE n == reachable_fm(m)
<1>1. /\ Bounded(n, b) /\ Within(n, m)
      /\ \A k \in Nat : \A f, w : AcceptingRun(m, f, w, k) => AcceptingRun(n, f, w, k)
  BY ReachablePart
<1> HIDE DEF n
<1>2. ASSUME NEW w \in Seq(Int)
      PROVE  w \in Accepted(n) <=> w \in Accepted(m)
  <2>1. Len(w) \in Nat
    BY LenProperties
  <2>2. \A f : AcceptingRun(n, f, w, Len(w)) <=> AcceptingRun(m, f, w, Len(w))
    BY <1>1, <2>1 DEF AcceptingRun, Run, Within
  <2>3. \A a : w \in Accepted(a) <=> \E f : AcceptingRun(a, f, w, Len(w))
    BY DEF Accepted, Spells, AcceptingRun
  <2> QED
    BY <2>2, <2>3
<1> QED
  BY <1>1, <1>2 DEF n, Accepted

(* useful_fm() drops what leads to no final state.                           *)
LEMMA UsefulLanguage ==
    ASSUME NEW m, NEW b \in Nat, Bounded(m, b)
    PROVE  /\ Bounded(useful_fm(m), b)
           /\ Accepted(useful_fm(m)) = Accepted(m)
<1> DEFINE n == reverse(m)
           V == reachable_states(n)
           u == useful_fm(m)
           A == m.start \cap V
           C == {t \in m.arcs : t[1] \in V /\ t[3] \in V}
<1>1. m = [start |-> m.start, final |-> m.final, arcs |-> m.arcs]
  BY DEF Bounded
<1>2. u = [start |-> A, final |-> m.final, arcs |-> C]
  <2>1. u = [m EXCEPT !.start = A, !.arcs = C]
    BY DEF useful_fm
  <2> HIDE DEF u, A, C
  <2> QED
    BY <1>1, <2>1, FieldsReplaced
<1>3. Bounded(u, b)
  <2>1. A \in SUBSET (0 .. b) /\ C \in SUBSET ((0 .. b) \X Int \X (0 .. b)) /\ m.final \in SUBSET (0 .. b)
    BY DEF Bounded
  <2> HIDE DEF A, C, u
  <2> QED
    BY <1>2, <2>1 DEF Bounded
<1> HIDE DEF u
<1>4. /\ Bounded(n, b) /\ n.start = m.final /\ n.final = m.start
      /\ \A s, x, z : <<s, x, z>> \in n.arcs <=> <<z, x, s>> \in m.arcs
  BY ReversedMachine
<1> HIDE DEF n
<1>5. /\ m.final \subseteq V
      /\ \A t \in n.arcs : t[1] \in V => t[3] \in V
  BY <1>4, ReachedIsClosed
<1> HIDE DEF V
<1>6. ASSUME NEW s, NEW x, NEW z
      PROVE  <<s, x, z>> \in u.arcs <=> <<s, x, z>> \in m.arcs /\ z \in V
  <2>1. <<s, x, z>> \in u.arcs <=> <<s, x, z>> \in m.arcs /\ z \in V /\ s \in V
    BY <1>2
  <2>2. ASSUME <<s, x, z>> \in m.arcs, z \in V PROVE s \in V
    <3>1. PICK t \in n.arcs : t = <<z, x, s>>
      BY <1>4, <2>2
    <3>2. t[1] = z /\ t[3] = s
      BY <3>1
    <3> QED
      BY <1>5, <2>2, <3>2
  <2> QED
    BY <2>1, <2>2
<1>7. ASSUME NEW f, NEW w, NEW k \in Nat, AcceptingRun(m, f, w, k) PROVE AcceptingRun(u, f, w, k)
  <2> DEFINE Bad == {i \in 0 .. k : f[k - i] \notin V}
  <2>1. Bad = {}
    <3> SUFFICES ASSUME Bad # {} PROVE FALSE
      OBVIOUS
    <3>1. Bad \in SUBSET Nat
      OBVIOUS
    <3>2. PICK j \in Bad : \A i \in Bad : j <= i
      BY <3>1, LeastOfNaturals
    <3>3. j \in 0 .. k /\ f[k - j] \notin V
      BY <3>2
    <3>4. j # 0
      <4>1. k - 0 = k
        OBVIOUS
      <4> QED
        BY <1>5, <1>7, <3>3, <4>1 DEF AcceptingRun
    <3>5. j - 1 \in 0 .. k /\ ~ (j <= j - 1)
      BY <3>3, <3>4
    <3>6. PICK i \in 1 .. k : i = k - (j - 1) /\ i - 1 = k - j
      <4>1. k - (j - 1) \in 1 .. k /\ k - (j - 1) - 1 = k - j
        BY <3>3, <3>4
      <4> QED
        BY <4>1
    <3>7. f[i] \in V
      BY <3>2, <3>5, <3>6
    <3>8. <<f[i - 1], w[i], f[i]>> \in m.arcs
      BY <1>7 DEF AcceptingRun, Run
    <3>9. f[i - 1] \in V
      BY <1>2, <1>6, <3>7, <3>8
    <3> QED
      BY <3>3, <3>6, <3>9
  <2>2. ASSUME NEW i \in 0 .. k PROVE f[i] \in V
    <3>1. k - i \in 0 .. k /\ k - (k - i) = i
      OBVIOUS
    <3> QED
      BY <2>1, <3>1
  <2>3. f[0] \in u.start /\ f[k] \in u.final
    <3>1. 0 \in 0 .. k
      OBVIOUS
    <3> QED
      BY <1>2, <1>7, <2>2, <3>1 DEF AcceptingRun
  <2>4. ASSUME NEW i \in 1 .. k PROVE <<f[i - 1], w[i], f[i]>> \in u.arcs
    <3>1. <<f[i - 1], w[i], f[i]>> \in m.arcs /\ i \in 0 .. k
      BY <1>7 DEF AcceptingRun, Run
    <3> QED
      BY <1>6, <2>2, <3>1
  <2> QED
    BY <2>3, <2>4 DEF AcceptingRun, Run
<1>8. ASSUME NEW w \in Seq(Int)
      PROVE  w \in Accepted(u) <=> w \in Accepted(m)
  <2>1. Len(w) \in Nat
    BY LenProperties
  <2>2. u.start \subseteq m.start /\ u.final = m.final
    BY <1>2
  <2>3. \A f : AcceptingRun(u, f, w, Len(w)) <=> AcceptingRun(m, f, w, Len(w))
    BY <1>6, <1>7, <2>1, <2>2 DEF AcceptingRun, Run
  <2>4. \A a : w \in Accepted(a) <=> \E f : AcceptingRun(a, f, w, Len(w))
    BY DEF Accepted, Spells, AcceptingRun
  <2> QED
    BY <2>3, <2>4
<1> QED
  BY <1>3, <1>8 DEF u, Accepted

(* The states a word leads to.                                               *)
After(m, w) == {u \in states(m) : Leads(m, w, u)}

(* One letter more leads to the sinks on it.                                 *)
LEMMA AfterLetter ==
    ASSUME NEW m, NEW b \in Nat, Bounded(m, b), NEW v \in Seq(Int), NEW x \in Int
    PROVE  After(m, Append(v, x)) = SinksOn(m, After(m, v), x)
<1> DEFINE w == Append(v, x)
<1>1. \A t \in m.arcs : t = <<t[1], t[2], t[3]>> /\ t[1] \in states(m) /\ t[3] \in states(m)
  BY StatesBounded
<1>2. ASSUME NEW u PROVE u \in SinksOn(m, After(m, v), x) <=> u \in states(m) /\ Leads(m, w, u)
  <2>1. u \in SinksOn(m, After(m, v), x) <=> \E t \in m.arcs : t[1] \in After(m, v) /\ t[2] = x /\ t[3] = u
    BY DEF SinksOn
  <2>2. (\E s : Leads(m, v, s) /\ <<s, x, u>> \in m.arcs) <=> Leads(m, w, u)
    BY LeadsByLetter
  <2>3. ASSUME NEW t \in m.arcs, t[1] \in After(m, v), t[2] = x, t[3] = u
        PROVE  u \in states(m) /\ \E s : Leads(m, v, s) /\ <<s, x, u>> \in m.arcs
    BY <1>1, <2>3 DEF After
  <2>4. ASSUME NEW s, Leads(m, v, s), <<s, x, u>> \in m.arcs
        PROVE  \E t \in m.arcs : t[1] \in After(m, v) /\ t[2] = x /\ t[3] = u
    <3>1. s \in states(m)
      BY <1>1, <2>4
    <3>2. s \in After(m, v)
      BY <2>4, <3>1 DEF After
    <3> QED
      BY <2>4, <3>2
  <2> QED
    BY <2>1, <2>2, <2>3, <2>4
<1> QED
  BY <1>2 DEF After

(* No letter leads to the start states.                                      *)
LEMMA AfterNothing ==
    ASSUME NEW m, NEW b \in Nat, Bounded(m, b)
    PROVE  After(m, <<>>) = m.start
<1>1. m.start \subseteq states(m)
  BY StatesBounded
<1> QED
  BY <1>1, LeadsAtOnce DEF After

(* A machine whose states are the places of a list of sets of states of      *)
(* another one: the place of the set a word leads to is where the word leads. *)
LEMMA SetMachine ==
    ASSUME NEW t, NEW b \in Nat, Bounded(t, b),
           NEW met \in Seq(SUBSET states(t)), Len(met) >= 1, met[1] = t.start,
           NEW c, c.start = {0},
           \A y : y \in c.final <=> \E i \in 1 .. Len(met) : y = i - 1 /\ met[i] \cap t.final # {},
           \A e \in c.arcs : \E i, j \in 1 .. Len(met), x \in Int :
                e = <<i - 1, x, j - 1>> /\ met[j] = SinksOn(t, met[i], x),
           \A i \in 1 .. Len(met), x \in Int : SinksOn(t, met[i], x) # {} =>
                \E j \in 1 .. Len(met) : <<i - 1, x, j - 1>> \in c.arcs
    PROVE  Accepted(c) = Accepted(t)
<1> DEFINE n == Len(met)
           Is(w, y) == \E i \in 1 .. n : y = i - 1 /\ met[i] = After(t, w)
           T == {w \in Seq(Int) : /\ \A y : Leads(c, w, y) => Is(w, y)
                                  /\ After(t, w) # {} => \E y : Leads(c, w, y)}
<1>1. n \in Nat /\ n >= 1
  BY LenProperties
<1> HIDE DEF n
<1>2. \A i, j \in 1 .. n : i - 1 = j - 1 => i = j
  BY <1>1
<1>3. <<>> \in T
  <2>1. \A y : Leads(c, <<>>, y) <=> y = 0
    BY LeadsAtOnce
  <2>2. 1 \in 1 .. n /\ 0 = 1 - 1
    BY <1>1
  <2>3. met[1] = After(t, <<>>)
    BY AfterNothing
  <2>4. <<>> \in Seq(Int)
    OBVIOUS
  <2>5. ASSUME NEW y, Leads(c, <<>>, y) PROVE Is(<<>>, y)
    BY <2>1, <2>2, <2>3, <2>5
  <2>6. \E y : Leads(c, <<>>, y)
    BY <2>1
  <2> HIDE DEF Is
  <2> QED
    BY <2>4, <2>5, <2>6
<1>4. ASSUME NEW v \in Seq(Int), NEW x \in Int, v \in T PROVE Append(v, x) \in T
  <2> DEFINE w == Append(v, x)
  <2>1. w \in Seq(Int)
    OBVIOUS
  <2>2. After(t, w) = SinksOn(t, After(t, v), x)
    BY AfterLetter
  <2>3. \A u : Leads(c, w, u) <=> \E s : Leads(c, v, s) /\ <<s, x, u>> \in c.arcs
    BY LeadsByLetter
  <2>4. /\ \A y : Leads(c, v, y) => Is(v, y)
        /\ After(t, v) # {} => \E y : Leads(c, v, y)
    BY <1>4
  <2> HIDE DEF w, T
  <2>5. ASSUME NEW y, Leads(c, w, y) PROVE Is(w, y)
    <3>1. PICK s : Leads(c, v, s) /\ <<s, x, y>> \in c.arcs
      BY <2>3, <2>5
    <3>2. PICK i \in 1 .. n : s = i - 1 /\ met[i] = After(t, v)
      BY <2>4, <3>1
    <3>3. PICK k \in 1 .. n, j \in 1 .. n, z \in Int :
             <<s, x, y>> = <<k - 1, z, j - 1>> /\ met[j] = SinksOn(t, met[k], z)
      BY <3>1 DEF n
    <3>4. s = k - 1 /\ x = z /\ y = j - 1
      BY <3>3
    <3>5. k = i
      BY <1>2, <3>2, <3>4
    <3> QED
      BY <2>2, <3>2, <3>3, <3>4, <3>5
  <2>6. ASSUME After(t, w) # {} PROVE \E y : Leads(c, w, y)
    <3>1. After(t, v) # {}
      BY <2>2, <2>6 DEF SinksOn
    <3>2. PICK s : Leads(c, v, s)
      BY <2>4, <3>1
    <3>3. PICK i \in 1 .. n : s = i - 1 /\ met[i] = After(t, v)
      BY <2>4, <3>2
    <3>4. PICK j \in 1 .. n : <<i - 1, x, j - 1>> \in c.arcs
      BY <2>2, <2>6, <3>3 DEF n
    <3> QED
      BY <2>3, <3>2, <3>3, <3>4
  <2> QED
    BY <2>1, <2>5, <2>6 DEF T, w
<1>5. Seq(Int) \subseteq T
  <2> HIDE DEF T
  <2> QED
    BY <1>3, <1>4, WordInduction
<1>6. ASSUME NEW w \in Seq(Int)
      PROVE  (\E y \in c.final : Leads(c, w, y)) <=> (\E u \in t.final : Leads(t, w, u))
  <2>1. /\ \A y : Leads(c, w, y) => Is(w, y)
        /\ After(t, w) # {} => \E y : Leads(c, w, y)
    BY <1>5
  <2>2. (\E u \in t.final : Leads(t, w, u)) <=> After(t, w) \cap t.final # {}
    <3>1. t.final \subseteq states(t)
      BY StatesBounded
    <3> QED
      BY <3>1 DEF After
  <2>3. ASSUME NEW y \in c.final, Leads(c, w, y) PROVE After(t, w) \cap t.final # {}
    <3>1. PICK i \in 1 .. n : y = i - 1 /\ met[i] = After(t, w)
      BY <2>1, <2>3
    <3>2. PICK j \in 1 .. n : y = j - 1 /\ met[j] \cap t.final # {}
      BY DEF n
    <3> QED
      BY <1>2, <3>1, <3>2
  <2>4. ASSUME After(t, w) \cap t.final # {} PROVE \E y \in c.final : Leads(c, w, y)
    <3>1. PICK y : Leads(c, w, y)
      BY <2>1, <2>4
    <3>2. PICK i \in 1 .. n : y = i - 1 /\ met[i] = After(t, w)
      BY <2>1, <3>1
    <3>3. y \in c.final
      BY <2>4, <3>2 DEF n
    <3> QED
      BY <3>1, <3>3
  <2> QED
    BY <2>2, <2>3, <2>4
<1> QED
  BY <1>6, AcceptedByLeading

(* Numbering the states does not change the language.                        *)
LEMMA CanonicalLanguage ==
    ASSUME NEW m, Finite(m), NEW b \in Nat, Bounded(m, b)
    PROVE  Accepted(canonical_numbering(m)) = Accepted(m)
<1>1. CASE ~ is_deterministic(m)
  BY <1>1 DEF canonical_numbering
<1>2. CASE is_deterministic(m)
  <2> DEFINE c == canonical_numbering(m)
  <2>1. PICK met \in Seq(states(m)) :
           /\ Len(met) >= 1 /\ m.start = {met[1]} /\ Once(met)
           /\ \A t \in m.arcs : t[1] \in ToSet(met) => t[3] \in ToSet(met)
           /\ c = Renumbering(m, met)
    BY <1>2, CanonicalNumbers
  <2>2. Determinate(m)
    BY <1>2, DeterministicMeans
  <2> DEFINE Met == ToSet(met)
  <2>3. /\ c.start = {0} /\ c.final = {Place(met, s) - 1 : s \in m.final \cap Met}
        /\ c.arcs = {<<Place(met, t[1]) - 1, t[2], Place(met, t[3]) - 1>> :
                        t \in {u \in m.arcs : u[1] \in Met}}
    BY <2>1 DEF Renumbering
  <2> HIDE DEF c
  <2> DEFINE n == Len(met)
             sets == [i \in 1 .. n |-> {met[i]}]
  <2>4. n \in Nat /\ DOMAIN met = 1 .. n /\ \A i \in 1 .. n : met[i] \in states(m) /\ met[i] \in Met
    <3>1. n \in Nat /\ DOMAIN met = 1 .. n /\ \A i \in 1 .. n : met[i] \in states(m)
      BY LenProperties, ElementOfSeq
    <3> QED
      BY <3>1 DEF ToSet
  <2>5. \A s \in Met : Place(met, s) \in 1 .. n /\ met[Place(met, s)] = s
    BY PlacesOfItems
  <2> HIDE DEF n, Met
  <2>6. ASSUME NEW i \in 1 .. n PROVE Place(met, met[i]) = i
    BY <2>1, <2>4, <2>5 DEF Once, n
  <2>7. /\ sets \in Seq(SUBSET states(m)) /\ Len(sets) = n /\ n >= 1 /\ sets[1] = m.start
        /\ \A i \in 1 .. n : sets[i] = {met[i]}
    <3>1. \A i \in 1 .. n : {met[i]} \in SUBSET states(m)
      BY <2>4
    <3>2. sets \in [1 .. n -> SUBSET states(m)]
      BY <3>1
    <3>3. n >= 1 /\ 1 \in 1 .. n
      BY <2>1, <2>4 DEF n
    <3> QED
      BY <2>1, <2>4, <3>2, <3>3, FunctionsAreLists
  <2> HIDE DEF sets
  <2>8. ASSUME NEW i \in 1 .. n, NEW x \in Int, NEW t \in m.arcs, t[1] = met[i], t[2] = x
        PROVE  /\ SinksOn(m, sets[i], x) = {t[3]}
               /\ t[3] \in Met
               /\ <<i - 1, x, Place(met, t[3]) - 1>> \in c.arcs
    <3>1. SinksOn(m, {met[i]}, x) = {t[3]}
      BY <2>2, <2>8 DEF SinksOn, Determinate
    <3>2. t[1] \in Met /\ Place(met, t[1]) = i
      BY <2>4, <2>6, <2>8
    <3>3. t[3] \in Met
      BY <2>1, <3>2 DEF Met
    <3> QED
      BY <2>3, <2>7, <2>8, <3>1, <3>2, <3>3
  <2>9. ASSUME NEW y
        PROVE  y \in c.final <=> \E i \in 1 .. n : y = i - 1 /\ sets[i] \cap m.final # {}
    <3>1. ASSUME NEW s \in m.final \cap Met, y = Place(met, s) - 1
          PROVE  \E i \in 1 .. n : y = i - 1 /\ sets[i] \cap m.final # {}
      BY <2>5, <2>7, <3>1
    <3>2. ASSUME NEW i \in 1 .. n, y = i - 1, sets[i] \cap m.final # {}
          PROVE  \E s \in m.final \cap Met : y = Place(met, s) - 1
      BY <2>4, <2>6, <2>7, <3>2
    <3> QED
      BY <2>3, <3>1, <3>2
  <2>10. ASSUME NEW e \in c.arcs
         PROVE  \E i, j \in 1 .. n, x \in Int :
                   e = <<i - 1, x, j - 1>> /\ sets[j] = SinksOn(m, sets[i], x)
    <3>1. PICK t \in m.arcs : t[1] \in Met /\ e = <<Place(met, t[1]) - 1, t[2], Place(met, t[3]) - 1>>
      BY <2>3
    <3>2. PICK i \in 1 .. n : i = Place(met, t[1]) /\ met[i] = t[1]
      BY <2>5, <3>1
    <3>3. t[2] \in Int
      BY DEF Finite
    <3>4. SinksOn(m, sets[i], t[2]) = {t[3]} /\ t[3] \in Met
      BY <2>8, <3>2, <3>3
    <3>5. PICK j \in 1 .. n : j = Place(met, t[3]) /\ met[j] = t[3]
      BY <2>5, <3>4
    <3>6. e = <<i - 1, t[2], j - 1>>
      BY <3>1, <3>2, <3>5
    <3>7. sets[j] = SinksOn(m, sets[i], t[2])
      BY <2>7, <3>4, <3>5
    <3> QED
      BY <3>3, <3>6, <3>7
  <2>11. ASSUME NEW i \in 1 .. n, NEW x \in Int, SinksOn(m, sets[i], x) # {}
         PROVE  \E j \in 1 .. n : <<i - 1, x, j - 1>> \in c.arcs
    <3>1. PICK t \in m.arcs : t[1] = met[i] /\ t[2] = x
      BY <2>7, <2>11 DEF SinksOn
    <3>2. t[3] \in Met /\ <<i - 1, x, Place(met, t[3]) - 1>> \in c.arcs
      BY <2>8, <3>1
    <3> QED
      BY <2>5, <3>2
  <2>12. /\ \A y : y \in c.final <=> \E i \in 1 .. n : y = i - 1 /\ sets[i] \cap m.final # {}
         /\ \A e \in c.arcs : \E i, j \in 1 .. n, x \in Int :
               e = <<i - 1, x, j - 1>> /\ sets[j] = SinksOn(m, sets[i], x)
         /\ \A i \in 1 .. n, x \in Int : SinksOn(m, sets[i], x) # {} =>
               \E j \in 1 .. n : <<i - 1, x, j - 1>> \in c.arcs
    BY <2>9, <2>10, <2>11
  <2>13. Accepted(c) = Accepted(m)
    <3>1. /\ \A y : y \in c.final <=> \E i \in 1 .. Len(sets) : y = i - 1 /\ sets[i] \cap m.final # {}
          /\ \A e \in c.arcs : \E i, j \in 1 .. Len(sets), x \in Int :
                e = <<i - 1, x, j - 1>> /\ sets[j] = SinksOn(m, sets[i], x)
          /\ \A i \in 1 .. Len(sets), x \in Int : SinksOn(m, sets[i], x) # {} =>
                \E j \in 1 .. Len(sets) : <<i - 1, x, j - 1>> \in c.arcs
      BY <2>7, <2>12, Zenon
    <3>2. sets \in Seq(SUBSET states(m)) /\ Len(sets) >= 1 /\ sets[1] = m.start /\ c.start = {0}
      BY <2>3, <2>7
    <3> QED
      BY <3>1, <3>2, SetMachine, Zenon
  <2> QED
    BY <2>13 DEF c
<1> QED
  BY <1>1, <1>2

(* A machine with finitely many arcs and states up to a bound.               *)
LEMMA TypedMachine ==
    ASSUME NEW m, NEW b \in Nat, Bounded(m, b), IsFiniteSet(m.arcs)
    PROVE  Finite(m)
<1>1. m = [start |-> m.start, final |-> m.final, arcs |-> m.arcs] /\ \A t \in m.arcs : t[2] \in Int
  BY DEF Bounded
<1>2. m.start \in SUBSET (0 .. b) /\ m.final \in SUBSET (0 .. b)
  BY DEF Bounded
<1>3. IsFiniteSet(0 .. b)
  BY FS_Interval
<1> QED
  BY <1>1, <1>2, <1>3, FS_Subset DEF Finite

(* The subset construction makes a state of each set of states that a word   *)
(* leads to, the empty one left out.                                         *)
LEMMA SubsetLanguage ==
    ASSUME NEW m, Finite(m), NEW b \in Nat, Bounded(m, b)
    PROVE  /\ Accepted(subset(m)) = Accepted(m)
           /\ \E c \in Nat : Bounded(subset(m), c)
<1>0. CASE is_deterministic(m)
  BY <1>0 DEF subset
<1> SUFFICES ASSUME ~ is_deterministic(m)
             PROVE  Accepted(subset(m)) = Accepted(m) /\ \E c \in Nat : Bounded(subset(m), c)
  BY <1>0
<1> DEFINE t == Trimmed(m)
           X == labels(t)
           On(S, x) == SinksOn(t, S, x)
           ahead == [p \in (SUBSET states(t)) \X labels(t) |-> {On(p[1], p[2])} \ {{}}]
           met == Numbered(t.start, labels(t), SUBSET states(t), ahead)
           c == subset(m)
           n == Len(met)
           P(i, x) == Place(met, On(met[i], x))
<1>1. /\ c.start = {0}
      /\ c.final = {i - 1 : i \in {j \in DOMAIN met : met[j] \cap t.final # {}}}
      /\ c.arcs = {<<p[1] - 1, p[2], P(p[1], p[2]) - 1>> :
                      p \in {q \in (DOMAIN met) \X X : On(met[q[1]], q[2]) # {}}}
      /\ c = [start |-> c.start, final |-> c.final, arcs |-> c.arcs]
  BY DEF subset
<1> HIDE DEF c
<1>2. Finite(t) /\ Bounded(t, b) /\ Accepted(t) = Accepted(m)
  BY FiniteTrimmed, TrimmedAccepts
<1> HIDE DEF t
<1>3. /\ X \in SUBSET Int /\ IsFiniteSet(X)
      /\ IsFiniteSet(SUBSET states(t)) /\ t.start \in SUBSET states(t)
  BY <1>2, FiniteStates, FS_SUBSET
<1>4. \A p \in (SUBSET states(t)) \X X : On(p[1], p[2]) \in SUBSET states(t)
  BY <1>2, FiniteSinks
<1>4a. \A S, x : On(S, x) # {} => x \in X
  BY DEF SinksOn, labels
<1>4b. \A S, x : SinksOn(t, S, x) = On(S, x)
  OBVIOUS
<1> HIDE DEF On
<1>5. /\ ahead \in [(SUBSET states(t)) \X X -> SUBSET (SUBSET states(t))]
      /\ \A p \in (SUBSET states(t)) \X X : \A u, v \in ahead[p] : u = v
      /\ \A S \in SUBSET states(t), x \in X : ahead[<<S, x>>] = {On(S, x)} \ {{}}
  BY <1>4
<1> HIDE DEF ahead
<1>6. /\ met \in Seq(SUBSET states(t)) /\ n >= 1 /\ met[1] = t.start /\ Once(met)
      /\ \A j \in 1 .. n : \A x \in X : ahead[<<met[j], x>>] \subseteq ToSet(met)
  <2> DEFINE S == SUBSET states(t)
  <2>1. IsFiniteSet(S) /\ t.start \in S /\ ahead \in [S \X X -> SUBSET S]
        /\ \A p \in S \X X : \A u, v \in ahead[p] : u = v
    BY <1>3, <1>5
  <2> HIDE DEF S, X
  <2> DEFINE q == Numbered(t.start, X, S, ahead)
  <2>3. /\ q \in Seq(S) /\ Len(q) >= 1 /\ q[1] = t.start
        /\ Once(q)
        /\ \A j \in 1 .. Len(q) : \A x \in X : ahead[<<q[j], x>>] \subseteq ToSet(q)
    BY <1>3, <2>1, NumberedOnce, Zenon
  <2> HIDE DEF q
  <2> QED
    BY <2>3 DEF q, X, S
<1> HIDE DEF met, X
<1>7. n \in Nat /\ DOMAIN met = 1 .. n /\ \A i \in 1 .. n : met[i] \in SUBSET states(t)
  BY <1>6, LenProperties, ElementOfSeq
<1>8. ASSUME NEW i \in 1 .. n, NEW x \in X, On(met[i], x) # {}
      PROVE  P(i, x) \in 1 .. n /\ met[P(i, x)] = On(met[i], x)
  <2>1. On(met[i], x) \in ToSet(met)
    <3>1. met[i] \in SUBSET states(t) /\ ahead[<<met[i], x>>] \subseteq ToSet(met)
      BY <1>6, <1>7
    <3>2. ahead[<<met[i], x>>] = {On(met[i], x)} \ {{}}
      BY <1>5, <3>1
    <3> QED
      BY <1>8, <3>1, <3>2
  <2> QED
    BY <1>6, <2>1, PlacesOfItems
<1> HIDE DEF n, P
<1>9. ASSUME NEW y
      PROVE  y \in c.final <=> \E i \in 1 .. n : y = i - 1 /\ met[i] \cap t.final # {}
  BY <1>1, <1>7
<1>10. ASSUME NEW e \in c.arcs
       PROVE  \E i, j \in 1 .. n, x \in Int :
                 e = <<i - 1, x, j - 1>> /\ met[j] = SinksOn(t, met[i], x)
  <2>1. PICK i \in 1 .. n, x \in X : On(met[i], x) # {} /\ e = <<i - 1, x, P(i, x) - 1>>
    BY <1>1, <1>7
  <2> QED
    BY <1>3, <1>4b, <1>8, <2>1
<1>11. ASSUME NEW i \in 1 .. n, NEW x \in Int, SinksOn(t, met[i], x) # {}
       PROVE  \E j \in 1 .. n : <<i - 1, x, j - 1>> \in c.arcs
  <2>1. On(met[i], x) # {} /\ x \in X
    BY <1>4a, <1>4b, <1>11
  <2>2. <<i, x>> \in {q \in (DOMAIN met) \X X : On(met[q[1]], q[2]) # {}}
    BY <1>7, <2>1
  <2>3. <<i - 1, x, P(i, x) - 1>> \in c.arcs
    BY <1>1, <2>2
  <2> QED
    BY <1>8, <2>1, <2>3
<1>12. Bounded(c, n)
  <2>1. \A i \in 1 .. n : i - 1 \in 0 .. n
    BY <1>7
  <2>2. c.start \in SUBSET (0 .. n)
    BY <1>1, <1>7
  <2>3. c.final \in SUBSET (0 .. n)
    BY <1>9, <2>1
  <2>4. c.arcs \in SUBSET ((0 .. n) \X Int \X (0 .. n))
    <3>1. ASSUME NEW e \in c.arcs PROVE e \in (0 .. n) \X Int \X (0 .. n)
      <4>1. PICK i, j \in 1 .. n, x \in Int : e = <<i - 1, x, j - 1>>
        BY <1>10
      <4>2. i - 1 \in 0 .. n /\ j - 1 \in 0 .. n
        BY <2>1
      <4> QED
        BY <4>1, <4>2
    <3> QED
      BY <3>1
  <2> QED
    BY <1>1, <2>2, <2>3, <2>4 DEF Bounded
<1>13. Accepted(c) = Accepted(t)
  <2>1. /\ \A y : y \in c.final <=> \E i \in 1 .. n : y = i - 1 /\ met[i] \cap t.final # {}
        /\ \A e \in c.arcs : \E i, j \in 1 .. n, x \in Int :
              e = <<i - 1, x, j - 1>> /\ met[j] = SinksOn(t, met[i], x)
        /\ \A i \in 1 .. n, x \in Int : SinksOn(t, met[i], x) # {} =>
              \E j \in 1 .. n : <<i - 1, x, j - 1>> \in c.arcs
    BY <1>9, <1>10, <1>11
  <2> QED
    BY <1>1, <1>2, <1>6, <2>1, SetMachine DEF n
<1> QED
  BY <1>2, <1>7, <1>12, <1>13 DEF c

(* nfatodfa() keeps the empty set, too.                                      *)
LEMMA NfaToDfaLanguage ==
    ASSUME NEW m, Finite(m), NEW b \in Nat, Bounded(m, b)
    PROVE  Accepted(nfatodfa(m)) = Accepted(m)
<1> DEFINE X == labels(m)
           On(S, x) == SinksOn(m, S, x)
           ahead == [p \in (SUBSET states(m)) \X labels(m) |-> {On(p[1], p[2])}]
           met == Numbered(m.start, labels(m), SUBSET states(m), ahead)
           c == nfatodfa(m)
           n == Len(met)
           P(i, x) == Place(met, On(met[i], x))
<1>1. /\ c.start = {0}
      /\ c.final = {i - 1 : i \in {j \in DOMAIN met : met[j] \cap m.final # {}}}
      /\ c.arcs = {<<i - 1, x, P(i, x) - 1>> : i \in DOMAIN met, x \in X}
  BY DEF nfatodfa
<1> HIDE DEF c
<1>3. /\ X \in SUBSET Int /\ IsFiniteSet(X)
      /\ IsFiniteSet(SUBSET states(m)) /\ m.start \in SUBSET states(m)
  BY FiniteStates, FS_SUBSET
<1>4. \A p \in (SUBSET states(m)) \X X : On(p[1], p[2]) \in SUBSET states(m)
  BY FiniteSinks
<1>4a. \A S, x : On(S, x) # {} => x \in X
  BY DEF SinksOn, labels
<1>4b. \A S, x : SinksOn(m, S, x) = On(S, x)
  OBVIOUS
<1> HIDE DEF On
<1>5. /\ ahead \in [(SUBSET states(m)) \X X -> SUBSET (SUBSET states(m))]
      /\ \A p \in (SUBSET states(m)) \X X : \A u, v \in ahead[p] : u = v
      /\ \A S \in SUBSET states(m), x \in X : ahead[<<S, x>>] = {On(S, x)}
  BY <1>4
<1> HIDE DEF ahead
<1>6. /\ met \in Seq(SUBSET states(m)) /\ n >= 1 /\ met[1] = m.start /\ Once(met)
      /\ \A j \in 1 .. n : \A x \in X : ahead[<<met[j], x>>] \subseteq ToSet(met)
  <2> DEFINE S == SUBSET states(m)
  <2>1. IsFiniteSet(S) /\ m.start \in S /\ ahead \in [S \X X -> SUBSET S]
        /\ \A p \in S \X X : \A u, v \in ahead[p] : u = v
    BY <1>3, <1>5
  <2> HIDE DEF S, X
  <2> DEFINE q == Numbered(m.start, X, S, ahead)
  <2>3. /\ q \in Seq(S) /\ Len(q) >= 1 /\ q[1] = m.start
        /\ Once(q)
        /\ \A j \in 1 .. Len(q) : \A x \in X : ahead[<<q[j], x>>] \subseteq ToSet(q)
    BY <1>3, <2>1, NumberedOnce, Zenon
  <2> HIDE DEF q
  <2> QED
    BY <2>3 DEF q, X, S
<1> HIDE DEF met, X
<1>7. n \in Nat /\ DOMAIN met = 1 .. n /\ \A i \in 1 .. n : met[i] \in SUBSET states(m)
  BY <1>6, LenProperties, ElementOfSeq
<1>8. ASSUME NEW i \in 1 .. n, NEW x \in X
      PROVE  P(i, x) \in 1 .. n /\ met[P(i, x)] = On(met[i], x)
  <2>1. On(met[i], x) \in ToSet(met)
    <3>1. met[i] \in SUBSET states(m) /\ ahead[<<met[i], x>>] \subseteq ToSet(met)
      BY <1>6, <1>7
    <3>2. ahead[<<met[i], x>>] = {On(met[i], x)}
      BY <1>5, <3>1
    <3> QED
      BY <3>1, <3>2
  <2> QED
    BY <1>6, <2>1, PlacesOfItems
<1> HIDE DEF n, P
<1>9. ASSUME NEW y
      PROVE  y \in c.final <=> \E i \in 1 .. n : y = i - 1 /\ met[i] \cap m.final # {}
  BY <1>1, <1>7
<1>10. ASSUME NEW e \in c.arcs
       PROVE  \E i, j \in 1 .. n, x \in Int :
                 e = <<i - 1, x, j - 1>> /\ met[j] = SinksOn(m, met[i], x)
  <2>1. PICK i \in 1 .. n, x \in X : e = <<i - 1, x, P(i, x) - 1>>
    BY <1>1, <1>7
  <2>2. PICK j \in 1 .. n : j = P(i, x) /\ met[j] = On(met[i], x)
    BY <1>8
  <2>3. e = <<i - 1, x, j - 1>> /\ met[j] = SinksOn(m, met[i], x) /\ x \in Int
    BY <1>3, <1>4b, <2>1, <2>2
  <2> QED
    BY <2>3
<1>11. ASSUME NEW i \in 1 .. n, NEW x \in Int, SinksOn(m, met[i], x) # {}
       PROVE  \E j \in 1 .. n : <<i - 1, x, j - 1>> \in c.arcs
  <2>1. x \in X
    BY <1>4a, <1>4b, <1>11
  <2>2. PICK j \in 1 .. n : j = P(i, x)
    BY <1>8, <2>1
  <2>3. <<i - 1, x, j - 1>> \in c.arcs
    BY <1>1, <1>7, <2>1, <2>2
  <2> QED
    BY <2>3
<1>12. /\ \A y : y \in c.final <=> \E i \in 1 .. n : y = i - 1 /\ met[i] \cap m.final # {}
       /\ \A e \in c.arcs : \E i, j \in 1 .. n, x \in Int :
             e = <<i - 1, x, j - 1>> /\ met[j] = SinksOn(m, met[i], x)
       /\ \A i \in 1 .. n, x \in Int : SinksOn(m, met[i], x) # {} =>
             \E j \in 1 .. n : <<i - 1, x, j - 1>> \in c.arcs
  BY <1>9, <1>10, <1>11
<1>13. Accepted(c) = Accepted(m)
  BY <1>1, <1>6, <1>12, SetMachine DEF n
<1> QED
  BY <1>13 DEF c

(* complete() adds arcs to a state that is new, and leaves out no arc that a *)
(* deterministic machine lacks: it is enough to count them.                  *)
LEMMA CompletedMachine ==
    ASSUME NEW m, Finite(m), NEW b \in Nat, Bounded(m, b)
    PROVE  LET c == complete(m)
               sink == max_state(m) + 1
           IN  /\ Bounded(c, b + 1) /\ c.start = m.start /\ c.final = m.final
               /\ sink \notin states(m)
               /\ m.arcs \subseteq c.arcs /\ \A t \in c.arcs : t \in m.arcs \/ t[3] = sink
               /\ labels(c) = labels(m)
               /\ Determinate(m) => is_complete(c)
<1> DEFINE X == labels(m)
           Own(s) == {t \in m.arcs : t[1] = s}
           Lacking(s) == Cardinality(Own(s)) # Cardinality(X)
           sink == max_state(m) + 1
           P == {q \in states(m) \X X : Lacking(q[1]) /\ SinksOn(m, {q[1]}, q[2]) = {}}
           A == {<<sink, x, sink>> : x \in X}
           B == {<<p[1], p[2], sink>> : p \in P}
           C == m.arcs \cup A \cup B
           c == complete(m)
<1>1. c = IF \A s \in states(m) : ~ Lacking(s) THEN m ELSE [m EXCEPT !.arcs = C]
  BY DEF complete
<1> HIDE DEF c
<1>2. /\ \A s \in states(m) : s # sink
      /\ sink \in 0 .. b + 1 /\ \A s \in 0 .. b : s \in 0 .. b + 1
      /\ states(m) \subseteq 0 .. b
      /\ X \in SUBSET Int /\ IsFiniteSet(X)
      /\ \A t \in m.arcs : t = <<t[1], t[2], t[3]>> /\ t[1] \in states(m) /\ t[2] \in X /\ t[3] \in states(m)
  <2>1. /\ max_state(m) \in 0 .. b /\ states(m) \subseteq 0 .. b
        /\ \A s \in states(m) : s \in Int /\ s <= max_state(m)
        /\ \A t \in m.arcs : t = <<t[1], t[2], t[3]>> /\ t[1] \in states(m) /\ t[2] \in X /\ t[3] \in states(m)
    BY StatesBounded
  <2>2. X \in SUBSET Int /\ IsFiniteSet(X)
    BY FiniteStates
  <2> HIDE DEF X
  <2> QED
    BY <2>1, <2>2
<1>3. ASSUME Determinate(m), NEW s \in states(m), ~ Lacking(s), NEW x \in X
      PROVE  \E t \in m.arcs : t[1] = s /\ t[2] = x
  <2> DEFINE O == Own(s)
             f == [t \in O |-> t[2]]
             I == {f[t] : t \in O}
  <2>1. IsFiniteSet(O)
    <3>1. O \in SUBSET m.arcs
      OBVIOUS
    <3> HIDE DEF O
    <3> QED
      BY <3>1, FS_Subset DEF Finite
  <2>2. \A t \in O : t \in m.arcs /\ t[1] = s /\ f[t] = t[2]
    OBVIOUS
  <2>3. Cardinality(O) = Cardinality(X)
    BY <1>3
  <2> HIDE DEF O, f, X
  <2>4. I \in SUBSET X
    BY <1>2, <2>2
  <2>5. \A t, u \in O : f[t] = f[u] => t = u
    <3> SUFFICES ASSUME NEW t \in O, NEW u \in O, f[t] = f[u] PROVE t = u
      OBVIOUS
    <3>1. t[1] = u[1] /\ t[2] = u[2] /\ t \in m.arcs /\ u \in m.arcs
      BY <2>2
    <3>2. t[3] = u[3]
      BY <1>3, <3>1 DEF Determinate
    <3> QED
      BY <1>2, <3>1, <3>2
  <2>6. f \in Bijection(O, I)
    <3>1. f \in [O -> I]
      <4>1. f = [t \in O |-> t[2]]
        BY DEF f
      <4> QED
        BY <4>1
    <3> QED
      BY <2>5, <3>1 DEF Bijection, Injection, Surjection, IsInjective
  <2>7. IsFiniteSet(I) /\ Cardinality(I) = Cardinality(O)
    <3>1. IsFiniteSet(I)
      BY <1>2, <2>4, FS_Subset
    <3>2. f \in Surjection(O, I) /\ f \in Injection(O, I)
      BY <2>6 DEF Bijection
    <3> HIDE DEF I
    <3> QED
      BY <2>1, <3>1, <3>2, FS_Surjection
  <2>8. I = X
    BY <1>2, <2>3, <2>4, <2>7, FS_Subset
  <2>9. PICK t \in O : x = f[t]
    BY <2>8
  <2> QED
    BY <2>2, <2>9
<1>4. ASSUME NEW s \in states(m), NEW x \in X, Lacking(s), ~ \E t \in m.arcs : t[1] = s /\ t[2] = x
      PROVE  <<s, x, sink>> \in B
  <2>1. SinksOn(m, {s}, x) = {}
    BY <1>4 DEF SinksOn
  <2>2. <<s, x>> \in P
    BY <1>4, <2>1
  <2> HIDE DEF P
  <2> QED
    BY <2>2
<1>5. \A t \in A : \E x \in X : t = <<sink, x, sink>>
  OBVIOUS
<1>6. \A t \in B : \E s \in states(m), x \in X : t = <<s, x, sink>>
  OBVIOUS
<1>7. \A x \in X : <<sink, x, sink>> \in A
  OBVIOUS
<1> HIDE DEF A, B, P, X, sink
<1>8. \A t \in C : t \in m.arcs \/ t \in A \/ t \in B
  OBVIOUS
<1>9. m.arcs \subseteq C /\ A \subseteq C /\ B \subseteq C
  OBVIOUS
<1>10. C \in SUBSET ((0 .. b + 1) \X Int \X (0 .. b + 1))
  <2>1. \A t \in m.arcs : t \in (0 .. b + 1) \X Int \X (0 .. b + 1)
    BY <1>2
  <2>2. \A t \in A : t \in (0 .. b + 1) \X Int \X (0 .. b + 1)
    BY <1>2, <1>5
  <2>3. \A t \in B : t \in (0 .. b + 1) \X Int \X (0 .. b + 1)
    BY <1>2, <1>6
  <2> QED
    BY <1>8, <2>1, <2>2, <2>3
<1> HIDE DEF C
<1>11. m = [start |-> m.start, final |-> m.final, arcs |-> m.arcs]
  BY DEF Finite
<1>12. [m EXCEPT !.arcs = C] = [start |-> m.start, final |-> m.final, arcs |-> C]
  BY <1>11, FieldsReplaced
<1>13. /\ c.start = m.start /\ c.final = m.final
       /\ c = [start |-> c.start, final |-> c.final, arcs |-> c.arcs]
       /\ c.arcs = IF \A s \in states(m) : ~ Lacking(s) THEN m.arcs ELSE C
  <2>1. CASE \A s \in states(m) : ~ Lacking(s)
    BY <1>1, <1>11, <2>1
  <2>2. CASE ~ \A s \in states(m) : ~ Lacking(s)
    BY <1>1, <1>12, <2>2
  <2> QED
    BY <2>1, <2>2
<1>14. m.arcs \subseteq c.arcs /\ \A t \in c.arcs : t \in m.arcs \/ t \in A \/ t \in B
  BY <1>8, <1>9, <1>13
<1>15. \A t \in c.arcs : t \in m.arcs \/ t[3] = sink
  BY <1>5, <1>6, <1>14
<1>16. Bounded(c, b + 1)
  <2>1. m.arcs \in SUBSET ((0 .. b + 1) \X Int \X (0 .. b + 1))
    BY <1>2
  <2>2. m.start \in SUBSET (0 .. b + 1) /\ m.final \in SUBSET (0 .. b + 1)
    BY <1>2 DEF Bounded
  <2> QED
    BY <1>10, <1>13, <2>1, <2>2 DEF Bounded
<1>17. labels(c) = X
  <2>1. \A t \in c.arcs : t[2] \in X
    BY <1>2, <1>5, <1>6, <1>14
  <2>2. X \subseteq labels(c)
    BY <1>14 DEF X, labels
  <2> QED
    BY <2>1, <2>2 DEF labels
<1>18. ASSUME Determinate(m) PROVE is_complete(c)
  <2> SUFFICES ASSUME NEW s \in states(c), NEW x \in X PROVE \E t \in c.arcs : t[1] = s /\ t[2] = x
    BY <1>17 DEF is_complete, SinksOn
  <2>1. s \in states(m) \/ (s = sink /\ ~ \A z \in states(m) : ~ Lacking(z))
    <3>1. m.start \subseteq states(m) /\ m.final \subseteq states(m)
      BY StatesBounded
    <3>2. ASSUME NEW t \in c.arcs
          PROVE  \A z \in {t[1], t[3]} :
                    z \in states(m) \/ (z = sink /\ ~ \A y \in states(m) : ~ Lacking(y))
      <4>1. CASE t \in m.arcs
        BY <1>2, <4>1
      <4>2. CASE t \notin m.arcs
        <5>1. ~ \A y \in states(m) : ~ Lacking(y)
          BY <1>13, <4>2
        <5> HIDE DEF Lacking
        <5> QED
          BY <1>5, <1>6, <1>14, <4>2, <5>1
      <4> QED
        BY <4>1, <4>2
    <3> HIDE DEF Lacking
    <3> QED
      BY <1>13, <3>1, <3>2 DEF states
  <2>2. CASE s \in states(m) /\ ~ Lacking(s)
    BY <1>3, <1>14, <1>18, <2>2 DEF X
  <2>3. CASE s \in states(m) /\ Lacking(s) /\ ~ \E t \in m.arcs : t[1] = s /\ t[2] = x
    <3>1. <<s, x, sink>> \in B
      BY <1>4, <2>3
    <3>2. c.arcs = C
      BY <1>13, <2>3
    <3>3. <<s, x, sink>> \in c.arcs
      BY <1>9, <3>1, <3>2
    <3> QED
      BY <3>3
  <2>4. CASE \E t \in m.arcs : t[1] = s /\ t[2] = x
    BY <1>14, <2>4
  <2>5. CASE s = sink /\ ~ \A z \in states(m) : ~ Lacking(z)
    <3>1. c.arcs = C
      BY <1>13, <2>5
    <3>2. <<s, x, sink>> \in c.arcs
      BY <1>7, <1>9, <2>5, <3>1
    <3> QED
      BY <3>2
  <2> HIDE DEF Lacking
  <2> QED
    BY <2>1, <2>2, <2>3, <2>4, <2>5
<1> QED
  BY <1>2, <1>13, <1>14, <1>15, <1>16, <1>17, <1>18 DEF c, sink, X

(* The state added leads to no final state.                                  *)
LEMMA CompleteLanguage ==
    ASSUME NEW m, Finite(m), NEW b \in Nat, Bounded(m, b)
    PROVE  Accepted(complete(m)) = Accepted(m)
<1> DEFINE c == complete(m)
           sink == max_state(m) + 1
           T == {w \in Seq(Int) : \A u : u # sink => (Leads(c, w, u) <=> Leads(m, w, u))}
<1>1. /\ c.start = m.start /\ c.final = m.final
      /\ sink \notin states(m)
      /\ m.arcs \subseteq c.arcs /\ \A t \in c.arcs : t \in m.arcs \/ t[3] = sink
  BY CompletedMachine
<1>2. m.final \subseteq states(m) /\ \A t \in m.arcs : t[1] \in states(m)
  BY StatesBounded
<1> HIDE DEF c, sink
<1>3. <<>> \in T
  BY <1>1, LeadsAtOnce
<1>4. ASSUME NEW v \in Seq(Int), NEW x \in Int, v \in T PROVE Append(v, x) \in T
  <2>1. Append(v, x) \in Seq(Int)
    OBVIOUS
  <2> SUFFICES ASSUME NEW u, u # sink PROVE Leads(c, Append(v, x), u) <=> Leads(m, Append(v, x), u)
    BY <2>1
  <2>2. ASSUME NEW s PROVE Leads(c, v, s) /\ <<s, x, u>> \in c.arcs <=> Leads(m, v, s) /\ <<s, x, u>> \in m.arcs
    <3>1. <<s, x, u>> \in c.arcs <=> <<s, x, u>> \in m.arcs
      <4>1. <<s, x, u>>[3] = u
        OBVIOUS
      <4> QED
        BY <1>1, <4>1
    <3>2. <<s, x, u>> \in m.arcs => s # sink
      <4>1. <<s, x, u>>[1] = s
        OBVIOUS
      <4> QED
        BY <1>1, <1>2, <4>1
    <3> QED
      BY <1>4, <3>1, <3>2
  <2> HIDE DEF T
  <2> QED
    BY <2>2, LeadsByLetter
<1>5. Seq(Int) \subseteq T
  <2> HIDE DEF T
  <2> QED
    BY <1>3, <1>4, WordInduction
<1>6. \A w \in Seq(Int) : (\E u \in c.final : Leads(c, w, u)) <=> (\E u \in m.final : Leads(m, w, u))
  BY <1>1, <1>2, <1>5
<1>7. Accepted(c) = Accepted(m)
  BY <1>6, AcceptedByLeading
<1> QED
  BY <1>7 DEF c

(* reduce() is the machine of nothing when no final state can be reached.    *)
LEMMA ReduceLanguage ==
    ASSUME NEW m, NEW b \in Nat, Bounded(m, b)
    PROVE  /\ Bounded(reduce(m), b)
           /\ Accepted(reduce(m)) = Accepted(m)
<1> DEFINE r == reachable_fm(m)
           z == [start |-> {0}, final |-> {}, arcs |-> {<<0, 1, 0>>}]
<1>1. Bounded(r, b) /\ Accepted(r) = Accepted(m)
  BY ReachableLanguage
<1>2. reduce(m) = IF r.final = {} THEN z ELSE useful_fm(r)
  BY DEF reduce
<1> HIDE DEF r
<1>3. Bounded(useful_fm(r), b) /\ Accepted(useful_fm(r)) = Accepted(r)
  BY <1>1, UsefulLanguage
<1>4. Bounded(z, b)
  <2>1. 0 \in 0 .. b
    OBVIOUS
  <2> QED
    BY <2>1 DEF Bounded
<1>5. r.final = {} => Accepted(r) = {}
  BY DEF Accepted
<1>6. Accepted(z) = {}
  BY DEF Accepted
<1> HIDE DEF z
<1> QED
  BY <1>1, <1>2, <1>3, <1>4, <1>5, <1>6

(* A deterministic machine that is complete leads every word over its labels *)
(* to one state.                                                             *)
LEMMA LeadsToOne ==
    ASSUME NEW c, NEW b \in Nat, Bounded(c, b), Determinate(c)
    PROVE  /\ \A w \in Seq(Int) : \A u, v : Leads(c, w, u) /\ Leads(c, w, v) => u = v
           /\ is_complete(c) => \A w \in Seq(labels(c)) : \E u : Leads(c, w, u)
<1>1. PICK s0 : c.start = {s0}
  BY DEF Determinate
<1>2. /\ \A t \in c.arcs : t = <<t[1], t[2], t[3]>> /\ t[2] \in labels(c)
      /\ labels(c) \subseteq Int
  BY StatesBounded
<1>3. ASSUME NEW s, NEW x, NEW u, NEW v, <<s, x, u>> \in c.arcs, <<s, x, v>> \in c.arcs
      PROVE  u = v
  <2>1. PICK t \in c.arcs : t = <<s, x, u>>
    BY <1>3
  <2>1a. PICK r \in c.arcs : r = <<s, x, v>>
    BY <1>3
  <2>2. t[1] = s /\ t[2] = x /\ t[3] = u /\ r[1] = s /\ r[2] = x /\ r[3] = v
    BY <2>1, <2>1a
  <2> QED
    BY <2>2 DEF Determinate
<1> DEFINE T == {w \in Seq(Int) : \A u, v : Leads(c, w, u) /\ Leads(c, w, v) => u = v}
<1>4. <<>> \in T
  BY <1>1, LeadsAtOnce
<1>5. ASSUME NEW v \in Seq(Int), NEW x \in Int, v \in T PROVE Append(v, x) \in T
  <2>1. Append(v, x) \in Seq(Int)
    OBVIOUS
  <2>2. \A u : Leads(c, Append(v, x), u) <=> \E s : Leads(c, v, s) /\ <<s, x, u>> \in c.arcs
    BY LeadsByLetter
  <2> QED
    BY <1>3, <1>5, <2>1, <2>2
<1>6. Seq(Int) \subseteq T
  <2> HIDE DEF T
  <2> QED
    BY <1>4, <1>5, WordInduction
<1>7. ASSUME is_complete(c), NEW w \in Seq(labels(c))
      PROVE  \E u : Leads(c, w, u)
  <2> DEFINE X == labels(c)
             R == {v \in Seq(Int) : v \in Seq(X) => \E u : Leads(c, v, u)}
  <2>1. <<>> \in R
    <3>1. Leads(c, <<>>, s0)
      BY <1>1, LeadsAtOnce
    <3>2. <<>> \in Seq(Int)
      OBVIOUS
    <3> HIDE DEF X
    <3> QED
      BY <3>1, <3>2
  <2>2. ASSUME NEW v \in Seq(Int), NEW x \in Int, v \in R PROVE Append(v, x) \in R
    <3>1. Append(v, x) \in Seq(Int)
      OBVIOUS
    <3> SUFFICES ASSUME Append(v, x) \in Seq(X) PROVE \E u : Leads(c, Append(v, x), u)
      BY <3>1
    <3> HIDE DEF X
    <3>2. v \in Seq(X) /\ x \in X
      <4> DEFINE y == Append(v, x)
      <4>1. Len(y) = Len(v) + 1 /\ Len(v) \in Nat /\ y[Len(v) + 1] = x /\ \A i \in 1 .. Len(v) : y[i] = v[i]
        BY AppendProperties
      <4>2. \A i \in 1 .. Len(y) : y[i] \in X
        BY ElementOfSeq
      <4> HIDE DEF y
      <4>3. x \in X /\ \A i \in 1 .. Len(v) : v[i] \in X
        BY <4>1, <4>2
      <4> QED
        BY <4>1, <4>3, IsASeq
    <3>3. PICK s : Leads(c, v, s)
      BY <2>2, <3>2
    <3>4. s \in states(c)
      BY <3>3, LeadsToStates
    <3>5. SinksOn(c, {s}, x) # {}
      BY <1>7, <3>2, <3>4 DEF is_complete, X
    <3>6. PICK t \in c.arcs : t[1] = s /\ t[2] = x
      BY <3>5 DEF SinksOn
    <3>7. <<s, x, t[3]>> \in c.arcs
      BY <1>2, <3>6
    <3> QED
      BY <3>3, <3>7, LeadsByLetter
  <2>3. Seq(Int) \subseteq R
    <3> HIDE DEF R
    <3> QED
      BY <2>1, <2>2, WordInduction
  <2>4. w \in Seq(Int)
    <3>1. Len(w) \in Nat /\ \A i \in 1 .. Len(w) : w[i] \in Int
      BY <1>2, ElementOfSeq, LenProperties
    <3> QED
      BY <3>1, IsASeq
  <2> QED
    BY <2>3, <2>4
<1> QED
  BY <1>6, <1>7

(* complement() accepts the words over its own labels that the machine does  *)
(* not accept: the labels are those that making it deterministic has left.   *)
LEMMA ComplementLanguage ==
    ASSUME NEW m, Finite(m), NEW b \in Nat, Bounded(m, b)
    PROVE  Accepted(complement(m)) = Seq(labels(subset(m))) \ Accepted(m)
<1> DEFINE n == subset(m)
           c == complete(n)
           F == states(c) \ c.final
           d == complement(m)
<1>1. PICK e \in Nat : Bounded(n, e)
  BY SubsetLanguage
<1>2. Finite(n) /\ Determinate(n) /\ Accepted(n) = Accepted(m)
  BY SubsetIsDeterministic, DeterministicMeans, SubsetLanguage
<1>3. d = [c EXCEPT !.final = F]
  BY DEF complement
<1> HIDE DEF n
<1>4. Finite(c) /\ Determinate(c) /\ is_complete(c) /\ Bounded(c, e + 1) /\ labels(c) = labels(n)
  BY <1>1, <1>2, CompleteMachine, CompletedMachine
<1>5. Accepted(c) = Accepted(m)
  BY <1>1, <1>2, CompleteLanguage
<1> HIDE DEF c, d
<1>6. d.start = c.start /\ d.arcs = c.arcs /\ d.final = F
  <2> HIDE DEF F
  <2>1. c = [start |-> c.start, final |-> c.final, arcs |-> c.arcs]
    BY <1>4 DEF Finite
  <2> QED
    BY <1>3, <2>1
<1>7. e + 1 \in Nat
  OBVIOUS
<1>8. ASSUME NEW w \in Seq(Int)
      PROVE  /\ \A u : Leads(d, w, u) <=> Leads(c, w, u)
             /\ \A u : Leads(c, w, u) => u \in states(c) /\ w \in Seq(labels(c))
             /\ \A u, v : Leads(c, w, u) /\ Leads(c, w, v) => u = v
             /\ w \in Seq(labels(c)) => \E u : Leads(c, w, u)
  <2>1. \A u : Leads(d, w, u) <=> Leads(c, w, u)
    BY <1>6 DEF Leads, Spells, Run
  <2> QED
    BY <1>4, <1>7, <2>1, LeadsToStates, LeadsToOne
<1>9. ASSUME NEW w \in Seq(Int)
      PROVE  (\E u \in d.final : Leads(d, w, u)) <=>
                 w \in Seq(labels(c)) /\ ~ \E u \in c.final : Leads(c, w, u)
  BY <1>6, <1>8
<1>10. ASSUME NEW w \in Seq(labels(c)) PROVE w \in Seq(Int)
  <2>1. labels(c) \subseteq Int
    BY <1>4, <1>7, StatesBounded
  <2>2. Len(w) \in Nat /\ \A i \in 1 .. Len(w) : w[i] \in Int
    BY <2>1, ElementOfSeq, LenProperties
  <2> QED
    BY <2>2, IsASeq
<1>11. Accepted(d) = Seq(labels(c)) \ Accepted(c)
  BY <1>9, <1>10, AcceptedByLeading
<1> QED
  BY <1>4, <1>5, <1>11 DEF d, n

(* A pair of numbers is known by the number made of it.                      *)
LEMMA PairsAreKnown ==
    ASSUME NEW max \in Nat, NEW s \in 0 .. max - 1, NEW t \in 0 .. max - 1,
           NEW u \in Nat, NEW v \in Nat, s + u * max = t + v * max
    PROVE  s = t /\ u = v
<1>1. ASSUME NEW x \in Nat, NEW y \in Nat, NEW p \in 0 .. max - 1, NEW q \in 0 .. max - 1,
             x < y
      PROVE  p + x * max # q + y * max
  <2>1. PICK d \in Nat : y = x + (d + 1)
    <3>1. y - x - 1 \in Nat /\ y = x + ((y - x - 1) + 1)
      BY <1>1
    <3> QED
      BY <3>1
  <2>2. y * max = x * max + (d * max + max)
    BY <2>1
  <2>3. d * max \in Nat /\ x * max \in Nat
    OBVIOUS
  <2>4. PICK A \in Nat, B \in Nat : A = x * max /\ B = d * max
    BY <2>3
  <2>5. p + A # q + (A + (B + max))
    OBVIOUS
  <2> QED
    BY <2>2, <2>4, <2>5
<1>2. u = v
  BY <1>1
<1>3. u * max \in Nat
  OBVIOUS
<1>4. PICK A \in Nat : A = u * max
  BY <1>3
<1> QED
  BY <1>2, <1>4

(* The product accepts what both machines accept.                            *)
LEMMA CrossLanguage ==
    ASSUME NEW m, NEW b \in Nat, Bounded(m, b), NEW o, NEW c \in Nat, Bounded(o, c)
    PROVE  /\ Accepted(cross_product(m, o)) = Accepted(m) \cap Accepted(o)
           /\ \E e \in Nat : Bounded(cross_product(m, o), e)
<1> DEFINE max == max_state(m) + 1
           N(s, u) == s + u * max
           x == cross_product(m, o)
           P == {q \in m.arcs \X o.arcs : q[1][2] = q[2][2]}
<1>1. /\ x.start = {N(s, u) : s \in m.start, u \in o.start}
      /\ x.final = {N(s, u) : s \in m.final, u \in o.final}
      /\ x.arcs = {<<N(p[1][1], p[2][1]), p[1][2], N(p[1][3], p[2][3])>> : p \in P}
      /\ x = [start |-> x.start, final |-> x.final, arcs |-> x.arcs]
  BY DEF cross_product
<1> HIDE DEF x
<1>2. max \in Nat /\ states(m) \subseteq 0 .. max - 1 /\ states(o) \subseteq 0 .. c
  <2>1. max_state(m) \in 0 .. b /\ states(m) \subseteq 0 .. max_state(m) /\ states(o) \subseteq 0 .. c
    BY StatesBounded
  <2> QED
    BY <2>1
<1>3. \A t \in m.arcs : t = <<t[1], t[2], t[3]>> /\ t[1] \in states(m) /\ t[2] \in Int /\ t[3] \in states(m)
  BY StatesBounded
<1>4. \A t \in o.arcs : t = <<t[1], t[2], t[3]>> /\ t[1] \in states(o) /\ t[2] \in Int /\ t[3] \in states(o)
  BY StatesBounded
<1>5. m.start \subseteq states(m) /\ m.final \subseteq states(m) /\ o.start \subseteq states(o) /\ o.final \subseteq states(o)
  BY StatesBounded
<1> HIDE DEF max
<1>6. ASSUME NEW s \in states(m), NEW u \in states(o), NEW t \in states(m), NEW v \in states(o),
             N(s, u) = N(t, v)
      PROVE  s = t /\ u = v
  <2>1. s \in 0 .. max - 1 /\ t \in 0 .. max - 1 /\ u \in Nat /\ v \in Nat
    BY <1>2
  <2> QED
    BY <1>2, <1>6, <2>1, PairsAreKnown
<1> HIDE DEF N
<1>7. ASSUME NEW s \in states(m), NEW u \in states(o), NEW t \in states(m), NEW v \in states(o), NEW l
      PROVE  <<N(s, u), l, N(t, v)>> \in x.arcs <=> <<s, l, t>> \in m.arcs /\ <<u, l, v>> \in o.arcs
  <2>1. ASSUME <<N(s, u), l, N(t, v)>> \in x.arcs
        PROVE  <<s, l, t>> \in m.arcs /\ <<u, l, v>> \in o.arcs
    <3>1. PICK p \in P : <<N(s, u), l, N(t, v)>> = <<N(p[1][1], p[2][1]), p[1][2], N(p[1][3], p[2][3])>>
      BY <1>1, <2>1
    <3>2. PICK f \in m.arcs, g \in o.arcs : f = p[1] /\ g = p[2] /\ f[2] = g[2]
      BY DEF P
    <3>3. N(s, u) = N(f[1], g[1]) /\ l = f[2] /\ N(t, v) = N(f[3], g[3])
      BY <3>1, <3>2
    <3>4. s = f[1] /\ u = g[1] /\ t = f[3] /\ v = g[3]
      BY <1>3, <1>4, <1>6, <3>3
    <3> QED
      BY <1>3, <1>4, <3>2, <3>3, <3>4
  <2>2. ASSUME <<s, l, t>> \in m.arcs, <<u, l, v>> \in o.arcs
        PROVE  <<N(s, u), l, N(t, v)>> \in x.arcs
    <3> DEFINE p == <<<<s, l, t>>, <<u, l, v>>>>
    <3>1. p \in P /\ p[1][1] = s /\ p[2][1] = u /\ p[1][2] = l /\ p[1][3] = t /\ p[2][3] = v
      BY <2>2
    <3> HIDE DEF p, P
    <3> QED
      BY <1>1, <3>1
  <2> QED
    BY <2>1, <2>2
<1>8. ASSUME NEW e \in x.arcs
      PROVE  \E s, t \in states(m), u, v \in states(o), l \in Int : e = <<N(s, u), l, N(t, v)>>
  <2>1. PICK p \in P : e = <<N(p[1][1], p[2][1]), p[1][2], N(p[1][3], p[2][3])>>
    BY <1>1
  <2>2. PICK f \in m.arcs, g \in o.arcs : f = p[1] /\ g = p[2]
    BY DEF P
  <2>3. e = <<N(f[1], g[1]), f[2], N(f[3], g[3])>>
    BY <2>1, <2>2
  <2> QED
    BY <1>3, <1>4, <2>3
<1> HIDE DEF P
<1> DEFINE Is(w, y) == \E s \in states(m), u \in states(o) : y = N(s, u) /\ Leads(m, w, s) /\ Leads(o, w, u)
           T == {w \in Seq(Int) : \A y : Leads(x, w, y) <=> Is(w, y)}
<1>9. <<>> \in T
  <2>1. /\ \A y : Leads(x, <<>>, y) <=> y \in x.start
        /\ \A y : Leads(m, <<>>, y) <=> y \in m.start
        /\ \A y : Leads(o, <<>>, y) <=> y \in o.start
    BY LeadsAtOnce
  <2>2. <<>> \in Seq(Int)
    OBVIOUS
  <2> QED
    BY <1>1, <1>5, <2>1, <2>2
<1>10. ASSUME NEW v \in Seq(Int), NEW l \in Int, v \in T PROVE Append(v, l) \in T
  <2> DEFINE w == Append(v, l)
  <2>1. w \in Seq(Int)
    OBVIOUS
  <2>2. /\ \A y : Leads(x, w, y) <=> \E z : Leads(x, v, z) /\ <<z, l, y>> \in x.arcs
        /\ \A y : Leads(m, w, y) <=> \E z : Leads(m, v, z) /\ <<z, l, y>> \in m.arcs
        /\ \A y : Leads(o, w, y) <=> \E z : Leads(o, v, z) /\ <<z, l, y>> \in o.arcs
    BY LeadsByLetter
  <2>3. \A y : Leads(x, v, y) <=> Is(v, y)
    BY <1>10
  <2>4. (\A s : Leads(m, v, s) => s \in states(m)) /\ \A u : Leads(o, v, u) => u \in states(o)
    BY LeadsToStates
  <2> HIDE DEF w, T
  <2>5. ASSUME NEW y, Leads(x, w, y) PROVE Is(w, y)
    <3>1. PICK z : Leads(x, v, z) /\ <<z, l, y>> \in x.arcs
      BY <2>2, <2>5
    <3>2. PICK s \in states(m), u \in states(o) : z = N(s, u) /\ Leads(m, v, s) /\ Leads(o, v, u)
      BY <2>3, <3>1
    <3>3. PICK t \in states(m), q \in states(o) : y = N(t, q)
      <4>1. PICK e \in x.arcs : e = <<z, l, y>>
        BY <3>1
      <4>2. PICK f, t \in states(m), g, q \in states(o), k \in Int : e = <<N(f, g), k, N(t, q)>>
        BY <1>8
      <4> QED
        BY <4>1, <4>2
    <3>4. <<s, l, t>> \in m.arcs /\ <<u, l, q>> \in o.arcs
      BY <1>7, <3>1, <3>2, <3>3
    <3>5. Leads(m, w, t) /\ Leads(o, w, q)
      BY <2>2, <3>2, <3>4
    <3> QED
      BY <3>3, <3>5
  <2>6. ASSUME NEW y, Is(w, y) PROVE Leads(x, w, y)
    <3>1. PICK t \in states(m), q \in states(o) : y = N(t, q) /\ Leads(m, w, t) /\ Leads(o, w, q)
      BY <2>6
    <3>2. PICK s : Leads(m, v, s) /\ <<s, l, t>> \in m.arcs
      BY <2>2, <3>1
    <3>3. PICK u : Leads(o, v, u) /\ <<u, l, q>> \in o.arcs
      BY <2>2, <3>1
    <3>4. s \in states(m) /\ u \in states(o)
      BY <2>4, <3>2, <3>3
    <3>5. <<N(s, u), l, y>> \in x.arcs
      BY <1>7, <3>1, <3>2, <3>3, <3>4
    <3>6. Leads(x, v, N(s, u))
      BY <2>3, <3>2, <3>3, <3>4
    <3> QED
      BY <2>2, <3>5, <3>6
  <2> QED
    BY <2>1, <2>5, <2>6 DEF T, w
<1>11. Seq(Int) \subseteq T
  <2> HIDE DEF T
  <2> QED
    BY <1>9, <1>10, WordInduction
<1>12. ASSUME NEW w \in Seq(Int)
       PROVE  (\E y \in x.final : Leads(x, w, y)) <=>
                  (\E s \in m.final : Leads(m, w, s)) /\ (\E u \in o.final : Leads(o, w, u))
  <2>1. \A y : Leads(x, w, y) <=> Is(w, y)
    BY <1>11
  <2>2. ASSUME NEW y \in x.final, Leads(x, w, y)
        PROVE  (\E s \in m.final : Leads(m, w, s)) /\ (\E u \in o.final : Leads(o, w, u))
    <3>1. PICK s \in states(m), u \in states(o) : y = N(s, u) /\ Leads(m, w, s) /\ Leads(o, w, u)
      BY <2>1, <2>2
    <3>2. PICK t \in m.final, q \in o.final : y = N(t, q)
      BY <1>1
    <3>3. s = t /\ u = q
      BY <1>5, <1>6, <3>1, <3>2
    <3> QED
      BY <3>1, <3>2, <3>3
  <2>3. ASSUME NEW s \in m.final, Leads(m, w, s), NEW u \in o.final, Leads(o, w, u)
        PROVE  \E y \in x.final : Leads(x, w, y)
    <3>1. N(s, u) \in x.final
      BY <1>1
    <3>2. Is(w, N(s, u))
      BY <1>5, <2>3
    <3> HIDE DEF Is
    <3> QED
      BY <2>1, <3>1, <3>2
  <2> HIDE DEF Is
  <2> QED
    BY <2>2, <2>3
<1>13. Accepted(x) = Accepted(m) \cap Accepted(o)
  <2>1. \A a : Accepted(a) = { w \in Seq(Int) : \E u \in a.final : Leads(a, w, u) }
    BY AcceptedByLeading
  <2> QED
    BY <1>12, <2>1
<1>14. \E e \in Nat : Bounded(x, e)
  <2> DEFINE e == max + c * max
  <2>1. \A s \in states(m), u \in states(o) : N(s, u) \in 0 .. e
    <3> SUFFICES ASSUME NEW s \in states(m), NEW u \in states(o) PROVE N(s, u) \in 0 .. e
      OBVIOUS
    <3>1. s \in Nat /\ s <= max /\ u \in Nat /\ u <= c /\ max \in Nat
      BY <1>2
    <3>2. u * max \in Nat /\ c * max \in Nat /\ u * max <= c * max
      <4>1. PICK d \in Nat : c = u + d
        <5>1. c - u \in Nat /\ c = u + (c - u)
          BY <3>1
        <5> QED
          BY <5>1
      <4>2. c * max = u * max + d * max /\ d * max \in Nat /\ u * max \in Nat
        BY <3>1, <4>1
      <4> HIDE DEF e
      <4> QED
        BY <4>2
    <3> QED
      BY <3>1, <3>2 DEF N
  <2>2. e \in Nat
    BY <1>2
  <2> HIDE DEF e
  <2>3. x.start \in SUBSET (0 .. e) /\ x.final \in SUBSET (0 .. e)
    BY <1>1, <1>5, <2>1
  <2>4. x.arcs \in SUBSET ((0 .. e) \X Int \X (0 .. e))
    BY <1>8, <2>1
  <2>5. Bounded(x, e)
    BY <1>1, <2>3, <2>4 DEF Bounded
  <2> QED
    BY <2>2, <2>5
<1> QED
  BY <1>13, <1>14 DEF x

(* P is the words that are one or more words of L in a row.                  *)
Repeats(P, L) ==
    /\ L \subseteq P
    /\ \A v \in P, x \in L : v \o x \in P
    /\ \A T \in SUBSET Seq(Int) : L \subseteq T /\ (\A v \in T, x \in L : v \o x \in T) => P \subseteq T

(* A word put behind another one, letter by letter.                          *)
LEMMA Behind ==
    ASSUME NEW v \in Seq(Int)
    PROVE  /\ v \o <<>> = v /\ <<>> \o v = v
           /\ \A x \in Seq(Int) : v \o x \in Seq(Int)
           /\ \A x \in Seq(Int), l \in Int : v \o Append(x, l) = Append(v \o x, l)
<1>1. v \o <<>> = v /\ <<>> \o v = v
  BY ConcatEmptySeq
<1>2. ASSUME NEW x \in Seq(Int) PROVE v \o x \in Seq(Int)
  OBVIOUS
<1>3. ASSUME NEW x \in Seq(Int), NEW l \in Int PROVE v \o Append(x, l) = Append(v \o x, l)
  OBVIOUS
<1> QED
  BY <1>1, <1>2, <1>3

(* What plus() adds.                                                         *)
LEMMA PlusMachine ==
    ASSUME NEW m, NEW b \in Nat, Bounded(m, b)
    PROVE  LET p == plus(m)
           IN  /\ Bounded(p, b) /\ p.start = m.start /\ p.final = m.final
               /\ \A s, l, u : <<s, l, u>> \in p.arcs <=>
                      \/ <<s, l, u>> \in m.arcs
                      \/ u \in m.start /\ \E f \in m.final : <<s, l, f>> \in m.arcs
<1> DEFINE p == plus(m)
           A == {u \in m.arcs : u[3] \in m.final}
           N == {<<t[1], t[2], s>> : t \in A, s \in m.start}
           C == m.arcs \cup N
<1>1. p = [m EXCEPT !.arcs = C]
  BY DEF plus
<1>2. \A t \in m.arcs : t = <<t[1], t[2], t[3]>> /\ t[1] \in 0 .. b /\ t[2] \in Int /\ t[3] \in 0 .. b
  BY DEF Bounded
<1>3. m.start \in SUBSET (0 .. b) /\ m.final \in SUBSET (0 .. b) /\ m.arcs \in SUBSET ((0 .. b) \X Int \X (0 .. b))
  BY DEF Bounded
<1>4. \A e : e \in N <=> \E t \in m.arcs, s \in m.start : t[3] \in m.final /\ e = <<t[1], t[2], s>>
  OBVIOUS
<1> HIDE DEF p, N
<1>5. p = [start |-> m.start, final |-> m.final, arcs |-> C]
  <2>1. m = [start |-> m.start, final |-> m.final, arcs |-> m.arcs]
    BY DEF Bounded
  <2> HIDE DEF C
  <2> QED
    BY <1>1, <2>1, FieldsReplaced
<1>6. N \in SUBSET ((0 .. b) \X Int \X (0 .. b))
  BY <1>2, <1>3, <1>4
<1>7. Bounded(p, b) /\ p.start = m.start /\ p.final = m.final
  BY <1>3, <1>5, <1>6 DEF Bounded
<1>8. ASSUME NEW s, NEW l, NEW u
      PROVE  <<s, l, u>> \in p.arcs <=>
                \/ <<s, l, u>> \in m.arcs
                \/ u \in m.start /\ \E f \in m.final : <<s, l, f>> \in m.arcs
  <2>1. ASSUME <<s, l, u>> \in N PROVE u \in m.start /\ \E f \in m.final : <<s, l, f>> \in m.arcs
    <3>1. PICK t \in m.arcs, z \in m.start : t[3] \in m.final /\ <<s, l, u>> = <<t[1], t[2], z>>
      BY <1>4, <2>1
    <3>2. s = t[1] /\ l = t[2] /\ u = z
      BY <3>1
    <3> QED
      BY <1>2, <3>1, <3>2
  <2>2. ASSUME u \in m.start, NEW f \in m.final, <<s, l, f>> \in m.arcs PROVE <<s, l, u>> \in N
    <3>1. PICK t \in m.arcs : t = <<s, l, f>>
      BY <2>2
    <3>2. t[1] = s /\ t[2] = l /\ t[3] = f
      BY <3>1
    <3> QED
      BY <1>4, <2>2, <3>2
  <2>3. <<s, l, u>> \in p.arcs <=> <<s, l, u>> \in m.arcs \/ <<s, l, u>> \in N
    BY <1>5
  <2> QED
    BY <2>1, <2>2, <2>3
<1> QED
  BY <1>7, <1>8 DEF p

(* A word of the machine behind any that leads to its start states leads on  *)
(* as it does by itself.                                                     *)
LEMMA LeadsOnward ==
    ASSUME NEW m, NEW p, m.arcs \subseteq p.arcs,
           NEW v \in Seq(Int), \A s \in m.start : Leads(p, v, s),
           NEW x \in Seq(Int), NEW u, Leads(m, x, u)
    PROVE  Leads(p, v \o x, u)
<1> DEFINE T == {w \in Seq(Int) : \A z : Leads(m, w, z) => Leads(p, v \o w, z)}
<1>1. <<>> \in T
  <2>1. \A z : Leads(m, <<>>, z) <=> z \in m.start
    BY LeadsAtOnce
  <2>2. v \o <<>> = v /\ <<>> \in Seq(Int)
    BY Behind
  <2>3. \A z : Leads(m, <<>>, z) => Leads(p, v \o <<>>, z)
    BY <2>1, <2>2
  <2> QED
    BY <2>2, <2>3
<1>2. ASSUME NEW w \in Seq(Int), NEW l \in Int, w \in T PROVE Append(w, l) \in T
  <2>1. Append(w, l) \in Seq(Int) /\ v \o w \in Seq(Int) /\ v \o Append(w, l) = Append(v \o w, l)
    BY Behind
  <2>2. ASSUME NEW z, Leads(m, Append(w, l), z) PROVE Leads(p, v \o Append(w, l), z)
    <3>1. PICK s : Leads(m, w, s) /\ <<s, l, z>> \in m.arcs
      BY <2>2, LeadsByLetter
    <3>2. Leads(p, v \o w, s) /\ <<s, l, z>> \in p.arcs
      BY <1>2, <3>1
    <3>3. Leads(p, Append(v \o w, l), z)
      BY <2>1, <3>2, LeadsByLetter
    <3> QED
      BY <2>1, <3>3
  <2> QED
    BY <2>1, <2>2
<1>3. Seq(Int) \subseteq T
  <2> HIDE DEF T
  <2> QED
    BY <1>1, <1>2, WordInduction
<1> QED
  BY <1>3

(* plus() accepts its words over and over.                                   *)
LEMMA PlusLanguage ==
    ASSUME NEW m, NEW b \in Nat, Bounded(m, b)
    PROVE  Bounded(plus(m), b) /\ Repeats(Accepted(plus(m)), Accepted(m))
<1> DEFINE p == plus(m)
           L == Accepted(m)
           M == Accepted(p)
<1>1. /\ Bounded(p, b) /\ p.start = m.start /\ p.final = m.final
      /\ \A s, l, u : <<s, l, u>> \in p.arcs <=>
             \/ <<s, l, u>> \in m.arcs
             \/ u \in m.start /\ \E f \in m.final : <<s, l, f>> \in m.arcs
  BY PlusMachine
<1> HIDE DEF p
<1>2. m.arcs \subseteq p.arcs
  <2>1. \A t \in m.arcs : t = <<t[1], t[2], t[3]>>
    BY StatesBounded
  <2> QED
    BY <1>1, <2>1
<1>3. /\ \A w : w \in L <=> w \in Seq(Int) /\ \E u \in m.final : Leads(m, w, u)
      /\ \A w : w \in M <=> w \in Seq(Int) /\ \E u \in m.final : Leads(p, w, u)
  BY <1>1, AcceptedByLeading
<1> HIDE DEF L, M
<1>4. ASSUME NEW x \in Seq(Int), NEW u, Leads(m, x, u) PROVE Leads(p, x, u)
  <2>1. \A s \in m.start : Leads(p, <<>>, s)
    BY <1>1, LeadsAtOnce
  <2>2. <<>> \in Seq(Int) /\ <<>> \o x = x
    BY Behind
  <2>3. Leads(p, <<>> \o x, u)
    BY <1>2, <1>4, <2>1, <2>2, LeadsOnward
  <2> QED
    BY <2>2, <2>3
<1>5. L \subseteq M
  BY <1>3, <1>4
<1>6. ASSUME NEW v \in M, NEW x \in L PROVE v \o x \in M
  <2>1. v \in Seq(Int) /\ x \in Seq(Int)
    BY <1>3
  <2>2. CASE v = <<>>
    BY <1>5, <2>1, <2>2, Behind
  <2>3. CASE v # <<>>
    <3>1. PICK w \in Seq(Int), l \in Int : v = Append(w, l)
      BY <2>1, <2>3, SequenceEmptyOrAppend
    <3>2. PICK u \in m.final : Leads(p, v, u)
      BY <1>3
    <3>3. PICK s : Leads(p, w, s) /\ <<s, l, u>> \in p.arcs
      BY <3>1, <3>2, LeadsByLetter
    <3>4. ASSUME NEW z \in m.start PROVE Leads(p, v, z)
      <4>1. <<s, l, z>> \in p.arcs
        BY <1>1, <3>2, <3>3
      <4> QED
        BY <3>1, <3>3, <4>1, LeadsByLetter
    <3>5. PICK z \in m.final : Leads(m, x, z)
      BY <1>3
    <3>6. Leads(p, v \o x, z)
      BY <1>2, <2>1, <3>4, <3>5, LeadsOnward
    <3> QED
      BY <1>3, <2>1, <3>6, Behind
  <2> QED
    BY <2>2, <2>3
<1>7. ASSUME NEW T \in SUBSET Seq(Int), L \subseteq T, \A v \in T, x \in L : v \o x \in T
      PROVE  M \subseteq T
  <2> DEFINE Is(w, u) == Leads(m, w, u) \/ \E v \in T, x \in Seq(Int) : w = v \o x /\ Leads(m, x, u)
             R == {w \in Seq(Int) : \A u : Leads(p, w, u) => Is(w, u)}
  <2>1. <<>> \in R
    <3>1. \A u : Leads(p, <<>>, u) => Leads(m, <<>>, u)
      BY <1>1, LeadsAtOnce
    <3>2. <<>> \in Seq(Int)
      OBVIOUS
    <3> QED
      BY <3>1, <3>2
  <2>2. ASSUME NEW w \in Seq(Int), NEW l \in Int, w \in R PROVE Append(w, l) \in R
    <3> DEFINE y == Append(w, l)
    <3>1. y \in Seq(Int)
      OBVIOUS
    <3>2. \A u : Leads(p, w, u) => Is(w, u)
      BY <2>2
    <3> SUFFICES ASSUME NEW u, Leads(p, y, u) PROVE Is(y, u)
      BY <3>1
    <3> HIDE DEF R
    <3>3. PICK s : Leads(p, w, s) /\ <<s, l, u>> \in p.arcs
      BY LeadsByLetter
    (* One letter further in the machine itself.                             *)
    <3>4. ASSUME NEW z, <<s, l, z>> \in m.arcs PROVE Is(y, z)
      <4>1. CASE Leads(m, w, s)
        BY <3>4, <4>1, LeadsByLetter
      <4>2. ASSUME NEW v \in T, NEW x \in Seq(Int), w = v \o x, Leads(m, x, s) PROVE Is(y, z)
        <5>1. Append(x, l) \in Seq(Int)
          OBVIOUS
        <5>2. \E r : Leads(m, x, r) /\ <<r, l, z>> \in m.arcs
          BY <3>4, <4>2
        <5>3. Leads(m, Append(x, l), z)
          BY <5>2, LeadsByLetter, Zenon
        <5>4. v \in Seq(Int)
          BY <1>7
        <5>5. v \o Append(x, l) = Append(v \o x, l)
          BY <5>4, Behind
        <5>6. y = v \o Append(x, l)
          BY <4>2, <5>5, Zenon
        <5> HIDE DEF y
        <5> QED
          BY <5>1, <5>3, <5>6
      <4> QED
        BY <3>2, <3>3, <4>1, <4>2
    <3>5. ASSUME u \in m.start, NEW f \in m.final, <<s, l, f>> \in m.arcs PROVE Is(y, u)
      <4>1. Is(y, f)
        BY <3>4, <3>5
      <4>2. y \in T
        <5>1. CASE Leads(m, y, f)
          BY <1>3, <1>7, <3>1, <3>5, <5>1
        <5>2. ASSUME NEW v \in T, NEW x \in Seq(Int), y = v \o x, Leads(m, x, f) PROVE y \in T
          BY <1>3, <1>7, <3>5, <5>2
        <5> QED
          BY <4>1, <5>1, <5>2
      <4>3. Leads(m, <<>>, u) /\ <<>> \in Seq(Int) /\ y = y \o <<>>
        BY <3>1, <3>5, LeadsAtOnce, Behind
      <4> HIDE DEF y
      <4> QED
        BY <4>2, <4>3
    <3> HIDE DEF Is, y
    <3> QED
      BY <1>1, <3>3, <3>4, <3>5
  <2>3. Seq(Int) \subseteq R
    <3> HIDE DEF R
    <3> QED
      BY <2>1, <2>2, WordInduction
  <2> SUFFICES ASSUME NEW w \in M PROVE w \in T
    OBVIOUS
  <2>4. PICK u \in m.final : Leads(p, w, u)
    BY <1>3
  <2>5. w \in Seq(Int) /\ Is(w, u)
    BY <1>3, <2>3, <2>4
  <2>6. CASE Leads(m, w, u)
    BY <1>3, <1>7, <2>5, <2>6
  <2>7. ASSUME NEW v \in T, NEW x \in Seq(Int), w = v \o x, Leads(m, x, u) PROVE w \in T
    BY <1>3, <1>7, <2>7
  <2> QED
    BY <2>5, <2>6, <2>7
<1>8. Repeats(M, L)
  BY <1>5, <1>6, <1>7 DEF Repeats
<1> QED
  BY <1>1, <1>8 DEF M, L, p

(* star() accepts the empty word as well.                                    *)
LEMMA StarLanguage ==
    ASSUME NEW m, NEW b \in Nat, Bounded(m, b)
    PROVE  /\ Bounded(star(m), b + 1)
           /\ Accepted(star(m)) = Accepted(plus(m)) \cup {<<>>}
<1> DEFINE p == plus(m)
           clone == max_state(p) + 1
           N == {<<clone, t[2], t[3]>> : t \in {u \in p.arcs : u[1] \in p.start}}
           q == star(m)
<1>1. /\ q.start = {clone} /\ q.final = p.final \cup {clone} /\ q.arcs = p.arcs \cup N
      /\ q = [start |-> q.start, final |-> q.final, arcs |-> q.arcs]
  BY DEF star
<1> HIDE DEF q
<1>2. Bounded(p, b)
  BY PlusMachine
<1> HIDE DEF p
<1>3. /\ \A t \in p.arcs : t = <<t[1], t[2], t[3]>> /\ t[1] \in states(p) /\ t[2] \in Int /\ t[3] \in states(p)
      /\ p.start \subseteq states(p) /\ p.final \subseteq states(p)
  BY <1>2, StatesBounded
<1>4. clone \notin states(p) /\ clone \in 0 .. b + 1 /\ states(p) \subseteq 0 .. b + 1
  <2>1. max_state(p) \in 0 .. b /\ states(p) \subseteq 0 .. max_state(p)
    BY <1>2, StatesBounded
  <2> QED
    BY <2>1
<1> HIDE DEF clone
<1>5. ASSUME NEW s, NEW l, NEW u
      PROVE  <<s, l, u>> \in q.arcs <=>
                \/ <<s, l, u>> \in p.arcs
                \/ s = clone /\ \E z \in p.start : <<z, l, u>> \in p.arcs
  <2>1. ASSUME <<s, l, u>> \in N PROVE s = clone /\ \E z \in p.start : <<z, l, u>> \in p.arcs
    <3>1. PICK t \in p.arcs : t[1] \in p.start /\ <<s, l, u>> = <<clone, t[2], t[3]>>
      BY <2>1
    <3> QED
      BY <1>3, <3>1
  <2>2. ASSUME s = clone, NEW z \in p.start, <<z, l, u>> \in p.arcs PROVE <<s, l, u>> \in N
    <3>1. PICK t \in p.arcs : t = <<z, l, u>>
      BY <2>2
    <3>2. t[1] = z /\ t[2] = l /\ t[3] = u
      BY <3>1
    <3> QED
      BY <2>2, <3>2
  <2> HIDE DEF N
  <2> QED
    BY <1>1, <2>1, <2>2
<1>6. Bounded(q, b + 1)
  <2>1. \A t \in N : t \in (0 .. b + 1) \X Int \X (0 .. b + 1)
    BY <1>3, <1>4
  <2> HIDE DEF N
  <2>2. \A t \in p.arcs : t \in (0 .. b + 1) \X Int \X (0 .. b + 1)
    BY <1>3, <1>4
  <2>3. q.arcs \in SUBSET ((0 .. b + 1) \X Int \X (0 .. b + 1))
    BY <1>1, <2>1, <2>2
  <2>4. q.start \in SUBSET (0 .. b + 1) /\ q.final \in SUBSET (0 .. b + 1)
    BY <1>1, <1>3, <1>4
  <2> QED
    BY <1>1, <2>3, <2>4 DEF Bounded
<1> HIDE DEF N
<1> DEFINE T == {w \in Seq(Int) : w = <<>> \/ \A u : Leads(q, w, u) <=> Leads(p, w, u)}
<1>7. \A u : Leads(q, <<>>, u) <=> u = clone
  BY <1>1, LeadsAtOnce
<1>8. <<>> \in T
  OBVIOUS
<1>9. ASSUME NEW v \in Seq(Int), NEW l \in Int, v \in T PROVE Append(v, l) \in T
  <2>1. Append(v, l) \in Seq(Int)
    OBVIOUS
  <2>2. /\ \A u : Leads(q, Append(v, l), u) <=> \E s : Leads(q, v, s) /\ <<s, l, u>> \in q.arcs
        /\ \A u : Leads(p, Append(v, l), u) <=> \E s : Leads(p, v, s) /\ <<s, l, u>> \in p.arcs
    BY LeadsByLetter
  <2>3. \A s : Leads(p, v, s) => s \in states(p)
    BY <1>2, LeadsToStates
  <2>4. \A l1, u : <<clone, l1, u>> \notin p.arcs
    <3> SUFFICES ASSUME NEW l1, NEW u, <<clone, l1, u>> \in p.arcs PROVE FALSE
      OBVIOUS
    <3>1. PICK t \in p.arcs : t = <<clone, l1, u>>
      OBVIOUS
    <3>2. t[1] = clone
      BY <3>1
    <3> QED
      BY <1>3, <1>4, <3>2
  <2>5. CASE v = <<>>
    <3>1. \A s : Leads(p, v, s) <=> s \in p.start
      BY <2>5, LeadsAtOnce
    <3>2. \A u : Leads(q, Append(v, l), u) <=> Leads(p, Append(v, l), u)
      BY <1>5, <1>7, <2>2, <2>4, <2>5, <3>1
    <3> QED
      BY <2>1, <3>2
  <2>6. CASE v # <<>>
    <3>1. \A u : Leads(q, v, u) <=> Leads(p, v, u)
      BY <1>9, <2>6
    <3>2. \A u : Leads(q, Append(v, l), u) <=> Leads(p, Append(v, l), u)
      BY <1>4, <1>5, <2>2, <2>3, <3>1
    <3> QED
      BY <2>1, <3>2
  <2> QED
    BY <2>5, <2>6
<1>10. Seq(Int) \subseteq T
  <2> HIDE DEF T
  <2> QED
    BY <1>8, <1>9, WordInduction
<1>11. ASSUME NEW w \in Seq(Int)
       PROVE  (\E u \in q.final : Leads(q, w, u)) <=> w = <<>> \/ \E u \in p.final : Leads(p, w, u)
  <2>1. CASE w = <<>>
    BY <1>1, <1>7, <2>1
  <2>2. CASE w # <<>>
    <3>1. \A u : Leads(q, w, u) <=> Leads(p, w, u)
      BY <1>10, <2>2
    <3>2. \A u : Leads(p, w, u) => u \in states(p)
      BY <1>2, LeadsToStates
    <3> QED
      BY <1>1, <1>4, <2>2, <3>1, <3>2
  <2> QED
    BY <2>1, <2>2
<1>12. <<>> \in Seq(Int)
  OBVIOUS
<1>13. Accepted(q) = Accepted(p) \cup {<<>>}
  <2>1. \A a : Accepted(a) = { w \in Seq(Int) : \E u \in a.final : Leads(a, w, u) }
    BY AcceptedByLeading
  <2> QED
    BY <1>11, <1>12, <2>1
<1> QED
  BY <1>6, <1>13 DEF q, p

(* A start state with arcs of its own is entered from another state.         *)
Reentered(m) ==
    \E t, u \in m.arcs : t[3] \in m.start /\ t[1] # t[3] /\ u[1] = t[3]

(* The words of K with one of L behind each.                                 *)
Catenated(K, L) == {v \o x : v \in K, x \in L}

(* What ^= makes of a machine and another one that is not entered again: it  *)
(* drops arcs only of states to which no arc leads.                          *)
LEMMA CatenateMachine ==
    ASSUME NEW a, NEW b \in Nat, Bounded(a, b),
           NEW p, NEW c \in Nat, Bounded(p, c), ~ Reentered(p)
    PROVE  LET r == renumber(p, max_state(a) + 1)
               n == catenate(a, p)
           IN  \E e \in Nat :
                 /\ Bounded(r, e) /\ Bounded(n, e) /\ Accepted(r) = Accepted(p)
                 /\ states(a) \cap states(r) = {}
                 /\ n.start = a.start
                 /\ n.final = r.final \cup (IF r.start \cap r.final # {} THEN a.final ELSE {})
                 /\ \A s, l, u : <<s, l, u>> \in n.arcs <=>
                       \/ <<s, l, u>> \in a.arcs
                       \/ s \in a.final /\ \E z \in r.start : <<z, l, u>> \in r.arcs
                       \/ <<s, l, u>> \in r.arcs /\ <<s, l, u>> \notin Dropped(r)
                 /\ \A s, l, u : <<s, l, u>> \in Dropped(r) => \A t \in r.arcs : t[3] # s
<1> DEFINE top == max_state(a)
<1>1. top \in 0 .. b /\ states(a) \subseteq 0 .. top
  BY StatesBounded
<1>2. PICK d \in Nat : d = top + 1 /\ d <= b + 1
  BY <1>1
<1>3. top < d
  BY <1>1, <1>2
<1>4. max_state(a) + 1 = d
  BY <1>2
<1> HIDE DEF top
<1> DEFINE r == renumber(p, max_state(a) + 1)
           n == catenate(a, p)
           e == b + (c + d)
           N == {<<f, t[2], t[3]>> : f \in a.final, t \in Redirected(r)}
<1>5. /\ n.start = a.start
      /\ n.final = IF p.start \cap p.final # {} THEN a.final \cup r.final ELSE r.final
      /\ n.arcs = a.arcs \cup N \cup (r.arcs \ Dropped(r))
      /\ n = [start |-> n.start, final |-> n.final, arcs |-> n.arcs]
  BY DEF catenate
<1>6. r = renumber(p, d)
  BY <1>4
<1> HIDE DEF r, n, e
<1>7. /\ Bounded(r, c + d) /\ Accepted(r) = Accepted(p)
      /\ \A u \in states(r) : u >= d
      /\ r.start = {s + d : s \in p.start} /\ r.final = {s + d : s \in p.final}
      /\ r.arcs = {<<t[1] + d, t[2], t[3] + d>> : t \in p.arcs}
  <2>1. /\ Bounded(renumber(p, d), c + d) /\ Accepted(renumber(p, d)) = Accepted(p)
        /\ \A u \in states(renumber(p, d)) : u >= d
    BY Renumbered
  <2>2. /\ renumber(p, d).start = {s + d : s \in p.start} /\ renumber(p, d).final = {s + d : s \in p.final}
        /\ renumber(p, d).arcs = {<<t[1] + d, t[2], t[3] + d>> : t \in p.arcs}
    BY DEF renumber
  <2> QED
    BY <1>6, <2>1, <2>2
<1>8. p.start \subseteq 0 .. c /\ p.final \subseteq 0 .. c /\ \A t \in p.arcs : t[1] \in 0 .. c /\ t[3] \in 0 .. c
  BY DEF Bounded
<1>9. p.start \cap p.final # {} <=> r.start \cap r.final # {}
  <2>1. \A s \in p.start, u \in p.final : s + d = u + d => s = u
    BY <1>8
  <2> QED
    BY <1>7, <2>1
<1>10. c + d \in Nat /\ e \in Nat /\ (\A z \in 0 .. b : z \in 0 .. e) /\ \A z \in 0 .. c + d : z \in 0 .. e
  BY DEF e
<1>11. \A t \in r.arcs : t = <<t[1], t[2], t[3]>> /\ t[1] \in 0 .. c + d /\ t[2] \in Int /\ t[3] \in 0 .. c + d
  BY <1>7 DEF Bounded
<1>12. \A t \in a.arcs : t \in (0 .. e) \X Int \X (0 .. e)
  BY <1>10 DEF Bounded
<1>13. a.start \subseteq 0 .. e /\ a.final \subseteq 0 .. e
  BY <1>10 DEF Bounded
<1>14. r.start \subseteq 0 .. e /\ r.final \subseteq 0 .. e
  BY <1>7, <1>10 DEF Bounded
<1>15. \A t \in r.arcs : t \in (0 .. e) \X Int \X (0 .. e)
  BY <1>10, <1>11
<1>16. \A t \in N : t \in (0 .. e) \X Int \X (0 .. e)
  BY <1>13, <1>10, <1>11 DEF Redirected
<1>17. Bounded(n, e)
  <2>1. n.arcs \in SUBSET ((0 .. e) \X Int \X (0 .. e))
    <3> HIDE DEF N
    <3> QED
      BY <1>5, <1>12, <1>15, <1>16
  <2>2. n.start \in SUBSET (0 .. e) /\ n.final \in SUBSET (0 .. e)
    BY <1>5, <1>13, <1>14
  <2> QED
    BY <1>5, <2>1, <2>2 DEF Bounded
<1>18. Bounded(r, e)
  <2>1. r.arcs \in SUBSET ((0 .. e) \X Int \X (0 .. e))
    BY <1>15
  <2>2. r = [start |-> r.start, final |-> r.final, arcs |-> r.arcs]
    BY <1>7 DEF Bounded
  <2> QED
    BY <1>14, <2>1, <2>2 DEF Bounded
<1>19. states(a) \cap states(r) = {}
  <2>1. \A s \in states(a) : s \in Int /\ s <= top
    BY <1>1
  <2>2. \A s \in states(a), u \in states(r) : s # u
    BY <1>1, <1>3, <1>7, <2>1
  <2> QED
    BY <2>2
<1>20. ASSUME NEW s, NEW l, NEW u
       PROVE  <<s, l, u>> \in N <=> s \in a.final /\ \E z \in r.start : <<z, l, u>> \in r.arcs
  <2>1. ASSUME <<s, l, u>> \in N PROVE s \in a.final /\ \E z \in r.start : <<z, l, u>> \in r.arcs
    <3>1. PICK f \in a.final, t \in Redirected(r) : <<s, l, u>> = <<f, t[2], t[3]>>
      BY <2>1
    <3>2. t \in r.arcs /\ t[1] \in r.start /\ s = f /\ l = t[2] /\ u = t[3]
      BY <3>1 DEF Redirected
    <3> QED
      BY <1>11, <3>2
  <2>2. ASSUME s \in a.final, NEW z \in r.start, <<z, l, u>> \in r.arcs PROVE <<s, l, u>> \in N
    <3>1. PICK t \in r.arcs : t = <<z, l, u>>
      BY <2>2
    <3>2. t[1] = z /\ t[2] = l /\ t[3] = u
      BY <3>1
    <3>3. t \in Redirected(r)
      BY <3>2 DEF Redirected
    <3> QED
      BY <2>2, <3>2, <3>3
  <2> HIDE DEF N
  <2> QED
    BY <2>1, <2>2
<1>21. ASSUME NEW s, NEW l, NEW u, <<s, l, u>> \in Dropped(r), NEW t \in r.arcs
       PROVE  t[3] # s
  <2> SUFFICES ASSUME t[3] = s PROVE FALSE
    OBVIOUS
  <2>1. PICK g \in r.arcs : g = <<s, l, u>>
    BY <1>21 DEF Dropped, Redirected
  <2>2. g[1] = s /\ g[1] \in r.start /\ g \in Redirected(r)
    BY <1>21, <2>1 DEF Dropped, Redirected
  <2>3. t[1] # s
    <3> SUFFICES ASSUME t[1] = s PROVE FALSE
      OBVIOUS
    <3>1. t \in Redirected(r)
      BY <2>2 DEF Redirected
    <3>2. t[1] <= g[1] /\ t[3] = t[1]
      BY <1>11, <2>2
    <3>3. g \in Dropped(r)
      BY <1>21, <2>1
    <3> QED
      BY <3>1, <3>2, <3>3 DEF Dropped
  <2>4. PICK f, h \in p.arcs : t = <<f[1] + d, f[2], f[3] + d>> /\ g = <<h[1] + d, h[2], h[3] + d>>
    BY <1>7
  <2>5. t[1] = f[1] + d /\ t[3] = f[3] + d /\ g[1] = h[1] + d
    BY <2>4
  <2>6. PICK z \in p.start : g[1] = z + d
    BY <1>7, <2>2
  <2>7. f[3] = z /\ h[1] = z /\ f[1] # f[3]
    BY <1>8, <2>2, <2>3, <2>5, <2>6
  <2> QED
    BY <2>7 DEF Reentered
<1> HIDE DEF N
<1>22. \A s, l, u : <<s, l, u>> \in n.arcs <=>
          \/ <<s, l, u>> \in a.arcs
          \/ s \in a.final /\ \E z \in r.start : <<z, l, u>> \in r.arcs
          \/ <<s, l, u>> \in r.arcs /\ <<s, l, u>> \notin Dropped(r)
  BY <1>5, <1>20
<1>23. n.final = r.final \cup (IF r.start \cap r.final # {} THEN a.final ELSE {})
  BY <1>5, <1>9
<1> QED
  BY <1>5, <1>7, <1>10, <1>17, <1>18, <1>19, <1>21, <1>22, <1>23 DEF n, r

(* The catenation accepts the words of the first machine with one of the     *)
(* second behind.                                                            *)
LEMMA CatenateLanguage ==
    ASSUME NEW a, NEW b \in Nat, Bounded(a, b),
           NEW p, NEW c \in Nat, Bounded(p, c), ~ Reentered(p)
    PROVE  /\ Accepted(catenate(a, p)) = Catenated(Accepted(a), Accepted(p))
           /\ \E e \in Nat : Bounded(catenate(a, p), e)
<1> DEFINE r == renumber(p, max_state(a) + 1)
           n == catenate(a, p)
           D == Dropped(r)
           A == states(a)
           K == Accepted(a)
<1>1. PICK e \in Nat :
         /\ Bounded(r, e) /\ Bounded(n, e) /\ Accepted(r) = Accepted(p)
         /\ A \cap states(r) = {}
         /\ n.start = a.start
         /\ n.final = r.final \cup (IF r.start \cap r.final # {} THEN a.final ELSE {})
         /\ \A s, l, u : <<s, l, u>> \in n.arcs <=>
               \/ <<s, l, u>> \in a.arcs
               \/ s \in a.final /\ \E z \in r.start : <<z, l, u>> \in r.arcs
               \/ <<s, l, u>> \in r.arcs /\ <<s, l, u>> \notin D
         /\ \A s, l, u : <<s, l, u>> \in D => \A t \in r.arcs : t[3] # s
  BY CatenateMachine
<1>2. /\ \A s, l, u : <<s, l, u>> \in a.arcs => s \in A /\ u \in A
      /\ a.start \subseteq A /\ a.final \subseteq A
  <2>1. \A t \in a.arcs : t[1] \in A /\ t[3] \in A
    BY StatesBounded
  <2>2. ASSUME NEW s, NEW l, NEW u, <<s, l, u>> \in a.arcs PROVE s \in A /\ u \in A
    <3>1. PICK t \in a.arcs : t = <<s, l, u>>
      BY <2>2
    <3> QED
      BY <2>1, <3>1
  <2> QED
    BY <2>2, StatesBounded
<1> HIDE DEF r, n, D
<1>3. /\ \A s, l, u : <<s, l, u>> \in r.arcs => s \notin A /\ u \notin A /\ <<u, l, u>>[3] = u /\ \E t \in r.arcs : t[3] = u
      /\ r.start \cap A = {} /\ r.final \cap A = {}
  <2>1. /\ \A t \in r.arcs : t[1] \in states(r) /\ t[3] \in states(r)
        /\ r.start \subseteq states(r) /\ r.final \subseteq states(r)
    BY <1>1, StatesBounded
  <2>2. ASSUME NEW s, NEW l, NEW u, <<s, l, u>> \in r.arcs
        PROVE  s \notin A /\ u \notin A /\ <<u, l, u>>[3] = u /\ \E t \in r.arcs : t[3] = u
    <3>1. PICK t \in r.arcs : t = <<s, l, u>>
      BY <2>2
    <3>2. t[1] = s /\ t[3] = u
      BY <3>1
    <3> QED
      BY <1>1, <2>1, <3>2
  <2> QED
    BY <1>1, <2>1, <2>2
<1>4. \A w : w \in K <=> w \in Seq(Int) /\ \E f \in a.final : Leads(a, w, f)
  BY AcceptedByLeading
<1> HIDE DEF A, K
<1> DEFINE Apart(w, u) == \E v \in K, y \in Seq(Int) : w = v \o y /\ y # <<>> /\ Leads(r, y, u)
           T == {w \in Seq(Int) : /\ \A u \in A : Leads(n, w, u) <=> Leads(a, w, u)
                                  /\ \A u : u \notin A => (Leads(n, w, u) <=> Apart(w, u))}
<1>5. \A w \in K : w \in Seq(Int)
  BY <1>4
<1>6. <<>> \in T
  <2>1. /\ \A u : Leads(n, <<>>, u) <=> u \in a.start
        /\ \A u : Leads(a, <<>>, u) <=> u \in a.start
    BY <1>1, LeadsAtOnce
  <2>1a. \A g \in Seq(Int), k \in Int : Append(g, k) # <<>>
    BY AppendProperties
  <2>2. \A u : ~ Apart(<<>>, u)
    <3> SUFFICES ASSUME NEW v \in K, NEW y \in Seq(Int), <<>> = v \o y, y # <<>> PROVE FALSE
      OBVIOUS
    <3>1. v \in Seq(Int)
      BY <1>5
    <3>2. PICK q \in Seq(Int), k \in Int : y = Append(q, k)
      BY SequenceEmptyOrAppend
    <3>3. v \o y = Append(v \o q, k) /\ v \o q \in Seq(Int)
      BY <3>1, <3>2, Behind
    <3>4. PICK g \in Seq(Int) : g = v \o q
      BY <3>3
    <3>5. <<>> = Append(g, k)
      BY <3>3, <3>4, Zenon
    <3> QED
      BY <2>1a, <3>5, Zenon
  <2>3. <<>> \in Seq(Int)
    OBVIOUS
  <2>4. /\ \A u \in A : Leads(n, <<>>, u) <=> Leads(a, <<>>, u)
        /\ \A u : u \notin A => ~ Leads(n, <<>>, u)
    BY <1>2, <2>1
  <2> HIDE DEF Apart
  <2> QED
    BY <2>2, <2>3, <2>4
<1>7. ASSUME NEW w \in Seq(Int), NEW l \in Int, w \in T PROVE Append(w, l) \in T
  <2> DEFINE x == Append(w, l)
  <2>1. x \in Seq(Int)
    OBVIOUS
  <2>2. \A m, u : Leads(m, x, u) <=> \E s : Leads(m, w, s) /\ <<s, l, u>> \in m.arcs
    BY LeadsByLetter
  <2>3. /\ \A u \in A : Leads(n, w, u) <=> Leads(a, w, u)
        /\ \A u : u \notin A => (Leads(n, w, u) <=> Apart(w, u))
    BY <1>7
  <2>3a. \A s : Leads(a, w, s) => s \in A
    BY LeadsToStates DEF A
  <2> HIDE DEF x, T, Apart
  <2>4. ASSUME NEW u \in A PROVE Leads(n, x, u) <=> Leads(a, x, u)
    <3>1. ASSUME NEW s PROVE <<s, l, u>> \in n.arcs <=> <<s, l, u>> \in a.arcs
      BY <1>1, <1>3, <2>4
    <3>2. \A s : <<s, l, u>> \in a.arcs => s \in A
      BY <1>2
    <3> QED
      BY <2>2, <2>3, <3>1, <3>2
  <2>5. ASSUME NEW u, u \notin A, Leads(n, x, u) PROVE Apart(x, u)
    <3>1. PICK s : Leads(n, w, s) /\ <<s, l, u>> \in n.arcs
      BY <2>2, <2>5
    <3>2. <<s, l, u>> \notin a.arcs
      BY <1>2, <2>5
    <3>3. ASSUME s \in a.final, NEW z \in r.start, <<z, l, u>> \in r.arcs PROVE Apart(x, u)
      <4>1. w \in K
        BY <1>2, <1>4, <2>3, <3>1, <3>3
      <4>2. Leads(r, <<>>, z) /\ <<>> \in Seq(Int)
        BY LeadsAtOnce
      <4>3. PICK y : y = Append(<<>>, l)
        OBVIOUS
      <4>4. y \in Seq(Int) /\ y # <<>>
        BY <4>3
      <4>5. Leads(r, y, u)
        BY <3>3, <4>2, <4>3, LeadsByLetter
      <4>6. x = w \o y
        BY <4>2, <4>3, Behind DEF x
      <4> QED
        BY <4>1, <4>4, <4>5, <4>6 DEF Apart
    <3>4. ASSUME <<s, l, u>> \in r.arcs PROVE Apart(x, u)
      <4>1. s \notin A
        BY <1>3, <3>4
      <4>2. PICK v \in K, y \in Seq(Int) : w = v \o y /\ y # <<>> /\ Leads(r, y, s)
        BY <2>3, <3>1, <4>1 DEF Apart
      <4>3. PICK q : q = Append(y, l)
        OBVIOUS
      <4>4. q \in Seq(Int) /\ q # <<>>
        BY <4>3, AppendProperties
      <4>5. Leads(r, q, u)
        BY <3>4, <4>2, <4>3, LeadsByLetter
      <4>6. x = v \o q
        <5>1. v \in Seq(Int)
          BY <1>5
        <5>2. v \o Append(y, l) = Append(v \o y, l)
          BY <5>1, Behind
        <5> QED
          BY <4>2, <4>3, <5>2, Zenon DEF x
      <4> QED
        BY <4>4, <4>5, <4>6 DEF Apart
    <3> QED
      BY <1>1, <3>1, <3>2, <3>3, <3>4
  <2>6. ASSUME NEW u, u \notin A, Apart(x, u) PROVE Leads(n, x, u)
    <3>1. PICK v \in K, y \in Seq(Int) : x = v \o y /\ y # <<>> /\ Leads(r, y, u)
      BY <2>6 DEF Apart
    <3>2. PICK q \in Seq(Int), k \in Int : y = Append(q, k)
      BY <3>1, SequenceEmptyOrAppend
    <3>3. v \in Seq(Int) /\ v \o q \in Seq(Int) /\ v \o y = Append(v \o q, k)
      <4>1. v \in Seq(Int)
        BY <1>5
      <4>2. v \o q \in Seq(Int)
        BY <4>1
      <4>3. v \o Append(q, k) = Append(v \o q, k)
        BY <4>1, Behind
      <4> QED
        BY <3>2, <4>1, <4>2, <4>3, Zenon
    <3>4. w = v \o q /\ l = k
      <4>1. PICK g \in Seq(Int) : g = v \o q
        BY <3>3
      <4>2. Append(w, l) = Append(g, k)
        BY <3>1, <3>3, <4>1, Zenon DEF x
      <4>3. w = g /\ l = k
        BY <4>2, AppendInjective
      <4> QED
        BY <4>1, <4>3
    <3>5. PICK s : Leads(r, q, s) /\ <<s, l, u>> \in r.arcs
      BY <3>1, <3>2, <3>4, LeadsByLetter
    <3>6. CASE q = <<>>
      <4>1. w = v /\ s \in r.start
        BY <3>3, <3>4, <3>5, <3>6, Behind, LeadsAtOnce
      <4>2. PICK f \in a.final : Leads(a, w, f)
        BY <1>4, <4>1
      <4>3. Leads(n, w, f) /\ <<f, l, u>> \in n.arcs
        BY <1>1, <1>2, <2>3, <3>5, <4>1, <4>2
      <4> QED
        BY <2>2, <4>3
    <3>7. CASE q # <<>>
      <4>1. PICK h \in Seq(Int), j \in Int : q = Append(h, j)
        BY <3>7, SequenceEmptyOrAppend
      <4>2. PICK z : <<z, j, s>> \in r.arcs
        BY <3>5, <4>1, LeadsByLetter
      <4>3. \E t \in r.arcs : t[3] = s
        BY <1>3, <4>2
      <4>4. <<s, l, u>> \in n.arcs /\ s \notin A
        BY <1>1, <1>3, <3>5, <4>3
      <4>5. Apart(w, s)
        BY <3>4, <3>5, <3>7 DEF Apart
      <4> QED
        BY <2>2, <2>3, <4>4, <4>5
    <3> QED
      BY <3>6, <3>7
  <2> QED
    BY <2>1, <2>4, <2>5, <2>6 DEF T, x
<1>8. Seq(Int) \subseteq T
  <2> HIDE DEF T
  <2> QED
    BY <1>6, <1>7, WordInduction
<1>9. \A w : w \in Accepted(r) <=> w \in Seq(Int) /\ \E u \in r.final : Leads(r, w, u)
  BY AcceptedByLeading
<1>10. \A w : w \in Accepted(n) <=> w \in Seq(Int) /\ \E u \in n.final : Leads(n, w, u)
  BY AcceptedByLeading
<1>11. ASSUME NEW w \in Accepted(n) PROVE \E v \in K, y \in Accepted(r) : w = v \o y
  <2>1. PICK u \in n.final : Leads(n, w, u)
    BY <1>10
  <2>2. w \in Seq(Int)
    BY <1>10
  <2>3. CASE u \in r.final
    <3>1. Apart(w, u)
      BY <1>3, <1>8, <2>1, <2>2, <2>3
    <3> QED
      BY <1>9, <2>3, <3>1
  <2>4. CASE u \in a.final /\ r.start \cap r.final # {}
    <3>1. w \in K
      BY <1>2, <1>4, <1>8, <2>1, <2>2, <2>4
    <3>2. <<>> \in Accepted(r)
      <4>1. PICK z : z \in r.start /\ z \in r.final
        BY <2>4
      <4>2. <<>> \in Seq(Int) /\ Leads(r, <<>>, z)
        BY <4>1, LeadsAtOnce
      <4> QED
        BY <1>9, <4>1, <4>2
    <3>3. w = w \o <<>>
      BY <2>2, Behind
    <3> QED
      BY <3>1, <3>2, <3>3
  <2> QED
    BY <1>1, <2>1, <2>3, <2>4
<1>12. ASSUME NEW v \in K, NEW y \in Accepted(r) PROVE v \o y \in Accepted(n)
  <2>1. v \in Seq(Int) /\ y \in Seq(Int) /\ v \o y \in Seq(Int)
    BY <1>5, <1>9, Behind
  <2>2. PICK u \in r.final : Leads(r, y, u)
    BY <1>9
  <2>3. CASE y = <<>>
    <3>1. u \in r.start
      BY <2>2, <2>3, LeadsAtOnce
    <3>2. PICK f \in a.final : Leads(a, v, f)
      BY <1>4
    <3>3. Leads(n, v, f) /\ f \in n.final
      BY <1>1, <1>2, <1>8, <2>1, <3>1, <3>2
    <3>4. v \o y = v
      BY <2>1, <2>3, Behind
    <3> QED
      BY <1>10, <2>1, <3>3, <3>4
  <2>4. CASE y # <<>>
    <3>1. Apart(v \o y, u)
      BY <2>1, <2>2, <2>4
    <3>2. u \notin A /\ u \in n.final
      BY <1>1, <1>3
    <3>3. Leads(n, v \o y, u)
      <4> HIDE DEF Apart
      <4> QED
        BY <1>8, <2>1, <3>1, <3>2
    <3> QED
      BY <1>10, <2>1, <3>2, <3>3
  <2> QED
    BY <2>3, <2>4
<1>13. Accepted(n) = Catenated(K, Accepted(p))
  <2> DEFINE M == Accepted(n)
             R == Accepted(r)
  <2>1. /\ \A w \in M : \E v \in K, y \in R : w = v \o y
        /\ \A v \in K, y \in R : v \o y \in M
    BY <1>11, <1>12
  <2> HIDE DEF M, R
  <2>2. M = Catenated(K, R)
    <3>1. \A w : w \in Catenated(K, R) <=> \E v \in K, y \in R : w = v \o y
      BY DEF Catenated
    <3> QED
      BY <2>1, <3>1, Zenon
  <2> QED
    BY <1>1, <2>2 DEF M, R
<1> QED
  BY <1>1, <1>13 DEF n, K

(* A machine as files and programs have them: finitely many arcs, and states *)
(* that are natural numbers up to some bound.                                *)
Usual(m) == IsFiniteSet(m.arcs) /\ \E b \in Nat : Bounded(m, b)

(* Such a machine is finite.                                                 *)
LEMMA UsualIsFinite ==
    ASSUME NEW m, Usual(m)
    PROVE  Finite(m)
BY TypedMachine DEF Usual

(* What the operations of fm are for, of any machines.  Those of the first   *)
(* group change what the machine looks like and not what it accepts; the     *)
(* others accept the words that their names promise: ^= if no start state    *)
(* that the second machine leaves is entered again, complement() over the    *)
(* labels that are left when the machine has been made deterministic.        *)
THEOREM OperationsMean ==
    ASSUME NEW m, Usual(m), NEW o, Usual(o)
    PROVE  /\ \A n \in {complete(m), subset(m), nfatodfa(m), canonical_numbering(m),
                        reachable_fm(m), useful_fm(m), reduce(m)} :
                 Accepted(n) = Accepted(m)
           /\ Accepted(reverse(m)) = {Reverse(w) : w \in Accepted(m)}
           /\ Accepted(unite(m, o)) = Accepted(m) \cup Accepted(o)
           /\ Accepted(cross_product(m, o)) = Accepted(m) \cap Accepted(o)
           /\ ~ Reentered(o) => Accepted(catenate(m, o)) = Catenated(Accepted(m), Accepted(o))
           /\ Repeats(Accepted(plus(m)), Accepted(m))
           /\ Accepted(star(m)) = Accepted(plus(m)) \cup {<<>>}
           /\ Accepted(complement(m)) = Seq(labels(subset(m))) \ Accepted(m)
<1>1. Finite(m) /\ Finite(o)
  BY UsualIsFinite
<1>2. PICK b \in Nat : Bounded(m, b)
  BY DEF Usual
<1>3. PICK c \in Nat : Bounded(o, c)
  BY DEF Usual
<1>4. /\ Accepted(complete(m)) = Accepted(m)
      /\ Accepted(subset(m)) = Accepted(m)
      /\ Accepted(nfatodfa(m)) = Accepted(m)
      /\ Accepted(canonical_numbering(m)) = Accepted(m)
  BY <1>1, <1>2, CompleteLanguage, SubsetLanguage, NfaToDfaLanguage, CanonicalLanguage
<1>5. /\ Accepted(reachable_fm(m)) = Accepted(m)
      /\ Accepted(useful_fm(m)) = Accepted(m)
      /\ Accepted(reduce(m)) = Accepted(m)
  BY <1>2, ReachableLanguage, UsefulLanguage, ReduceLanguage
<1>6. Accepted(reverse(m)) = {Reverse(w) : w \in Accepted(m)}
  BY <1>2, ReverseLanguage
<1>7. Accepted(unite(m, o)) = Accepted(m) \cup Accepted(o)
  BY <1>2, <1>3, UnionLanguage
<1>8. Accepted(cross_product(m, o)) = Accepted(m) \cap Accepted(o)
  BY <1>2, <1>3, CrossLanguage
<1>9. ~ Reentered(o) => Accepted(catenate(m, o)) = Catenated(Accepted(m), Accepted(o))
  BY <1>2, <1>3, CatenateLanguage
<1>10. /\ Repeats(Accepted(plus(m)), Accepted(m))
       /\ Accepted(star(m)) = Accepted(plus(m)) \cup {<<>>}
  BY <1>2, PlusLanguage, StarLanguage
<1>11. Accepted(complement(m)) = Seq(labels(subset(m))) \ Accepted(m)
  BY <1>1, <1>2, ComplementLanguage
<1> QED
  BY <1>4, <1>5, <1>6, <1>7, <1>8, <1>9, <1>10, <1>11

(* Making a result deterministic changes nothing of what it accepts.         *)
LEMMA DeterministicLanguage ==
    ASSUME NEW m, Finite(m), NEW b \in Nat, Bounded(m, b)
    PROVE  Accepted(Deterministic(m)) = Accepted(m)
BY SubsetLanguage DEF Deterministic

(* The adapter's calls, which make their results deterministic or do not:    *)
(* the words that the calls of the two classes promise, of any machines.     *)
(* NFA's cross(), which takes its own machine twice, accepts what that does. *)
THEOREM AdapterMeans ==
    ASSUME NEW m, Usual(m), NEW o, Usual(o)
    PROVE  /\ \A n \in {DFA_complete(m), DFA_reachable(m), DFA_reduce(m), DFA_nfatodfa(m),
                        NFA_complete(m), NFA_reachable(m), NFA_reduce(m), NFA_cross(m, o)} :
                 Accepted(n) = Accepted(m)
           /\ \A n \in {DFA_reverse(m), NFA_reverse(m)} :
                 Accepted(n) = {Reverse(w) : w \in Accepted(m)}
           /\ \A n \in {DFA_uniondfa(m, o), NFA_unionnfa(m, o)} :
                 Accepted(n) = Accepted(m) \cup Accepted(o)
           /\ Accepted(DFA_cross(m, o)) = Accepted(m) \cap Accepted(o)
           /\ ~ Reentered(o) => \A n \in {DFA_concat(m, o), NFA_concat(m, o)} :
                 Accepted(n) = Catenated(Accepted(m), Accepted(o))
           /\ \A n \in {DFA_plus(m), NFA_plus(m)} : Repeats(Accepted(n), Accepted(m))
           /\ Accepted(DFA_star(m)) = Accepted(DFA_plus(m)) \cup {<<>>}
           /\ Accepted(NFA_star(m)) = Accepted(NFA_plus(m)) \cup {<<>>}
<1>1. Finite(m) /\ Finite(o)
  BY UsualIsFinite
<1>2. PICK b \in Nat : Bounded(m, b)
  BY DEF Usual
<1>3. PICK c \in Nat : Bounded(o, c)
  BY DEF Usual
<1>4. ASSUME NEW n, Finite(n), \E e \in Nat : Bounded(n, e)
      PROVE  Accepted(Deterministic(n)) = Accepted(n) /\ Accepted(subset(n)) = Accepted(n)
  BY <1>4, DeterministicLanguage, SubsetLanguage
<1>5. \E e \in Nat : Bounded(complete(m), e)
  <2>1. b + 1 \in Nat /\ Bounded(complete(m), b + 1)
    BY <1>1, <1>2, CompletedMachine
  <2> QED
    BY <2>1
<1>6. Accepted(DFA_complete(m)) = Accepted(complete(m))
  BY <1>1, <1>4, <1>5, CompleteMachine DEF DFA_complete
<1>7. Accepted(DFA_reachable(m)) = Accepted(reachable_fm(m))
  BY <1>1, <1>2, <1>4, FiniteReachable, ReachableLanguage DEF DFA_reachable
<1>8. Accepted(DFA_reduce(m)) = Accepted(reduce(m))
  BY <1>1, <1>2, <1>4, FiniteReduce, ReduceLanguage DEF DFA_reduce
<1>9. Accepted(DFA_nfatodfa(m)) = Accepted(m)
  BY <1>1, <1>2, <1>4 DEF DFA_nfatodfa
<1>10. Accepted(DFA_reverse(m)) = Accepted(reverse(m))
  BY <1>1, <1>2, <1>4, FiniteReverse, ReverseLanguage DEF DFA_reverse
<1>11. Accepted(DFA_uniondfa(m, o)) = Accepted(unite(m, o)) /\ Accepted(NFA_unionnfa(m, o)) = Accepted(unite(m, o))
  <2>1. Finite(unite(m, o)) /\ \E e \in Nat : Bounded(unite(m, o), e)
    BY <1>1, <1>2, <1>3, FiniteUnite, UnionLanguage
  <2> QED
    BY <1>4, <2>1 DEF DFA_uniondfa, NFA_unionnfa
<1>12. Accepted(DFA_cross(m, o)) = Accepted(cross_product(m, o))
  <2>1. Finite(cross_product(m, o)) /\ \E e \in Nat : Bounded(cross_product(m, o), e)
    BY <1>1, <1>2, <1>3, FiniteCross, CrossLanguage
  <2> QED
    BY <1>4, <2>1 DEF DFA_cross
<1>13. ~ Reentered(o) => Accepted(DFA_concat(m, o)) = Accepted(catenate(m, o))
  <2> SUFFICES ASSUME ~ Reentered(o) PROVE Accepted(DFA_concat(m, o)) = Accepted(catenate(m, o))
    OBVIOUS
  <2>1. Finite(catenate(m, o)) /\ \E e \in Nat : Bounded(catenate(m, o), e)
    BY <1>1, <1>2, <1>3, FiniteCatenate, CatenateLanguage
  <2> QED
    BY <1>4, <2>1 DEF DFA_concat
<1>14. Accepted(DFA_plus(m)) = Accepted(plus(m))
  BY <1>1, <1>2, <1>4, FinitePlus, PlusLanguage DEF DFA_plus
<1>15. Accepted(DFA_star(m)) = Accepted(star(m))
  <2>1. b + 1 \in Nat /\ Bounded(star(m), b + 1) /\ Finite(star(m))
    BY <1>1, <1>2, FiniteStar, StarLanguage
  <2> QED
    BY <1>4, <2>1 DEF DFA_star
<1>16. Accepted(NFA_cross(m, o)) = Accepted(m)
  BY <1>2, CrossLanguage DEF NFA_cross
<1>17. /\ \A n \in {complete(m), subset(m), nfatodfa(m), canonical_numbering(m),
                    reachable_fm(m), useful_fm(m), reduce(m)} :
              Accepted(n) = Accepted(m)
       /\ Accepted(reverse(m)) = {Reverse(w) : w \in Accepted(m)}
       /\ Accepted(unite(m, o)) = Accepted(m) \cup Accepted(o)
       /\ Accepted(cross_product(m, o)) = Accepted(m) \cap Accepted(o)
       /\ ~ Reentered(o) => Accepted(catenate(m, o)) = Catenated(Accepted(m), Accepted(o))
       /\ Repeats(Accepted(plus(m)), Accepted(m))
       /\ Accepted(star(m)) = Accepted(plus(m)) \cup {<<>>}
  BY OperationsMean
<1>18. \A n \in {DFA_complete(m), DFA_reachable(m), DFA_reduce(m), DFA_nfatodfa(m),
                 NFA_complete(m), NFA_reachable(m), NFA_reduce(m), NFA_cross(m, o)} :
          Accepted(n) = Accepted(m)
  BY <1>6, <1>7, <1>8, <1>9, <1>16, <1>17 DEF NFA_complete, NFA_reachable, NFA_reduce
<1>19. \A n \in {DFA_reverse(m), NFA_reverse(m)} : Accepted(n) = {Reverse(w) : w \in Accepted(m)}
  BY <1>10, <1>17 DEF NFA_reverse
<1>20. \A n \in {DFA_concat(m, o), NFA_concat(m, o)} :
          ~ Reentered(o) => Accepted(n) = Catenated(Accepted(m), Accepted(o))
  BY <1>13, <1>17 DEF NFA_concat
<1>21. \A n \in {DFA_plus(m), NFA_plus(m)} : Repeats(Accepted(n), Accepted(m))
  BY <1>14, <1>17 DEF NFA_plus
<1>22. /\ Accepted(DFA_star(m)) = Accepted(DFA_plus(m)) \cup {<<>>}
       /\ Accepted(NFA_star(m)) = Accepted(NFA_plus(m)) \cup {<<>>}
  BY <1>14, <1>15, <1>17 DEF NFA_plus, NFA_star
<1>23. \A n \in {DFA_uniondfa(m, o), NFA_unionnfa(m, o)} :
          Accepted(n) = Accepted(m) \cup Accepted(o)
  BY <1>11, <1>17
<1>24. Accepted(DFA_cross(m, o)) = Accepted(m) \cap Accepted(o)
  BY <1>12, <1>17
<1> QED
  BY <1>18, <1>19, <1>20, <1>21, <1>22, <1>23, <1>24
=============================================================================

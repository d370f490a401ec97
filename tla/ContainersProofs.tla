--------------------------- MODULE ContainersProofs ---------------------------
(***************************************************************************)
(* Containers for any objects, items, thresholds and bounds.  First what   *)
(* sorting, picking, searching and the other functions on one array        *)
(* return, then the invariant: every array has room, a flag that says the  *)
(* truth and, if it is a set, no item twice; and no two owners have the    *)
(* same buffer.  A new buffer is one that nobody has because the heap      *)
(* holds exactly what the pool and the live arrays have.                   *)
(***************************************************************************)
EXTENDS Containers, FiniteSetTheorems, SequenceTheorems, NaturalsInduction, WellFoundedInduction,
        TLAPS

(* A set of naturals has a least element.                                    *)
LEMMA LeastOfNaturals ==
    ASSUME NEW T \in SUBSET Nat, T # {}
    PROVE  \E x \in T : \A y \in T : x <= y
<1>1. \E x \in T : \A y \in T : ~ (<<y, x>> \in OpToRel(<, Nat))
  BY NatLessThanWellFounded, WFMin, Zenon
<1>2. ASSUME NEW x \in Nat, NEW y \in Nat, x < y PROVE <<x, y>> \in OpToRel(<, Nat)
  <2>1. <<x, y>> \in Nat \X Nat /\ <<x, y>>[1] = x /\ <<x, y>>[2] = y
    OBVIOUS
  <2> QED
    BY <1>2, <2>1, Zenon DEF OpToRel
<1>3. \E x \in T : \A y \in T : ~ (y < x)
  BY <1>1, <1>2, Zenon
<1> QED
  BY <1>3

(***************************************************************************)
(* Counting what does not come after each element of a finite set: the     *)
(* counts are the places 1, 2, ... of the elements in their order.         *)
(***************************************************************************)
LEMMA PlacesOfAnOrder ==
    ASSUME NEW K, IsFiniteSet(K), NEW B \in [K -> SUBSET K],
           \A k \in K : k \in B[k],
           \A i, k \in K : i # k => \/ k \notin B[i] /\ B[i] \subseteq B[k]
                                    \/ i \notin B[k] /\ B[k] \subseteq B[i]
    PROVE  /\ Cardinality(K) \in Nat
           /\ \A k \in K : Cardinality(B[k]) \in 1 .. Cardinality(K)
           /\ \A i, k \in K : i # k => Cardinality(B[i]) # Cardinality(B[k])
           /\ \A i, k \in K : Cardinality(B[i]) <= Cardinality(B[k]) => i \in B[k]
           /\ \A n \in 1 .. Cardinality(K) : \E k \in K : Cardinality(B[k]) = n
<1> DEFINE N == Cardinality(K)
           place == [k \in K |-> Cardinality(B[k])]
<1>1. N \in Nat
  BY FS_CardinalityType
<1>2. ASSUME NEW k \in K
      PROVE  IsFiniteSet(B[k]) /\ Cardinality(B[k]) \in 1 .. N
  <2>1. IsFiniteSet(B[k]) /\ Cardinality(B[k]) <= N /\ Cardinality(B[k]) \in Nat
    BY <1>2, FS_Subset, FS_CardinalityType
  <2>2. Cardinality(B[k]) # 0
    BY <1>2, <2>1, FS_EmptySet
  <2> QED
    BY <1>1, <2>1, <2>2
<1>3. ASSUME NEW i \in K, NEW k \in K, B[i] \subseteq B[k], k \notin B[i]
      PROVE  Cardinality(B[i]) < Cardinality(B[k])
  <2>1. Cardinality(B[i]) <= Cardinality(B[k])
    BY <1>2, <1>3, FS_Subset
  <2>2. Cardinality(B[i]) # Cardinality(B[k])
    BY <1>2, <1>3, FS_Subset
  <2> QED
    BY <1>2, <2>1, <2>2
<1>4. ASSUME NEW i \in K, NEW k \in K, i # k
      PROVE  Cardinality(B[i]) # Cardinality(B[k])
  BY <1>2, <1>3, <1>4
<1>5. ASSUME NEW i \in K, NEW k \in K, Cardinality(B[i]) <= Cardinality(B[k])
      PROVE  i \in B[k]
  BY <1>2, <1>3, <1>5
<1>6. ASSUME NEW n \in 1 .. N
      PROVE  \E k \in K : Cardinality(B[k]) = n
  <2>1. place \in Injection(K, 1 .. N)
    BY <1>2, <1>4 DEF Injection, IsInjective
  <2>2. IsFiniteSet(1 .. N) /\ Cardinality(1 .. N) = N
    BY <1>1, FS_Interval
  <2>3. place \in Surjection(K, 1 .. N)
    BY <2>1, <2>2, FS_Injection
  <2> QED
    BY <2>3 DEF Surjection
<1> QED
  BY <1>1, <1>2, <1>4, <1>5, <1>6

-----------------------------------------------------------------------------
(* Sequences of integers.                                                    *)
Ordered(s)  == \A i, j \in DOMAIN s : i <= j => s[i] <= s[j]
Distinct(s) == \A i, j \in DOMAIN s : i # j => s[i] # s[j]

(* The places of a finite sequence.                                          *)
LEMMA Indices ==
    ASSUME NEW s \in Seq(Int)
    PROVE  /\ DOMAIN s = 1 .. Len(s) /\ Len(s) \in Nat
           /\ IsFiniteSet(DOMAIN s) /\ Cardinality(DOMAIN s) = Len(s)
           /\ \A i \in DOMAIN s : i \in Int /\ s[i] \in Int
<1>1. DOMAIN s = 1 .. Len(s) /\ Len(s) \in Nat
  OBVIOUS
<1>2. ASSUME NEW i \in DOMAIN s PROVE i \in Int /\ s[i] \in Int
  BY <1>1
<1> DEFINE n == Len(s)
<1>3. DOMAIN s = 1 .. n /\ n \in Nat
  BY <1>1
<1> HIDE DEF n
<1>4. IsFiniteSet(1 .. n) /\ Cardinality(1 .. n) = n
  <2>1. 1 \in Int /\ n \in Int
    BY <1>3
  <2>2. /\ IsFiniteSet(1 .. n)
        /\ Cardinality(1 .. n) = IF 1 > n THEN 0 ELSE n - 1 + 1
    BY <2>1, FS_Interval
  <2>3. (IF 1 > n THEN 0 ELSE n - 1 + 1) = n
    BY <1>3
  <2> QED
    BY <2>2, <2>3
<1>5. IsFiniteSet(DOMAIN s) /\ Cardinality(DOMAIN s) = n
  BY <1>3, <1>4, Zenon
<1> QED
  BY <1>1, <1>2, <1>5 DEF n

(* Sorting rearranges.                                                       *)
LEMMA AscendingIsOrdered ==
    ASSUME NEW s \in Seq(Int)
    PROVE  /\ Ascending(s) \in Seq(Int) /\ Len(Ascending(s)) = Len(s)
           /\ Ordered(Ascending(s))
           /\ Distinct(s) => Distinct(Ascending(s))
           /\ ToSet(Ascending(s)) = ToSet(s)
<1> DEFINE K == DOMAIN s
           B == [i \in K |-> { j \in K : s[j] < s[i] \/ (s[j] = s[i] /\ j <= i) }]
           at(n) == CHOOSE i \in K : Place(s, i) = n
<1>1. K = 1 .. Len(s) /\ Len(s) \in Nat /\ IsFiniteSet(K) /\ Cardinality(K) = Len(s)
  BY Indices
<1>2. \A i \in K : s[i] \in Int /\ i \in Int
  BY Indices
<1>3. B \in [K -> SUBSET K] /\ \A k \in K : k \in B[k]
  BY <1>2
<1>4. \A i, k \in K : i # k => \/ k \notin B[i] /\ B[i] \subseteq B[k]
                               \/ i \notin B[k] /\ B[k] \subseteq B[i]
  BY <1>2
<1>5. \A i \in K : Place(s, i) = Cardinality(B[i])
  BY DEF Place
<1>6. \A i, k \in K : k \in B[i] <=> (s[k] < s[i] \/ (s[k] = s[i] /\ k <= i))
  OBVIOUS
<1> HIDE DEF B
<1>7. /\ \A i, k \in K : i # k => Place(s, i) # Place(s, k)
      /\ \A i, k \in K : Place(s, i) <= Place(s, k) => i \in B[k]
      /\ \A n \in K : \E k \in K : Place(s, k) = n
      /\ \A k \in K : Place(s, k) \in K
  <2>1. /\ \A i, k \in K : i # k => Cardinality(B[i]) # Cardinality(B[k])
        /\ \A i, k \in K : Cardinality(B[i]) <= Cardinality(B[k]) => i \in B[k]
        /\ \A n \in 1 .. Cardinality(K) : \E k \in K : Cardinality(B[k]) = n
        /\ \A k \in K : Cardinality(B[k]) \in 1 .. Cardinality(K)
    BY <1>1, <1>3, <1>4, PlacesOfAnOrder
  <2>2. 1 .. Cardinality(K) = K
    BY <1>1
  <2> HIDE DEF K
  <2> QED
    BY <1>5, <2>1, <2>2
<1>8. \A n \in K : at(n) \in K /\ Place(s, at(n)) = n
  BY <1>7
<1>9. Ascending(s) = [n \in K |-> s[at(n)]]
  BY DEF Ascending
<1> HIDE DEF at
<1>10. Ascending(s) \in Seq(Int) /\ Len(Ascending(s)) = Len(s)
  <2>1. Ascending(s) \in [1 .. Len(s) -> Int]
    BY <1>1, <1>2, <1>8, <1>9
  <2> QED
    BY <1>1, <2>1
<1>11. Ordered(Ascending(s))
  <2> SUFFICES ASSUME NEW n \in K, NEW m \in K, n <= m PROVE s[at(n)] <= s[at(m)]
    BY <1>9 DEF Ordered
  <2>1. at(n) \in B[at(m)]
    BY <1>7, <1>8
  <2> QED
    BY <1>2, <1>6, <1>8, <2>1
<1>12. Distinct(s) => Distinct(Ascending(s))
  <2> SUFFICES ASSUME Distinct(s), NEW n \in K, NEW m \in K, n # m PROVE s[at(n)] # s[at(m)]
    BY <1>9 DEF Distinct
  <2>1. at(n) # at(m)
    BY <1>8
  <2> QED
    BY <1>8, <2>1 DEF Distinct
<1>13. ToSet(Ascending(s)) = ToSet(s)
  <2>1. ASSUME NEW i \in K PROVE \E n \in K : at(n) = i
    BY <1>7, <1>8, <2>1
  <2> QED
    BY <1>8, <1>9, <2>1 DEF ToSet
<1> QED
  BY <1>10, <1>11, <1>12, <1>13

(* What is picked at some of the indices is in the order it was in.          *)
LEMMA PickedKeepsOrder ==
    ASSUME NEW s \in Seq(Int), NEW K \in SUBSET (DOMAIN s)
    PROVE  /\ Picked(s, K) \in Seq(Int) /\ Len(Picked(s, K)) = Cardinality(K)
           /\ Len(Picked(s, K)) <= Len(s)
           /\ \A n \in 1 .. Cardinality(K) : Nth(K, n) \in K /\ Picked(s, K)[n] = s[Nth(K, n)]
           /\ \A n, m \in 1 .. Cardinality(K) : n < m => Nth(K, n) < Nth(K, m)
           /\ \A k \in K : \E n \in 1 .. Cardinality(K) : Nth(K, n) = k
<1> DEFINE B == [i \in K |-> { j \in K : j <= i }]
           N == Cardinality(K)
<1>1. /\ DOMAIN s = 1 .. Len(s) /\ Len(s) \in Nat /\ IsFiniteSet(DOMAIN s)
      /\ Cardinality(DOMAIN s) = Len(s)
  BY Indices
<1>2. IsFiniteSet(K) /\ N <= Len(s) /\ N \in Nat
  BY <1>1, FS_Subset, FS_CardinalityType
<1>3. \A i \in K : i \in Int /\ s[i] \in Int
  BY Indices
<1>4. B \in [K -> SUBSET K] /\ \A k \in K : k \in B[k]
  BY <1>3
<1>5. \A i, k \in K : i # k => \/ k \notin B[i] /\ B[i] \subseteq B[k]
                               \/ i \notin B[k] /\ B[k] \subseteq B[i]
  BY <1>3
<1>6. \A i, k \in K : k \in B[i] <=> k <= i
  OBVIOUS
<1>7. \A n : Nth(K, n) = CHOOSE k \in K : Cardinality(B[k]) = n
  BY DEF Nth
<1> HIDE DEF B
<1>8. /\ \A i, k \in K : Cardinality(B[i]) <= Cardinality(B[k]) => i \in B[k]
      /\ \A i, k \in K : i # k => Cardinality(B[i]) # Cardinality(B[k])
      /\ \A n \in 1 .. N : \E k \in K : Cardinality(B[k]) = n
      /\ \A k \in K : Cardinality(B[k]) \in 1 .. N
  BY <1>2, <1>4, <1>5, PlacesOfAnOrder
<1>9. \A n \in 1 .. N : Nth(K, n) \in K /\ Cardinality(B[Nth(K, n)]) = n
  BY <1>7, <1>8
<1>10. Picked(s, K) = [n \in 1 .. N |-> s[Nth(K, n)]]
  BY DEF Picked
<1>11. Picked(s, K) \in [1 .. N -> Int]
  BY <1>3, <1>9, <1>10
<1>12. Picked(s, K) \in Seq(Int) /\ Len(Picked(s, K)) = N
  BY <1>2, <1>11
<1>13. ASSUME NEW n \in 1 .. N, NEW m \in 1 .. N, n < m PROVE Nth(K, n) < Nth(K, m)
  <2>1. Nth(K, n) \in B[Nth(K, m)] /\ Nth(K, n) # Nth(K, m)
    BY <1>2, <1>8, <1>9, <1>13
  <2> QED
    BY <1>3, <1>6, <1>9, <2>1
<1>14. ASSUME NEW k \in K PROVE \E n \in 1 .. N : Nth(K, n) = k
  BY <1>8, <1>9, <1>14
<1> QED
  BY <1>2, <1>9, <1>10, <1>12, <1>13, <1>14

-----------------------------------------------------------------------------
(***************************************************************************)
(* What the operations make of one array: it has room for what is in it,   *)
(* its flag says the truth, and its buffer is the old one or the new one.  *)
(***************************************************************************)
ArrayType == [p : Nat, max : Nat \ {0}, items : Seq(Int), sorted : BOOLEAN]

Sound(a) == a \in ArrayType /\ sz(a) <= a.max /\ (a.sorted => Ordered(a.items))

Becomes(a, b) == Sound(b) /\ b.p \in {a.p, NewBuffer}

LEMMA Fields ==
    ASSUME NEW a \in ArrayType
    PROVE  /\ a.p \in Nat /\ a.max \in Nat /\ a.max > 0 /\ a.items \in Seq(Int)
           /\ a.sorted \in BOOLEAN /\ sz(a) = Len(a.items) /\ sz(a) \in Nat
BY DEF ArrayType, sz

LEMMA OrderedTrivially ==
    /\ <<>> \in Seq(Int) /\ Len(<<>>) = 0 /\ Ordered(<<>>) /\ Distinct(<<>>)
    /\ \A x \in Int : <<x>> \in Seq(Int) /\ Len(<<x>>) = 1 /\ Ordered(<<x>>) /\ Distinct(<<x>>)
BY DEF Ordered, Distinct

LEMMA WithRoomHasRoom ==
    ASSUME NEW a \in ArrayType, NewBuffer \in Nat, NEW size \in Nat, NEW capacity \in Nat,
           size > a.max => capacity >= size
    PROVE  LET b == WithRoom(a, size, capacity)
           IN  /\ b \in ArrayType /\ size <= b.max /\ b.p \in {a.p, NewBuffer}
               /\ b.items = a.items /\ b.sorted = a.sorted
<1>1. CASE size <= a.max
  BY <1>1, Fields DEF WithRoom
<1>2. CASE ~ (size <= a.max)
  <2>1. capacity \in Nat \ {0} /\ size <= capacity
    BY <1>2, Fields
  <2> QED
    BY <1>2, <2>1 DEF WithRoom, ArrayType
<1> QED
  BY <1>1, <1>2

(* Other items, in a buffer with room for them.                              *)
LEMMA NewContents ==
    ASSUME NEW a, NEW c \in ArrayType, c.p \in {a.p, NewBuffer},
           Len(c.items) <= c.max, c.sorted => Ordered(c.items)
    PROVE  Becomes(a, c)
BY DEF Becomes, Sound, sz

LEMMA Unchanged ==
    ASSUME NEW a, Sound(a)
    PROVE  Becomes(a, a)
BY DEF Becomes

(* += of an item.                                                            *)
LEMMA WithItemIsSound ==
    ASSUME NEW a, Sound(a), NewBuffer \in Nat, NEW x \in Int
    PROVE  /\ Becomes(a, WithItem(a, x))
           /\ WithItem(a, x).items = Append(a.items, x)
<1> DEFINE b == WithRoom(a, sz(a) + 1, 2 * a.max)
           s == Append(a.items, x)
           flag == a.sorted /\ (a.items # <<>> => a.items[sz(a)] <= x)
<1>1. a \in ArrayType /\ sz(a) <= a.max /\ (a.sorted => Ordered(a.items))
  BY DEF Sound
<1>2. /\ a.max \in Nat /\ a.max > 0 /\ sz(a) \in Nat /\ a.items \in Seq(Int)
      /\ a.sorted \in BOOLEAN /\ sz(a) = Len(a.items)
  BY <1>1, Fields
<1>3. sz(a) + 1 \in Nat /\ 2 * a.max \in Nat /\ 2 * a.max >= sz(a) + 1
  BY <1>1, <1>2
<1>4. b \in ArrayType /\ sz(a) + 1 <= b.max /\ b.p \in {a.p, NewBuffer}
  BY <1>1, <1>3, WithRoomHasRoom
<1>5. /\ s \in Seq(Int) /\ Len(s) = sz(a) + 1 /\ DOMAIN s = 1 .. sz(a) + 1
      /\ \A i \in 1 .. sz(a) : s[i] = a.items[i] /\ a.items[i] \in Int
      /\ s[sz(a) + 1] = x
  BY <1>2
<1>6. ASSUME flag PROVE Ordered(s)
  <2> SUFFICES ASSUME NEW i \in 1 .. sz(a) + 1, NEW j \in 1 .. sz(a) + 1, i <= j
               PROVE  s[i] <= s[j]
    BY <1>5 DEF Ordered
  <2>1. CASE j <= sz(a)
    BY <1>1, <1>2, <1>5, <1>6, <2>1 DEF Ordered
  <2>2. CASE i = sz(a) + 1
    BY <1>2, <1>5, <2>2
  <2>3. CASE i <= sz(a) /\ j = sz(a) + 1
    <3>1. a.items # <<>>
      BY <1>2, <2>3
    <3>2. a.items[i] <= a.items[sz(a)]
      BY <1>1, <1>2, <1>6, <2>3 DEF Ordered
    <3> QED
      BY <1>2, <1>5, <1>6, <2>3, <3>1, <3>2
  <2> QED
    BY <1>2, <2>1, <2>2, <2>3
<1>7. flag \in BOOLEAN
  BY <1>2
<1>8. WithItem(a, x) = [b EXCEPT !.items = s, !.sorted = flag]
  BY DEF WithItem
<1> HIDE DEF b, s, flag
<1> DEFINE c == WithItem(a, x)
<1> HIDE DEF c
<1>9. c = [b EXCEPT !.items = s, !.sorted = flag]
  BY <1>8 DEF c
<1>10. c \in ArrayType /\ c.items = s /\ c.sorted = flag /\ c.max = b.max /\ c.p = b.p
  BY <1>4, <1>5, <1>7, <1>9 DEF ArrayType
<1>11. Becomes(a, c) /\ c.items = s
  BY <1>4, <1>5, <1>6, <1>10, NewContents
<1> QED
  BY <1>11 DEF s, c

LEMMA JointIsEnough ==
    ASSUME NEW n \in Nat, NEW m \in Nat
    PROVE  Joint(n, m) \in Nat /\ (n + m > 1 => Joint(n, m) >= n + m)
BY DEF Joint

(* The items of two arrays in one.                                           *)
LEMMA RoomForBoth ==
    ASSUME NEW a, Sound(a), NEW b, Sound(b), NewBuffer \in Nat
    PROVE  LET c == WithRoom(a, sz(a) + sz(b), Joint(sz(a), sz(b)))
           IN  /\ c \in ArrayType /\ c.p \in {a.p, NewBuffer} /\ c.sorted = a.sorted
               /\ a.items \o b.items \in Seq(Int) /\ Len(a.items \o b.items) <= c.max
<1> DEFINE n == sz(a) + sz(b)
<1>1. a \in ArrayType /\ b \in ArrayType
  BY DEF Sound
<1>2. /\ a.max \in Nat /\ a.max > 0 /\ sz(a) \in Nat /\ sz(b) \in Nat
      /\ a.items \in Seq(Int) /\ b.items \in Seq(Int)
      /\ sz(a) = Len(a.items) /\ sz(b) = Len(b.items)
  BY <1>1, Fields
<1>3. n > a.max => n > 1
  <2> DEFINE k == a.max
             i == sz(a)
             j == sz(b)
  <2>1. k \in Nat /\ k > 0 /\ i \in Nat /\ j \in Nat
    BY <1>2
  <2> HIDE DEF k, i, j
  <2>2. i + j > k => i + j > 1
    BY <2>1
  <2> QED
    BY <2>2 DEF i, j, k
<1>4. n \in Nat /\ Joint(sz(a), sz(b)) \in Nat /\ (n > 1 => Joint(sz(a), sz(b)) >= n)
  <2> DEFINE i == sz(a)
             j == sz(b)
  <2>1. i \in Nat /\ j \in Nat
    BY <1>2
  <2> HIDE DEF i, j
  <2>2. i + j \in Nat /\ Joint(i, j) \in Nat /\ (i + j > 1 => Joint(i, j) >= i + j)
    BY <2>1, JointIsEnough
  <2> QED
    BY <2>2 DEF i, j
<1>5. a.items \o b.items \in Seq(Int) /\ Len(a.items \o b.items) = n
  BY <1>2, ConcatProperties
<1> QED
  <2> DEFINE k == Joint(sz(a), sz(b))
  <2>1. n \in Nat /\ k \in Nat /\ (n > a.max => k >= n)
    BY <1>3, <1>4
  <2> HIDE DEF n, k
  <2>2. LET c == WithRoom(a, n, k)
        IN  c \in ArrayType /\ n <= c.max /\ c.p \in {a.p, NewBuffer} /\ c.sorted = a.sorted
    BY <1>1, <2>1, WithRoomHasRoom
  <2> QED
    BY <1>5, <2>2 DEF n, k

LEMMA WithArrayIsSound ==
    ASSUME NEW a, Sound(a), NEW b, Sound(b), NewBuffer \in Nat
    PROVE  /\ Becomes(a, WithArray(a, b))
           /\ WithArray(a, b).items = a.items \o b.items
<1> DEFINE c == WithRoom(a, sz(a) + sz(b), Joint(sz(a), sz(b)))
           s == a.items \o b.items
           d == WithArray(a, b)
<1>1. c \in ArrayType /\ c.p \in {a.p, NewBuffer} /\ s \in Seq(Int) /\ Len(s) <= c.max
  BY RoomForBoth
<1>2. d = [c EXCEPT !.items = s, !.sorted = FALSE]
  BY DEF WithArray
<1> HIDE DEF c, s, d
<1>3. d \in ArrayType /\ d.items = s /\ d.sorted = FALSE /\ d.max = c.max /\ d.p = c.p
  BY <1>1, <1>2 DEF ArrayType
<1>4. Becomes(a, d) /\ d.items = s
  BY <1>1, <1>3, NewContents
<1> QED
  BY <1>4 DEF s, d

LEMMA MergedIsSound ==
    ASSUME NEW a, Sound(a), NEW b, Sound(b), NewBuffer \in Nat
    PROVE  Becomes(a, MergedArrays(a, b))
<1> DEFINE c == WithRoom(a, sz(a) + sz(b), Joint(sz(a), sz(b)))
           s == Ascending(a.items \o b.items)
<1>1. /\ c \in ArrayType /\ c.p \in {a.p, NewBuffer}
      /\ a.items \o b.items \in Seq(Int) /\ Len(a.items \o b.items) <= c.max
  BY RoomForBoth
<1>2. s \in Seq(Int) /\ Len(s) <= c.max /\ Ordered(s)
  BY <1>1, AscendingIsOrdered
<1> DEFINE d == MergedArrays(a, b)
<1>3. d = [c EXCEPT !.items = s]
  BY DEF MergedArrays
<1> HIDE DEF c, s, d
<1>4. d \in ArrayType /\ d.items = s /\ d.max = c.max /\ d.p = c.p
  BY <1>1, <1>2, <1>3 DEF ArrayType
<1>5. Becomes(a, d)
  BY <1>1, <1>2, <1>4, NewContents
<1> QED
  BY <1>5 DEF d

LEMMA SortedIsSound ==
    ASSUME NEW a, Sound(a)
    PROVE  /\ Becomes(a, SortedArray(a)) /\ SortedArray(a).sorted /\ SortedArray(a).p = a.p
           /\ sz(SortedArray(a)) = sz(a)
           /\ Distinct(a.items) => Distinct(SortedArray(a).items)
<1>1. a \in ArrayType /\ sz(a) <= a.max /\ a.items \in Seq(Int) /\ sz(a) = Len(a.items)
  BY Fields DEF Sound
<1>2. CASE a.sorted
  BY <1>2, Unchanged DEF SortedArray
<1>3. CASE ~ a.sorted
  <2> DEFINE s == Ascending(a.items)
  <2>1. s \in Seq(Int) /\ Len(s) = sz(a) /\ Ordered(s) /\ (Distinct(a.items) => Distinct(s))
    BY <1>1, AscendingIsOrdered
  <2> DEFINE d == SortedArray(a)
  <2>2. d = [a EXCEPT !.items = s, !.sorted = TRUE]
    BY <1>3 DEF SortedArray
  <2> HIDE DEF s, d
  <2>3. d \in ArrayType /\ d.items = s /\ d.sorted = TRUE /\ d.max = a.max /\ d.p = a.p
    BY <1>1, <2>1, <2>2 DEF ArrayType
  <2>4. Becomes(a, d) /\ sz(d) = sz(a)
    BY <1>1, <2>1, <2>3, NewContents DEF sz
  <2> QED
    BY <2>1, <2>3, <2>4 DEF d
<1> QED
  BY <1>2, <1>3

-----------------------------------------------------------------------------
(* Searching.                                                                *)
(* The linear search, the binary one, and member(), which chooses.           *)
LEMMA LinearFinds ==
    ASSUME NEW a \in ArrayType, NEW x
    PROVE  /\ Linear(a, x) \in 0 .. sz(a)
           /\ Linear(a, x) > 0 => a.items[Linear(a, x)] = x
           /\ Linear(a, x) > 0 <=> \E i \in 1 .. sz(a) : a.items[i] = x
<1> DEFINE at == { i \in 1 .. sz(a) : a.items[i] = x }
<1>1. sz(a) \in Nat
  BY Fields
<1>2. CASE at = {}
  <2>1. Linear(a, x) = 0
    BY <1>2 DEF Linear
  <2> QED
    BY <1>1, <1>2, <2>1
<1>3. CASE at # {}
  <2>1. at \in SUBSET Nat
    BY <1>1
  <2>2. \E i \in at : \A j \in at : i <= j
    BY <1>3, <2>1, LeastOfNaturals
  <2>3. Linear(a, x) = CHOOSE i \in at : \A j \in at : i <= j
    BY <1>3 DEF Linear
  <2>4. Linear(a, x) \in at
    BY <2>2, <2>3
  <2> QED
    BY <1>1, <2>4
<1> QED
  BY <1>2, <1>3

(* The recursion of a binary search is well defined.                         *)
Probe(a, x, f, span) ==
    LET left  == span[1]
        right == span[2]
        probe == (left + right) \div 2
    IN  IF a.items[probe + 1] = x THEN probe + 1
        ELSE IF probe = left
             THEN IF probe + 1 < sz(a) /\ a.items[probe + 1 + 1] = x THEN probe + 2 ELSE 0
             ELSE f[IF a.items[probe + 1] < x THEN <<probe, right>> ELSE <<left, probe>>]

LEMMA SpansShrink ==
    ASSUME NEW a \in ArrayType, NEW span \in Spans(a)
    PROVE  LET left  == span[1]
               right == span[2]
               probe == (left + right) \div 2
           IN  /\ span = <<left, right>> /\ left \in Nat /\ right \in 0 .. sz(a) /\ left < right
               /\ probe \in Nat /\ left <= probe /\ probe < right
               /\ probe = left => right = left + 1
               /\ probe # left => <<probe, right>> \in Spans(a) /\ <<left, probe>> \in Spans(a)
<1> DEFINE left  == span[1]
           right == span[2]
           probe == (left + right) \div 2
<1>1. sz(a) \in Nat
  BY Fields
<1>2. span = <<left, right>> /\ left \in 0 .. sz(a) /\ right \in 0 .. sz(a) /\ left < right
  BY DEF Spans
<1> HIDE DEF left, right
<1>3. probe \in Nat /\ left <= probe /\ probe < right /\ (probe = left => right = left + 1)
  BY <1>1, <1>2
<1> HIDE DEF probe
<1>4. probe # left => left < probe
  BY <1>1, <1>2, <1>3
<1>5. probe # left => <<probe, right>> \in Spans(a) /\ <<left, probe>> \in Spans(a)
  BY <1>1, <1>2, <1>3, <1>4 DEF Spans
<1> QED
  BY <1>1, <1>2, <1>3, <1>5 DEF left, right, probe

LEMMA SearchExists ==
    ASSUME NEW a \in ArrayType, NEW x
    PROVE  \E f : f = [span \in Spans(a) |-> Probe(a, x, f, span)]
<1> DEFINE Short(n) == { span \in Spans(a) : span[2] - span[1] <= n }
           Upto(n, f) == f = [span \in Short(n) |-> Probe(a, x, f, span)]
           T == { n \in Nat : ~ \E f : Upto(n, f) }
<1>1. sz(a) \in Nat
  BY Fields
<1>A. ASSUME NEW span \in Spans(a)
      PROVE  span[2] - span[1] \in Int /\ 1 <= span[2] - span[1] /\ span[2] - span[1] <= sz(a)
  <2>1. span[1] \in 0 .. sz(a) /\ span[2] \in 0 .. sz(a) /\ span[1] < span[2]
    BY DEF Spans
  <2> QED
    BY <1>1, <2>1
<1>5. \A n \in Nat : n \notin T => \E f : Upto(n, f)
  OBVIOUS
<1>2. T = {}
  <2> SUFFICES ASSUME T # {} PROVE FALSE
    OBVIOUS
  <2>1. PICK n \in T : \A m \in T : n <= m
    BY LeastOfNaturals
  <2>2. n \in Nat /\ ~ \E f : Upto(n, f)
    OBVIOUS
  <2>3. CASE n = 0
    <3>1. Short(0) = {}
      BY <1>A
    <3>2. Upto(0, [span \in {} |-> 0])
      BY <3>1
    <3> QED
      BY <2>2, <2>3, <3>2
  <2>4. CASE n > 0
    <3>1. n - 1 \in Nat /\ n - 1 \notin T
      <4>1. n - 1 \in Nat /\ ~ (n <= n - 1)
        BY <2>2, <2>4
      <4> HIDE DEF T
      <4> QED
        BY <2>1, <4>1
    <3>2. PICK g : Upto(n - 1, g)
      BY <1>5, <3>1
    <3> DEFINE f == [span \in Short(n) |-> Probe(a, x, g, span)]
    <3>3. \A span \in Short(n - 1) : span \in Short(n)
      BY <1>A, <2>2
    <3>4. \A span \in Short(n - 1) : f[span] = g[span]
      BY <3>2, <3>3
    <3> HIDE DEF f
    <3>5. ASSUME NEW span \in Short(n) PROVE Probe(a, x, f, span) = Probe(a, x, g, span)
      <4> DEFINE left  == span[1]
                 right == span[2]
                 probe == (left + right) \div 2
      <4>1. /\ left \in Nat /\ right \in 0 .. sz(a) /\ left < right
            /\ probe \in Nat /\ left <= probe /\ probe < right
            /\ probe # left => <<probe, right>> \in Spans(a) /\ <<left, probe>> \in Spans(a)
        BY SpansShrink
      <4>2. right - left <= n
        BY <3>5
      <4> HIDE DEF left, right, probe
      <4>3. probe # left => <<probe, right>> \in Short(n - 1) /\ <<left, probe>> \in Short(n - 1)
        BY <1>1, <2>2, <4>1, <4>2
      <4>4. probe # left => f[<<probe, right>>] = g[<<probe, right>>]
                            /\ f[<<left, probe>>] = g[<<left, probe>>]
        BY <3>4, <4>3
      <4> QED
        BY <4>4 DEF Probe, left, right, probe
    <3>6. Upto(n, f)
      BY <3>5 DEF f
    <3> QED
      BY <2>2, <3>6
  <2> QED
    BY <2>2, <2>3, <2>4
<1>3. PICK f : Upto(sz(a), f)
  BY <1>1, <1>2, <1>5
<1>4. Short(sz(a)) = Spans(a)
  BY <1>A
<1> QED
  BY <1>3, <1>4

LEMMA BinarySearch ==
    ASSUME NEW a \in ArrayType, NEW x
    PROVE  \E f : /\ f = [span \in Spans(a) |-> Probe(a, x, f, span)]
                  /\ Binary(a, x) = f[<<0, sz(a)>>]
<1> DEFINE F == CHOOSE f : f = [span \in Spans(a) |-> Probe(a, x, f, span)]
<1>1. F = [span \in Spans(a) |-> Probe(a, x, F, span)]
  <2>1. \E f : f = [span \in Spans(a) |-> Probe(a, x, f, span)]
    BY SearchExists
  <2> QED
    BY <2>1
<1>2. Binary(a, x) = F[<<0, sz(a)>>]
  BY DEF Binary, Probe
<1> QED
  BY <1>1, <1>2

LEMMA BinaryFinds ==
    ASSUME NEW a \in ArrayType, sz(a) > 0, NEW x \in Int
    PROVE  /\ Binary(a, x) \in 0 .. sz(a)
           /\ Binary(a, x) > 0 => a.items[Binary(a, x)] = x
           /\ Ordered(a.items) /\ (\E i \in 1 .. sz(a) : a.items[i] = x) => Binary(a, x) > 0
<1>1. PICK F : /\ F = [span \in Spans(a) |-> Probe(a, x, F, span)]
               /\ Binary(a, x) = F[<<0, sz(a)>>]
  BY BinarySearch
<1>2. /\ sz(a) \in Nat /\ DOMAIN a.items = 1 .. sz(a)
      /\ \A i \in 1 .. sz(a) : a.items[i] \in Int
  BY Fields
<1> DEFINE Here(i) == i \in 1 .. sz(a) /\ a.items[i] = x
           Between(span) == \E i \in span[1] + 1 .. span[2] + 1 : Here(i)
           Right(span) == /\ F[span] \in 0 .. sz(a)
                          /\ F[span] > 0 => a.items[F[span]] = x
                          /\ Ordered(a.items) /\ Between(span) => F[span] > 0
           T == { n \in Nat : \E span \in Spans(a) : span[2] - span[1] = n /\ ~ Right(span) }
<1>3. ASSUME NEW span \in Spans(a),
             \A other \in Spans(a) : other[2] - other[1] < span[2] - span[1] => Right(other)
      PROVE  Right(span)
  <2> DEFINE left  == span[1]
             right == span[2]
             probe == (left + right) \div 2
             next  == IF a.items[probe + 1] < x THEN <<probe, right>> ELSE <<left, probe>>
  <2>1. /\ left \in Nat /\ right \in 0 .. sz(a) /\ left < right
        /\ probe \in Nat /\ left <= probe /\ probe < right
        /\ probe = left => right = left + 1
        /\ probe # left => <<probe, right>> \in Spans(a) /\ <<left, probe>> \in Spans(a)
    BY SpansShrink
  <2>2. F[span] = IF a.items[probe + 1] = x THEN probe + 1
                  ELSE IF probe = left
                       THEN IF probe + 1 < sz(a) /\ a.items[probe + 1 + 1] = x THEN probe + 2 ELSE 0
                       ELSE F[next]
    BY <1>1 DEF Probe
  <2>3. Between(span) <=> \E i \in left + 1 .. right + 1 : Here(i)
    OBVIOUS
  <2>4. probe # left =>
            /\ <<probe, right>>[2] - <<probe, right>>[1] < right - left
            /\ <<left, probe>>[2] - <<left, probe>>[1] < right - left
    BY <1>2, <2>1
  <2>5. probe # left => Right(next)
    <3>1. next \in {<<probe, right>>, <<left, probe>>}
      OBVIOUS
    <3> HIDE DEF next, probe, Right
    <3> QED
      BY <1>3, <2>1, <2>4, <3>1
  <2>6. probe # left =>
            Between(next) <=> IF a.items[probe + 1] < x
                              THEN \E i \in probe + 1 .. right + 1 : Here(i)
                              ELSE \E i \in left + 1 .. probe + 1 : Here(i)
    OBVIOUS
  <2> HIDE DEF left, right, probe, Between, Here
  <2>7. probe + 1 \in 1 .. sz(a) /\ a.items[probe + 1] \in Int
    BY <1>2, <2>1
  <2>8. CASE a.items[probe + 1] = x
    BY <2>2, <2>7, <2>8
  <2>9. CASE a.items[probe + 1] # x /\ probe = left
    <3>1. ASSUME Between(span) PROVE probe + 1 < sz(a) /\ a.items[probe + 1 + 1] = x
      <4>1. PICK i \in left + 1 .. right + 1 : Here(i)
        BY <2>3, <3>1
      <4>2. i = probe + 1 \/ i = probe + 1 + 1
        BY <1>2, <2>1, <2>9
      <4> QED
        BY <1>2, <2>1, <2>9, <4>1, <4>2 DEF Here
    <3> QED
      BY <1>2, <2>1, <2>2, <2>9, <3>1
  <2>10. CASE a.items[probe + 1] # x /\ probe # left
    <3>1. F[span] = F[next]
      BY <2>2, <2>10
    <3>2. ASSUME Ordered(a.items), Between(span) PROVE Between(next)
      <4>1. PICK i \in left + 1 .. right + 1 : Here(i)
        BY <2>3, <3>2
      <4>2. i \in 1 .. sz(a) /\ a.items[i] = x
        BY <4>1 DEF Here
      <4>3. IF a.items[probe + 1] < x THEN i > probe + 1 ELSE i < probe + 1
        BY <1>2, <2>7, <2>10, <3>2, <4>2 DEF Ordered
      <4>4. IF a.items[probe + 1] < x THEN i \in probe + 1 .. right + 1
                                      ELSE i \in left + 1 .. probe + 1
        BY <2>1, <2>7, <4>2, <4>3
      <4> QED
        BY <2>6, <2>10, <4>1, <4>4
    <3> QED
      BY <2>5, <2>10, <3>1, <3>2
  <2> QED
    BY <2>8, <2>9, <2>10
<1>4. ASSUME NEW span \in Spans(a) PROVE span[2] - span[1] \in Nat
  BY <1>2 DEF Spans
<1>5. T = {}
  <2> SUFFICES ASSUME T # {} PROVE FALSE
    OBVIOUS
  <2>1. PICK n \in T : \A m \in T : n <= m
    BY LeastOfNaturals
  <2>2. PICK span \in Spans(a) : span[2] - span[1] = n /\ ~ Right(span)
    OBVIOUS
  <2>3. \A other \in Spans(a) : ~ Right(other) => other[2] - other[1] \in T
    BY <1>4
  <2>4. n \in Nat
    OBVIOUS
  <2> HIDE DEF T, Right
  <2>5. \A other \in Spans(a) : other[2] - other[1] < span[2] - span[1] => Right(other)
    BY <1>4, <2>1, <2>2, <2>3, <2>4
  <2> QED
    BY <1>3, <2>2, <2>5
<1>6. <<0, sz(a)>> \in Spans(a)
  BY <1>2 DEF Spans
<1>7. Right(<<0, sz(a)>>)
  BY <1>4, <1>5, <1>6
<1>8. (\E i \in 1 .. sz(a) : a.items[i] = x) => Between(<<0, sz(a)>>)
  BY <1>2
<1> HIDE DEF Between
<1> QED
  BY <1>1, <1>7, <1>8

(* Either search finds what is there and nothing else.                       *)
LEMMA MemberFinds ==
    ASSUME NEW a, Sound(a), NEW x \in Int
    PROVE  /\ member(a, x) \in 0 .. sz(a)
           /\ member(a, x) > 0 => a.items[member(a, x)] = x
           /\ member(a, x) > 0 <=> \E i \in 1 .. sz(a) : a.items[i] = x
<1>1. a \in ArrayType /\ sz(a) \in Nat /\ (a.sorted => Ordered(a.items))
  BY Fields DEF Sound
<1>2. CASE sz(a) = 0
  BY <1>2 DEF member
<1>3. CASE sz(a) # 0 /\ a.sorted
  <2>1. member(a, x) = Binary(a, x) /\ sz(a) > 0
    BY <1>1, <1>3 DEF member
  <2>2. /\ Binary(a, x) \in 0 .. sz(a)
        /\ Binary(a, x) > 0 => a.items[Binary(a, x)] = x
        /\ (\E i \in 1 .. sz(a) : a.items[i] = x) => Binary(a, x) > 0
    BY <1>1, <1>3, <2>1, BinaryFinds
  <2> QED
    BY <1>1, <2>1, <2>2
<1>4. CASE sz(a) # 0 /\ ~ a.sorted
  <2>1. member(a, x) = Linear(a, x)
    BY <1>4 DEF member
  <2> QED
    BY <1>1, <2>1, LinearFinds
<1> QED
  BY <1>2, <1>3, <1>4

-----------------------------------------------------------------------------
(* Removing.                                                                 *)
LEMMA RemoveAtShifts ==
    ASSUME NEW s \in Seq(Int), NEW i \in 1 .. Len(s)
    PROVE  /\ RemoveAt(s, i) \in Seq(Int) /\ Len(RemoveAt(s, i)) = Len(s) - 1
           /\ \A j \in 1 .. Len(s) - 1 : RemoveAt(s, i)[j] = s[IF j < i THEN j ELSE j + 1]
<1> DEFINE n == Len(s)
           u == SubSeq(s, 1, i - 1)
           v == SubSeq(s, i + 1, n)
<1>1. n \in Nat /\ i \in 1 .. n /\ \A j \in 1 .. n : s[j] \in Int
  BY Indices
<1>2. u \in Seq(Int) /\ Len(u) = i - 1 /\ \A j \in 1 .. i - 1 : u[j] = s[j]
  <2>1. 1 \in Int /\ i - 1 \in Int /\ \A j \in 1 .. i - 1 : s[j] \in Int
    BY <1>1
  <2>2. /\ u \in Seq(Int) /\ Len(u) = IF 1 <= i - 1 THEN i - 1 - 1 + 1 ELSE 0
        /\ \A j \in 1 .. i - 1 - 1 + 1 : u[j] = s[1 + j - 1]
    BY <2>1, SubSeqProperties
  <2> HIDE DEF u
  <2> QED
    BY <1>1, <2>2
<1>3. v \in Seq(Int) /\ Len(v) = n - i /\ \A j \in 1 .. n - i : v[j] = s[j + i]
  <2>1. i + 1 \in Int /\ n \in Int /\ \A j \in i + 1 .. n : s[j] \in Int
    BY <1>1
  <2>2. /\ v \in Seq(Int) /\ Len(v) = IF i + 1 <= n THEN n - (i + 1) + 1 ELSE 0
        /\ \A j \in 1 .. n - (i + 1) + 1 : v[j] = s[i + 1 + j - 1]
    BY <2>1, SubSeqProperties
  <2> HIDE DEF v, n
  <2>3. n - (i + 1) + 1 = n - i /\ (i + 1 <= n <=> n - i > 0) /\ n - i \in Nat
    BY <1>1
  <2>4. \A j \in Int : i + 1 + j - 1 = j + i
    BY <1>1
  <2>5. Len(v) = n - i
    BY <2>2, <2>3
  <2>6. ASSUME NEW j \in 1 .. n - i PROVE v[j] = s[j + i]
    <3>1. j \in 1 .. n - (i + 1) + 1
      BY <2>3
    <3>2. v[j] = s[i + 1 + j - 1]
      BY <2>2, <3>1
    <3>3. i + 1 + j - 1 = j + i
      BY <2>4
    <3> QED
      BY <3>2, <3>3
  <2> QED
    BY <2>2, <2>5, <2>6
<1>4. RemoveAt(s, i) = u \o v
  BY DEF RemoveAt
<1> HIDE DEF u, v, n
<1>5. /\ u \o v \in Seq(Int) /\ Len(u \o v) = (i - 1) + (n - i)
      /\ \A j \in 1 .. (i - 1) + (n - i) : (u \o v)[j] = IF j <= i - 1 THEN u[j] ELSE v[j - (i - 1)]
  <2>1. /\ u \o v \in Seq(Int) /\ Len(u \o v) = Len(u) + Len(v)
        /\ \A j \in 1 .. Len(u) + Len(v) : (u \o v)[j] = IF j <= Len(u) THEN u[j] ELSE v[j - Len(u)]
    BY <1>2, <1>3, ConcatProperties
  <2> QED
    BY <1>2, <1>3, <2>1
<1>6. (i - 1) + (n - i) = n - 1
  BY <1>1
<1>7. ASSUME NEW j \in 1 .. n - 1 PROVE (u \o v)[j] = s[IF j < i THEN j ELSE j + 1]
  <2>1. CASE j < i
    <3>1. j \in 1 .. i - 1 /\ j <= i - 1
      BY <1>1, <2>1
    <3> QED
      BY <1>2, <1>5, <1>6, <2>1, <3>1
  <2>2. CASE ~ (j < i)
    <3>1. ~ (j <= i - 1) /\ j - (i - 1) \in 1 .. n - i /\ (j - (i - 1)) + i = j + 1
      BY <1>1, <2>2
    <3> QED
      BY <1>3, <1>5, <1>6, <2>2, <3>1
  <2> QED
    BY <2>1, <2>2
<1> QED
  BY <1>4, <1>5, <1>6, <1>7 DEF n

LEMMA WithoutIsSound ==
    ASSUME NEW a, Sound(a), NEW i \in 1 .. sz(a)
    PROVE  /\ Becomes(a, Without(a, i))
           /\ Distinct(a.items) => Distinct(Without(a, i).items)
<1> DEFINE n == Len(a.items)
           s == RemoveAt(a.items, i)
           c == Without(a, i)
<1>1. /\ a \in ArrayType /\ a.items \in Seq(Int) /\ n <= a.max /\ (a.sorted => Ordered(a.items))
      /\ i \in 1 .. n
  BY Fields DEF Sound
<1>2. n \in Nat /\ DOMAIN a.items = 1 .. n /\ \A j \in 1 .. n : a.items[j] \in Int
  BY <1>1, Indices
<1>3. /\ s \in Seq(Int) /\ Len(s) = n - 1
      /\ \A j \in 1 .. n - 1 : s[j] = a.items[IF j < i THEN j ELSE j + 1]
  BY <1>1, RemoveAtShifts
<1>4. c = [a EXCEPT !.items = s]
  BY DEF Without
<1> HIDE DEF s, c, n
<1>5. DOMAIN s = 1 .. n - 1
  BY <1>3
<1> DEFINE from(j) == IF j < i THEN j ELSE j + 1
<1>6. /\ \A j \in 1 .. n - 1 : from(j) \in 1 .. n
      /\ \A j, k \in 1 .. n - 1 : /\ j <= k => from(j) <= from(k)
                                  /\ j # k => from(j) # from(k)
  BY <1>1, <1>2
<1>12. \A j \in 1 .. n - 1 : s[j] = a.items[from(j)]
  BY <1>3
<1> HIDE DEF from
<1>13. Ordered(a.items) => Ordered(s)
  BY <1>2, <1>5, <1>6, <1>12 DEF Ordered
<1>7. ASSUME Distinct(a.items) PROVE Distinct(s)
  <2>1. ASSUME NEW j \in 1 .. n - 1, NEW k \in 1 .. n - 1, j # k PROVE s[j] # s[k]
    <3>1. from(j) \in DOMAIN a.items /\ from(k) \in DOMAIN a.items /\ from(j) # from(k)
      BY <1>2, <1>6, <2>1
    <3>2. a.items[from(j)] # a.items[from(k)]
      BY <1>7, <3>1 DEF Distinct
    <3> QED
      BY <1>12, <3>2
  <2> QED
    BY <1>5, <2>1 DEF Distinct
<1>8. c \in ArrayType /\ c.items = s /\ c.sorted = a.sorted /\ c.max = a.max /\ c.p = a.p
  BY <1>1, <1>3, <1>4 DEF ArrayType
<1>9. a.max \in Nat
  BY <1>1 DEF ArrayType
<1>10. Len(s) <= a.max
  BY <1>1, <1>2, <1>3, <1>9
<1>11. Becomes(a, c)
  BY <1>1, <1>8, <1>10, <1>13, NewContents
<1> QED
  BY <1>7, <1>8, <1>11 DEF c

LEMMA SetWithItemIsSound ==
    ASSUME NEW a, Sound(a), NewBuffer \in Nat, NEW x \in Int
    PROVE  /\ Becomes(a, SetWithItem(a, x))
           /\ Distinct(a.items) => Distinct(SetWithItem(a, x).items)
<1>1. a \in ArrayType /\ a.items \in Seq(Int) /\ sz(a) = Len(a.items)
  BY Fields DEF Sound
<1>2. CASE Linear(a, x) > 0
  BY <1>2, Unchanged DEF SetWithItem
<1>3. CASE ~ (Linear(a, x) > 0)
  <2>1. SetWithItem(a, x) = WithItem(a, x)
    BY <1>3 DEF SetWithItem
  <2>2. Becomes(a, WithItem(a, x)) /\ WithItem(a, x).items = Append(a.items, x)
    BY WithItemIsSound
  <2>3. ~ \E i \in 1 .. sz(a) : a.items[i] = x
    BY <1>1, <1>3, LinearFinds
  <2>4. Distinct(a.items) => Distinct(Append(a.items, x))
    <3>1. /\ DOMAIN Append(a.items, x) = 1 .. Len(a.items) + 1 /\ DOMAIN a.items = 1 .. Len(a.items)
          /\ \A i \in 1 .. Len(a.items) : Append(a.items, x)[i] = a.items[i]
          /\ Append(a.items, x)[Len(a.items) + 1] = x
          /\ Len(a.items) \in Nat
      BY <1>1
    <3>2. \A i \in 1 .. Len(a.items) : a.items[i] # x
      BY <1>1, <2>3
    <3> QED
      BY <3>1, <3>2 DEF Distinct
  <2> QED
    BY <2>1, <2>2, <2>4
<1> QED
  BY <1>2, <1>3

LEMMA SetWithoutItemIsSound ==
    ASSUME NEW a, Sound(a), NEW x
    PROVE  /\ Becomes(a, SetWithoutItem(a, x))
           /\ Distinct(a.items) => Distinct(SetWithoutItem(a, x).items)
<1> DEFINE i == Linear(a, x)
           n == Len(a.items)
           s == Front([a.items EXCEPT ![i] = a.items[sz(a)]])
           c == SetWithoutItem(a, x)
<1>1. /\ a \in ArrayType /\ a.items \in Seq(Int) /\ n <= a.max /\ n = sz(a)
      /\ i \in 0 .. n
  BY Fields, LinearFinds DEF Sound
<1>2. n \in Nat /\ DOMAIN a.items = 1 .. n /\ \A j \in 1 .. n : a.items[j] \in Int
  BY <1>1, Indices
<1>3. CASE i = 0
  BY <1>3, Unchanged DEF SetWithoutItem
<1>4. CASE i # 0 /\ c = Without(a, i)
  <2>1. i \in 1 .. sz(a)
    BY <1>1, <1>4
  <2> QED
    BY <1>4, <2>1, WithoutIsSound
<1>5. CASE i # 0 /\ c = [a EXCEPT !.items = s, !.sorted = FALSE]
  <2> DEFINE t == [a.items EXCEPT ![i] = a.items[sz(a)]]
  <2>1. i \in 1 .. n
    BY <1>1, <1>2, <1>5
  <2>2. /\ t \in Seq(Int) /\ Len(t) = n
        /\ \A j \in 1 .. n : t[j] = a.items[IF j = i THEN n ELSE j]
    <3>1. t \in [1 .. n -> Int]
      BY <1>1, <1>2, <2>1
    <3>2. \A j \in 1 .. n : t[j] = a.items[IF j = i THEN n ELSE j]
      BY <1>1, <1>2, <2>1
    <3> HIDE DEF t
    <3> QED
      BY <1>2, <3>1, <3>2
  <2> HIDE DEF t
  <2>3. s \in Seq(Int) /\ Len(s) = n - 1 /\ \A j \in 1 .. n - 1 : s[j] = t[j]
    <3>1. s = SubSeq(t, 1, n - 1)
      BY <2>2 DEF Front, t
    <3>2. 1 \in Int /\ n - 1 \in Int /\ \A j \in 1 .. n - 1 : t[j] \in Int
      BY <1>2, <2>2
    <3> HIDE DEF s
    <3>3. /\ s \in Seq(Int) /\ Len(s) = IF 1 <= n - 1 THEN n - 1 - 1 + 1 ELSE 0
          /\ \A j \in 1 .. n - 1 - 1 + 1 : s[j] = t[1 + j - 1]
      BY <3>1, <3>2, SubSeqProperties
    <3> QED
      BY <1>2, <2>1, <3>3
  <2> HIDE DEF s
  <2>4. Distinct(a.items) => Distinct(s)
    <3>1. DOMAIN s = 1 .. n - 1
      BY <2>3
    <3>2. \A j \in 1 .. n - 1 : s[j] = a.items[IF j = i THEN n ELSE j]
      BY <1>2, <2>2, <2>3
    <3>3. /\ \A j \in 1 .. n - 1 : (IF j = i THEN n ELSE j) \in 1 .. n
          /\ \A j, k \in 1 .. n - 1 : j # k => (IF j = i THEN n ELSE j) # (IF k = i THEN n ELSE k)
      BY <1>2, <2>1
    <3> QED
      BY <1>2, <3>1, <3>2, <3>3 DEF Distinct
  <2> HIDE DEF c, i, n
  <2>5. c \in ArrayType /\ c.items = s /\ c.sorted = FALSE /\ c.max = a.max /\ c.p = a.p
    BY <1>1, <1>5, <2>3 DEF ArrayType
  <2>6. a.max \in Nat
    BY <1>1 DEF ArrayType
  <2>7. Len(s) <= a.max
    BY <1>1, <1>2, <2>3, <2>6
  <2>8. Becomes(a, c)
    BY <2>5, <2>7, NewContents
  <2> QED
    BY <2>4, <2>5, <2>8 DEF c
<1> QED
  BY <1>3, <1>4, <1>5 DEF SetWithoutItem

-----------------------------------------------------------------------------
(* One item after the other.                                                 *)
LEMMA AppliedIsSound ==
    ASSUME NEW a, Sound(a), NewBuffer \in Nat, NEW x \in Int,
           NEW operation \in {"append", "add", "remove"}
    PROVE  /\ Becomes(a, Applied(operation, a, x))
           /\ operation = "append" => Applied(operation, a, x).items = Append(a.items, x)
           /\ operation # "append" /\ Distinct(a.items) => Distinct(Applied(operation, a, x).items)
<1>1. CASE operation = "append"
  <2>1. Applied(operation, a, x) = WithItem(a, x)
    BY <1>1 DEF Applied
  <2> QED
    BY <1>1, <2>1, WithItemIsSound
<1>2. CASE operation = "add"
  <2>1. Applied(operation, a, x) = SetWithItem(a, x)
    BY <1>2 DEF Applied
  <2> QED
    BY <1>2, <2>1, SetWithItemIsSound
<1>3. CASE operation = "remove"
  <2>1. Applied(operation, a, x) = SetWithoutItem(a, x)
    BY <1>3 DEF Applied
  <2> QED
    BY <1>3, <2>1, SetWithoutItemIsSound
<1> QED
  BY <1>1, <1>2, <1>3

LEMMA TurnsExist ==
    ASSUME NEW operation, NEW a, NEW s \in Seq(Int)
    PROVE  \E f : /\ f = [i \in 0 .. Len(s) |->
                             IF i = 0 THEN a ELSE Applied(operation, f[i - 1], s[i])]
                  /\ InTurn(operation, a, s) = f[Len(s)]
<1> DEFINE Upto(n, f) == f = [i \in 0 .. n |-> IF i = 0 THEN a ELSE Applied(operation, f[i - 1], s[i])]
           T == { n \in Nat : ~ \E f : Upto(n, f) }
<1>1. Len(s) \in Nat
  OBVIOUS
<1>2. \A n \in Nat : n \notin T => \E f : Upto(n, f)
  OBVIOUS
<1>3. T = {}
  <2> SUFFICES ASSUME T # {} PROVE FALSE
    OBVIOUS
  <2>1. PICK n \in T : \A m \in T : n <= m
    BY LeastOfNaturals
  <2>2. n \in Nat /\ ~ \E f : Upto(n, f)
    OBVIOUS
  <2>3. CASE n = 0
    <3>1. Upto(0, [i \in 0 .. 0 |-> a])
      OBVIOUS
    <3> QED
      BY <2>2, <2>3, <3>1
  <2>4. CASE n > 0
    <3>1. n - 1 \in Nat /\ n - 1 \notin T
      <4>1. n - 1 \in Nat /\ ~ (n <= n - 1)
        BY <2>2, <2>4
      <4> HIDE DEF T
      <4> QED
        BY <2>1, <4>1
    <3>2. PICK g : Upto(n - 1, g)
      BY <1>2, <3>1
    <3> DEFINE f == [i \in 0 .. n |-> IF i = 0 THEN a ELSE Applied(operation, g[i - 1], s[i])]
    <3>3. \A i \in 0 .. n - 1 : f[i] = g[i]
      BY <2>2, <2>4, <3>2
    <3>4. \A i \in 1 .. n : i - 1 \in 0 .. n - 1
      BY <2>2
    <3> HIDE DEF f
    <3>5. ASSUME NEW i \in 0 .. n
          PROVE  (IF i = 0 THEN a ELSE Applied(operation, f[i - 1], s[i]))
               = (IF i = 0 THEN a ELSE Applied(operation, g[i - 1], s[i]))
      <4>1. CASE i = 0
        BY <4>1
      <4>2. CASE i # 0
        <5>1. f[i - 1] = g[i - 1]
          BY <2>2, <3>3, <3>4, <4>2
        <5> QED
          BY <5>1
      <4> QED
        BY <4>1, <4>2
    <3>6. Upto(n, f)
      BY <3>5 DEF f
    <3> QED
      BY <2>2, <3>6
  <2> QED
    BY <2>2, <2>3, <2>4
<1>4. \E f : Upto(Len(s), f)
  BY <1>1, <1>2, <1>3
<1> DEFINE F == CHOOSE f : Upto(Len(s), f)
<1>5. Upto(Len(s), F)
  BY <1>4
<1>6. InTurn(operation, a, s) = F[Len(s)]
  BY DEF InTurn
<1> QED
  BY <1>5, <1>6

LEMMA InTurnIsSound ==
    ASSUME NEW a, Sound(a), NewBuffer \in Nat, NEW s \in Seq(Int),
           NEW operation \in {"append", "add", "remove"}
    PROVE  /\ Becomes(a, InTurn(operation, a, s))
           /\ operation # "append" /\ Distinct(a.items) => Distinct(InTurn(operation, a, s).items)
           /\ operation = "append" /\ a.items = <<>> => InTurn(operation, a, s).items = s
<1>1. PICK f : /\ f = [i \in 0 .. Len(s) |->
                          IF i = 0 THEN a ELSE Applied(operation, f[i - 1], s[i])]
               /\ InTurn(operation, a, s) = f[Len(s)]
  BY TurnsExist
<1>2. Len(s) \in Nat /\ DOMAIN s = 1 .. Len(s) /\ \A i \in 1 .. Len(s) : s[i] \in Int
  BY Indices
<1> DEFINE Prefix(b, n) == b \in Seq(Int) /\ Len(b) = n /\ \A j \in 1 .. n : b[j] = s[j]
           Right(n) ==
               /\ Becomes(a, f[n])
               /\ operation # "append" /\ Distinct(a.items) => Distinct(f[n].items)
               /\ operation = "append" /\ a.items = <<>> => Prefix(f[n].items, n)
           T == { n \in Nat : n <= Len(s) /\ ~ Right(n) }
<1>3. Right(0)
  <2>1. f[0] = a
    BY <1>1, <1>2
  <2>2. a.items = <<>> => Prefix(a.items, 0)
    OBVIOUS
  <2> QED
    BY <2>1, <2>2, Unchanged
<1>4. ASSUME NEW n \in 1 .. Len(s), Right(n - 1) PROVE Right(n)
  <2> DEFINE b == f[n - 1]
             c == Applied(operation, b, s[n])
  <2>1. f[n] = c
    BY <1>1, <1>2
  <2>2. Sound(b) /\ b.p \in {a.p, NewBuffer}
    BY <1>4 DEF Becomes
  <2>3. s[n] \in Int
    BY <1>2
  <2> HIDE DEF b, Prefix
  <2>4. /\ Becomes(b, c)
        /\ operation = "append" => c.items = Append(b.items, s[n])
        /\ operation # "append" /\ Distinct(b.items) => Distinct(c.items)
    BY <2>2, <2>3, AppliedIsSound
  <2> HIDE DEF c
  <2>5. Becomes(a, c)
    BY <2>2, <2>4 DEF Becomes
  <2>6. operation = "append" /\ a.items = <<>> => Prefix(c.items, n)
    <3>1. SUFFICES ASSUME Prefix(b.items, n - 1), c.items = Append(b.items, s[n])
                   PROVE  Prefix(c.items, n)
      BY <1>4, <2>4 DEF b
    <3> DEFINE t == b.items
    <3>2. t \in Seq(Int) /\ Len(t) = n - 1 /\ \A j \in 1 .. n - 1 : t[j] = s[j]
      BY <3>1 DEF Prefix
    <3> HIDE DEF t
    <3>3. Append(t, s[n]) \in Seq(Int) /\ Len(Append(t, s[n])) = n
          /\ \A j \in 1 .. n : Append(t, s[n])[j] = s[j]
      BY <1>2, <2>3, <3>2
    <3> QED
      BY <3>1, <3>3 DEF Prefix, t
  <2>7. operation # "append" /\ Distinct(a.items) => Distinct(c.items)
    BY <1>4, <2>4 DEF b
  <2> QED
    BY <2>1, <2>5, <2>6, <2>7
<1>5. T = {}
  <2> SUFFICES ASSUME T # {} PROVE FALSE
    OBVIOUS
  <2>1. PICK n \in T : \A m \in T : n <= m
    BY LeastOfNaturals
  <2>2. n \in Nat /\ n <= Len(s) /\ ~ Right(n)
    OBVIOUS
  <2>3. n # 0
    BY <1>3, <2>2
  <2>4. n \in 1 .. Len(s) /\ n - 1 \in Nat /\ n - 1 <= Len(s) /\ ~ (n <= n - 1)
    BY <1>2, <2>2, <2>3
  <2>5. Right(n - 1)
    <3>1. n - 1 \notin T
      <4> HIDE DEF T
      <4> QED
        BY <2>1, <2>4
    <3> HIDE DEF Right
    <3> QED
      BY <2>4, <3>1
  <2> QED
    BY <1>4, <2>2, <2>4, <2>5
<1>6. Right(Len(s))
  <2> HIDE DEF Right
  <2> QED
    BY <1>2, <1>5
<1>7. \A b : Prefix(b, Len(s)) => b = s
  BY SeqEqual
<1> HIDE DEF Prefix
<1> QED
  BY <1>1, <1>6, <1>7

LEMMA UniqueIsSound ==
    ASSUME NEW a, Sound(a)
    PROVE  /\ Becomes(a, Unique(a)) /\ Unique(a).p = a.p
           /\ Ordered(Unique(a).items) /\ Distinct(Unique(a).items)
<1>1. a \in ArrayType /\ a.items \in Seq(Int) /\ sz(a) = Len(a.items) /\ sz(a) \in Nat
  BY Fields DEF Sound
<1>2. CASE sz(a) < 2
  <2>1. Unique(a) = a
    BY <1>2 DEF Unique
  <2>2. Ordered(a.items) /\ Distinct(a.items)
    <3>1. \A i, j \in DOMAIN a.items : i = j /\ a.items[i] \in Int
      BY <1>1, <1>2, Indices
    <3> QED
      BY <3>1 DEF Ordered, Distinct
  <2> QED
    BY <2>1, <2>2, Unchanged
<1>3. CASE ~ (sz(a) < 2)
  <2> DEFINE b == SortedArray(a)
             s == b.items
             n == sz(a)
             K == { i \in 1 .. n : i = 1 \/ s[i] # s[i - 1] }
             t == Picked(s, K)
             c == Unique(a)
  <2>1. c = [b EXCEPT !.items = t]
    BY <1>3 DEF Unique
  <2>2. Becomes(a, b) /\ b.sorted /\ b.p = a.p /\ sz(b) = n
    BY SortedIsSound
  <2>3. /\ b \in ArrayType /\ Len(s) = n /\ n <= b.max /\ Ordered(s) /\ s \in Seq(Int)
        /\ b.max \in Nat
    BY <2>2, Fields DEF Becomes, Sound, sz
  <2> HIDE DEF b, s, n
  <2>4. DOMAIN s = 1 .. n /\ n \in Nat /\ \A i \in 1 .. n : s[i] \in Int
    BY <2>3, Indices
  <2>5. K \in SUBSET (DOMAIN s)
    BY <2>4
  <2>6. \A i, k \in K : i < k => s[i] < s[k]
    <3> SUFFICES ASSUME NEW i \in K, NEW k \in K, i < k PROVE s[i] < s[k]
      OBVIOUS
    <3>1. i \in 1 .. n /\ k \in 1 .. n /\ k - 1 \in 1 .. n /\ i <= k - 1 /\ k - 1 <= k
      BY <2>4
    <3>2. s[k] # s[k - 1]
      BY <2>4
    <3>3. s[i] <= s[k - 1] /\ s[k - 1] <= s[k]
      BY <2>3, <2>4, <3>1 DEF Ordered
    <3> QED
      BY <2>4, <3>1, <3>2, <3>3
  <2> HIDE DEF K
  <2>7. /\ t \in Seq(Int) /\ Len(t) <= Len(s) /\ DOMAIN t = 1 .. Len(t) /\ Len(t) \in Nat
        /\ \A i \in 1 .. Len(t) : Nth(K, i) \in K /\ t[i] = s[Nth(K, i)]
        /\ \A i, j \in 1 .. Len(t) : i < j => Nth(K, i) < Nth(K, j)
    BY <2>3, <2>5, PickedKeepsOrder
  <2> HIDE DEF t
  <2>8. \A i, j \in DOMAIN t : i < j => t[i] < t[j]
    BY <2>6, <2>7
  <2>9. \A i \in DOMAIN t : i \in Int /\ t[i] \in Int
    BY <2>7
  <2>10. Ordered(t) /\ Distinct(t)
    BY <2>8, <2>9 DEF Ordered, Distinct
  <2> HIDE DEF c
  <2>11. c \in ArrayType /\ c.items = t /\ c.max = b.max /\ c.p = b.p
    BY <2>1, <2>3, <2>7 DEF ArrayType
  <2>12. Len(t) <= b.max
    BY <2>3, <2>4, <2>7
  <2>13. Becomes(a, c)
    BY <2>2, <2>10, <2>11, <2>12, NewContents
  <2> QED
    BY <2>2, <2>10, <2>11, <2>13 DEF c
<1> QED
  BY <1>2, <1>3

LEMMA AssignedIsSound ==
    ASSUME NEW a \in ArrayType, NEW b, Sound(b), NewBuffer \in Nat
    PROVE  /\ Becomes(a, Assigned(a, b)) /\ Assigned(a, b).items = b.items
<1> DEFINE r == WithRoom(a, sz(b), sz(b))
           c == Assigned(a, b)
<1>1. /\ b \in ArrayType /\ b.items \in Seq(Int) /\ sz(b) = Len(b.items) /\ sz(b) \in Nat
      /\ b.sorted \in BOOLEAN /\ (b.sorted => Ordered(b.items))
  BY Fields DEF Sound
<1>2. r \in ArrayType /\ sz(b) <= r.max /\ r.p \in {a.p, NewBuffer}
  <2> DEFINE n == sz(b)
  <2>1. n \in Nat /\ (n > a.max => n >= n)
    BY <1>1
  <2> HIDE DEF n
  <2> QED
    BY <2>1, WithRoomHasRoom DEF n
<1>3. c = [r EXCEPT !.items = b.items, !.sorted = b.sorted]
  BY DEF Assigned
<1> HIDE DEF r, c
<1>4. c \in ArrayType /\ c.items = b.items /\ c.sorted = b.sorted /\ c.max = r.max /\ c.p = r.p
  BY <1>1, <1>2, <1>3 DEF ArrayType
<1>5. Becomes(a, c)
  BY <1>1, <1>2, <1>4, NewContents
<1> QED
  BY <1>4, <1>5 DEF c

LEMMA DisjointJoined ==
    ASSUME NEW s \in Seq(Int), NEW t \in Seq(Int), Distinct(s), Distinct(t),
           ToSet(s) \cap ToSet(t) = {}
    PROVE  Distinct(s \o t)
<1> DEFINE k == Len(s)
           l == Len(t)
<1>1. k \in Nat /\ l \in Nat /\ DOMAIN s = 1 .. k /\ DOMAIN t = 1 .. l
  OBVIOUS
<1>2. /\ DOMAIN (s \o t) = 1 .. k + l
      /\ \A i \in 1 .. k + l : (s \o t)[i] = IF i <= k THEN s[i] ELSE t[i - k]
  OBVIOUS
<1>3. \A i \in 1 .. k, j \in 1 .. l : s[i] # t[j]
  BY <1>1 DEF ToSet
<1> HIDE DEF k, l
<1> SUFFICES ASSUME NEW i \in 1 .. k + l, NEW j \in 1 .. k + l, i # j
             PROVE  (s \o t)[i] # (s \o t)[j]
  BY <1>2 DEF Distinct
<1>4. CASE i <= k /\ j <= k
  <2>1. i \in 1 .. k /\ j \in 1 .. k
    BY <1>1, <1>4
  <2> QED
    BY <1>1, <1>2, <1>4, <2>1 DEF Distinct
<1>5. CASE i <= k /\ ~ (j <= k)
  <2>1. j - k \in 1 .. l /\ i \in 1 .. k
    BY <1>1, <1>5
  <2> QED
    BY <1>2, <1>3, <1>5, <2>1
<1>6. CASE ~ (i <= k) /\ j <= k
  <2>1. i - k \in 1 .. l /\ j \in 1 .. k
    BY <1>1, <1>6
  <2> QED
    BY <1>2, <1>3, <1>6, <2>1
<1>7. CASE ~ (i <= k) /\ ~ (j <= k)
  <2>1. i - k \in 1 .. l /\ j - k \in 1 .. l /\ i - k # j - k
    BY <1>1, <1>7
  <2> QED
    BY <1>1, <1>2, <1>7, <2>1 DEF Distinct
<1> QED
  BY <1>4, <1>5, <1>6, <1>7

-----------------------------------------------------------------------------
(***************************************************************************)
(* The invariant: who owns which buffer.                                   *)
(***************************************************************************)
Entries == [p : Nat, max : Nat \ {0}]

ArraysSound ==
    /\ IsFiniteSet(Live) /\ Live \subseteq Names
    /\ \A n \in Live : Sound(arrays[n]) /\ (n \in SetNames => Distinct(arrays[n].items))

OwnersDiffer ==
    /\ pool \in Seq(Entries)
    /\ \A i, j \in DOMAIN pool : i # j => pool[i].p # pool[j].p
    /\ \A n, m \in Live : n # m => arrays[n].p # arrays[m].p
    /\ \A i \in DOMAIN pool, n \in Live : pool[i].p # arrays[n].p

Owned == { arrays[n].p : n \in Live }

ContainersInv ==
    /\ ArraysSound
    /\ OwnersDiffer
    /\ IsFiniteSet(heap)
    /\ heap = Pooled \cup Owned

LEMMA NewBufferIsNew ==
    ASSUME IsFiniteSet(heap)
    PROVE  NewBuffer \in Nat /\ NewBuffer \notin heap
<1> DEFINE n == Cardinality(heap)
<1>1. n \in Nat
  BY FS_CardinalityType
<1>2. IsFiniteSet(1 .. n + 1) /\ Cardinality(1 .. n + 1) = n + 1
  BY <1>1, FS_Interval
<1>3. ~ (1 .. n + 1 \subseteq heap)
  <2> SUFFICES ASSUME 1 .. n + 1 \subseteq heap PROVE FALSE
    OBVIOUS
  <2>1. Cardinality(1 .. n + 1) <= n
    BY FS_Subset
  <2> HIDE DEF n
  <2> QED
    BY <1>1, <1>2, <2>1
<1>4. \E b \in 1 .. n + 1 : b \notin heap
  BY <1>3
<1>5. NewBuffer \in 1 .. n + 1 /\ NewBuffer \notin heap
  BY <1>4 DEF NewBuffer
<1> QED
  BY <1>1, <1>5

LEMMA ContainersInvInit == ContainersInit => ContainersInv
<1> SUFFICES ASSUME ContainersInit PROVE ContainersInv
  OBVIOUS
<1>1. Live = {} /\ pool = <<>> /\ DOMAIN pool = {} /\ heap = {}
  BY DEF ContainersInit, Live
<1>2. IsFiniteSet({})
  BY FS_EmptySet
<1> QED
  BY <1>1, <1>2 DEF ContainersInv, ArraysSound, OwnersDiffer, Pooled, Owned

(* One array changes its buffer for another, or keeps it.                    *)
LEMMA OneBufferChanges ==
    ASSUME ContainersInv, NEW n \in Live, UNCHANGED pool, Live' = Live,
           ArraysSound',
           \A m \in Live : m # n => arrays'[m].p = arrays[m].p,
           arrays'[n].p \in {arrays[n].p, NewBuffer},
           heap' = (heap \ {arrays[n].p}) \cup {arrays'[n].p}
    PROVE  ContainersInv'
<1> DEFINE old == arrays[n].p
           new == arrays'[n].p
<1>1. IsFiniteSet(heap) /\ heap = Pooled \cup Owned /\ old \in Owned
  BY DEF ContainersInv, Owned
<1>2. new = old \/ new \notin heap
  BY <1>1, NewBufferIsNew
<1>3. OwnersDiffer'
  <2>1. \A m \in Live : m # n => arrays'[m].p # new
    BY <1>1, <1>2 DEF ContainersInv, OwnersDiffer, Owned
  <2>2. \A i \in DOMAIN pool : pool[i].p # new
    BY <1>1, <1>2 DEF ContainersInv, OwnersDiffer, Pooled
  <2> QED
    BY <2>1, <2>2 DEF ContainersInv, OwnersDiffer
<1>4. IsFiniteSet(heap')
  BY <1>1, FS_AddElement, FS_RemoveElement
<1>5. heap' = (Pooled \cup Owned)'
  <2>1. Pooled' = Pooled /\ old \notin Pooled
    BY DEF Pooled, ContainersInv, OwnersDiffer
  <2>2. Owned' = (Owned \ {old}) \cup {new}
    BY DEF Owned, ContainersInv, OwnersDiffer
  <2> QED
    BY <1>1, <2>1, <2>2
<1> QED
  BY <1>3, <1>4, <1>5 DEF ContainersInv

(* Two arrays change their buffers for each other's.                         *)
LEMMA BuffersTraded ==
    ASSUME ContainersInv, NEW n \in Live, NEW m \in Live, UNCHANGED <<pool, heap>>, Live' = Live,
           ArraysSound',
           \A x \in Live : arrays'[x].p = IF x = n THEN arrays[m].p
                                         ELSE IF x = m THEN arrays[n].p ELSE arrays[x].p
    PROVE  ContainersInv'
<1>1. OwnersDiffer'
  BY DEF ContainersInv, OwnersDiffer
<1>2. Pooled' = Pooled
  BY DEF Pooled
<1>3. Owned' = Owned
  BY DEF Owned
<1> QED
  BY <1>1, <1>2, <1>3 DEF ContainersInv
-----------------------------------------------------------------------------
(***************************************************************************)
(* The steps.                                                              *)
(***************************************************************************)
LEMMA SoundArrays ==
    ASSUME ContainersInv, NEW n \in Live
    PROVE  /\ Sound(arrays[n]) /\ (n \in SetNames => Distinct(arrays[n].items))
           /\ arrays[n] \in ArrayType /\ arrays[n].p \in heap
           /\ NewBuffer \in Nat /\ NewBuffer \notin heap
<1>1. Sound(arrays[n]) /\ (n \in SetNames => Distinct(arrays[n].items))
  BY DEF ContainersInv, ArraysSound
<1>2. arrays[n].p \in heap
  BY DEF ContainersInv, Owned
<1> QED
  BY <1>1, <1>2, NewBufferIsNew DEF ContainersInv, Sound

LEMMA PutKeeps ==
    ASSUME ContainersInv, NEW n \in Live, NEW c, Becomes(arrays[n], c),
           n \in SetNames => Distinct(c.items), Put(n, c)
    PROVE  ContainersInv'
<1>1. Live' = Live /\ arrays'[n] = c /\ \A m \in Live : m # n => arrays'[m] = arrays[m]
  BY DEF Put, Live
<1>2. ArraysSound'
  BY <1>1 DEF ContainersInv, ArraysSound, Becomes
<1>3. arrays'[n].p \in {arrays[n].p, NewBuffer}
  BY <1>1 DEF Becomes
<1>4. heap' = (heap \ {arrays[n].p}) \cup {arrays'[n].p} /\ UNCHANGED pool
  BY <1>1 DEF Put
<1>5. \A m \in Live : m # n => arrays'[m].p = arrays[m].p
  BY <1>1
<1> QED
  BY <1>1, <1>2, <1>3, <1>4, <1>5, OneBufferChanges

LEMMA OneOfTheItems ==
    ASSUME ContainersInv, NEW n \in Live, NEW x \in Items
    PROVE  /\ AddItem(n, x) => ContainersInv'
           /\ RemoveItem(n, x) => ContainersInv'
           /\ AssignItem(n, x) => ContainersInv'
<1> DEFINE a == arrays[n]
<1>1. Sound(a) /\ (n \in SetNames => Distinct(a.items)) /\ NewBuffer \in Nat /\ a \in ArrayType
  BY SoundArrays
<1>2. x \in Int
  BY ContainersAssumption
<1> HIDE DEF a
<1>3. ASSUME AddItem(n, x) PROVE ContainersInv'
  <2> DEFINE c == IF n \in SetNames THEN SetWithItem(a, x) ELSE WithItem(a, x)
  <2>1. Becomes(a, c) /\ (n \in SetNames => Distinct(c.items))
    BY <1>1, <1>2, SetWithItemIsSound, WithItemIsSound
  <2>2. Put(n, c)
    BY <1>3 DEF AddItem, a
  <2> HIDE DEF c
  <2> QED
    BY <2>1, <2>2, PutKeeps DEF a
<1>4. ASSUME RemoveItem(n, x) PROVE ContainersInv'
  <2> DEFINE i == member(a, x)
             w == IF i = 0 THEN a ELSE Without(a, i)
             c == IF n \in SetNames THEN SetWithoutItem(a, x) ELSE w
  <2>1. Becomes(a, w)
    <3>1. CASE i = 0
      BY <1>1, <3>1, Unchanged
    <3>2. CASE i # 0
      <4>1. i \in 1 .. sz(a)
        BY <1>1, <1>2, <3>2, MemberFinds
      <4> HIDE DEF i
      <4> QED
        BY <1>1, <3>2, <4>1, WithoutIsSound
    <3> QED
      BY <3>1, <3>2
  <2>2. Becomes(a, SetWithoutItem(a, x))
        /\ (n \in SetNames => Distinct(SetWithoutItem(a, x).items))
    BY <1>1, <1>2, SetWithoutItemIsSound
  <2>3. Put(n, c)
    BY <1>4 DEF RemoveItem, a
  <2> HIDE DEF w
  <2>4. Becomes(a, c) /\ (n \in SetNames => Distinct(c.items))
    BY <2>1, <2>2
  <2> HIDE DEF c
  <2> QED
    BY <2>3, <2>4, PutKeeps DEF a
<1>5. ASSUME AssignItem(n, x) PROVE ContainersInv'
  <2> DEFINE s == <<x>>
             c == [a EXCEPT !.items = s, !.sorted = TRUE]
  <2>1. s \in Seq(Int) /\ Len(s) = 1 /\ Ordered(s) /\ Distinct(s)
    BY <1>2, OrderedTrivially
  <2>2. Put(n, c)
    BY <1>5 DEF AssignItem, a
  <2> HIDE DEF s
  <2>3. c \in ArrayType /\ c.items = s /\ c.max = a.max /\ c.p = a.p
    BY <1>1, <2>1 DEF ArrayType
  <2> HIDE DEF c
  <2>4. Len(c.items) <= c.max
    <3>1. a.max \in Nat /\ a.max > 0
      BY <1>1, Fields
    <3>2. Len(c.items) = 1 /\ c.max = a.max
      BY <2>1, <2>3
    <3> QED
      BY <3>1, <3>2
  <2>5. Becomes(a, c) /\ Distinct(c.items)
    BY <2>1, <2>3, <2>4, NewContents
  <2> QED
    BY <2>2, <2>5, PutKeeps DEF a
<1> QED
  BY <1>3, <1>4, <1>5

LEMMA OneArray ==
    ASSUME ContainersInv, NEW n \in Live
    PROVE  /\ Clear(n) => ContainersInv'
           /\ ClearAll(n) => ContainersInv'
           /\ Sort(n) => ContainersInv'
           /\ MakeUnique(n) => ContainersInv'
           /\ \A i \in 1 .. MaxItems : RemoveAtIndex(n, i) => ContainersInv'
<1> DEFINE a == arrays[n]
<1>1. Sound(a) /\ (n \in SetNames => Distinct(a.items)) /\ NewBuffer \in Nat /\ a \in ArrayType
  BY SoundArrays
<1>2. <<>> \in Seq(Int) /\ Len(<<>>) = 0 /\ Ordered(<<>>) /\ Distinct(<<>>)
  BY OrderedTrivially
<1> HIDE DEF a
<1>3. ASSUME Clear(n) PROVE ContainersInv'
  <2> DEFINE s == <<>>
             c == [a EXCEPT !.items = s, !.sorted = TRUE]
  <2>1. Put(n, c)
    BY <1>3 DEF Clear, a
  <2>2. s \in Seq(Int) /\ Len(s) = 0 /\ Ordered(s) /\ Distinct(s)
    BY <1>2
  <2> HIDE DEF s
  <2>3. c \in ArrayType /\ c.items = s /\ c.max = a.max /\ c.p = a.p
    BY <1>1, <2>2 DEF ArrayType
  <2> HIDE DEF c
  <2>4. a.max \in Nat
    BY <1>1, Fields
  <2>5. Becomes(a, c) /\ Distinct(c.items)
    BY <2>2, <2>3, <2>4, NewContents
  <2> QED
    BY <2>1, <2>5, PutKeeps DEF a
<1>4. ASSUME ClearAll(n) PROVE ContainersInv'
  <2> DEFINE c == Array(NewBuffer, ARRAY_SIZE, <<>>, TRUE)
  <2>1. Put(n, c)
    BY <1>4 DEF ClearAll, a
  <2>2. c \in ArrayType /\ c.items = <<>> /\ c.max \in Nat /\ c.p = NewBuffer
    BY <1>1, ContainersAssumption DEF ArrayType, Array
  <2> HIDE DEF c
  <2>3. Becomes(a, c) /\ Distinct(c.items)
    BY <1>2, <2>2, NewContents
  <2> QED
    BY <2>1, <2>3, PutKeeps DEF a
<1>5. ASSUME Sort(n) PROVE ContainersInv'
  <2>1. Put(n, SortedArray(a))
    BY <1>5 DEF Sort, a
  <2> QED
    BY <1>1, <2>1, SortedIsSound, PutKeeps DEF a
<1>6. ASSUME MakeUnique(n) PROVE ContainersInv'
  <2>1. Put(n, Unique(a))
    BY <1>6 DEF MakeUnique, a
  <2> QED
    BY <1>1, <2>1, UniqueIsSound, PutKeeps DEF a
<1>7. ASSUME NEW i \in 1 .. MaxItems, RemoveAtIndex(n, i) PROVE ContainersInv'
  <2>1. Put(n, Without(a, i)) /\ i <= sz(a)
    BY <1>7 DEF RemoveAtIndex, a
  <2>2. i \in 1 .. sz(a)
    <3>1. sz(a) \in Nat /\ MaxItems \in Nat
      BY <1>1, Fields, ContainersAssumption
    <3> QED
      BY <2>1, <3>1
  <2>3. Becomes(a, Without(a, i)) /\ (Distinct(a.items) => Distinct(Without(a, i).items))
    BY <1>1, <2>2, WithoutIsSound
  <2> QED
    BY <1>1, <2>1, <2>3, PutKeeps DEF a
<1> QED
  BY <1>3, <1>4, <1>5, <1>6, <1>7

LEMMA TwoArrays ==
    ASSUME ContainersInv, NEW n \in Live, NEW m \in Live, n \in SetNames <=> m \in SetNames
    PROVE  /\ Assign(n, m) => ContainersInv'
           /\ Concatenate(n, m) => ContainersInv'
           /\ n \notin SetNames /\ Merge(n, m) => ContainersInv'
           /\ Union(n, m) => ContainersInv'
           /\ Difference(n, m) => ContainersInv'
<1> DEFINE a == arrays[n]
           b == arrays[m]
<1>1. Sound(a) /\ (n \in SetNames => Distinct(a.items)) /\ NewBuffer \in Nat /\ a \in ArrayType
  BY SoundArrays
<1>2. Sound(b) /\ (m \in SetNames => Distinct(b.items)) /\ b \in ArrayType
  BY SoundArrays
<1>3. a.items \in Seq(Int) /\ b.items \in Seq(Int)
  BY <1>1, <1>2, Fields
<1>4. Becomes(a, a)
  BY <1>1, Unchanged
<1> HIDE DEF a, b
<1>5. ASSUME Assign(n, m) PROVE ContainersInv'
  <2>1. CASE n = m
    <3>1. Put(n, a)
      BY <1>5, <2>1 DEF Assign, a
    <3> QED
      BY <1>1, <1>4, <3>1, PutKeeps DEF a
  <2>2. CASE n # m
    <3>1. Put(n, Assigned(a, b))
      BY <1>5, <2>2 DEF Assign, a, b
    <3>2. Becomes(a, Assigned(a, b)) /\ Assigned(a, b).items = b.items
      BY <1>1, <1>2, AssignedIsSound
    <3> QED
      BY <1>2, <3>1, <3>2, PutKeeps DEF a
  <2> QED
    BY <2>1, <2>2
<1>6. ASSUME Concatenate(n, m) PROVE ContainersInv'
  <2> DEFINE s == a.items \o b.items
  <2>1. Put(n, WithArray(a, b))
    BY <1>6 DEF Concatenate, a, b
  <2>2. Becomes(a, WithArray(a, b)) /\ WithArray(a, b).items = s
    BY <1>1, <1>2, WithArrayIsSound
  <2>3. n \in SetNames => Distinct(s)
    <3> SUFFICES ASSUME n \in SetNames PROVE Distinct(s)
      OBVIOUS
    <3>1. ToSet(a.items) \cap ToSet(b.items) = {}
      BY <1>6 DEF Concatenate, a, b
    <3>2. Distinct(a.items) /\ Distinct(b.items)
      BY <1>1, <1>2
    <3> QED
      BY <1>3, <3>1, <3>2, DisjointJoined
  <2> HIDE DEF s
  <2> QED
    BY <2>1, <2>2, <2>3, PutKeeps DEF a
<1>7. ASSUME n \notin SetNames, Merge(n, m) PROVE ContainersInv'
  <2>1. Put(n, MergedArrays(a, b))
    BY <1>7 DEF Merge, a, b
  <2>2. Becomes(a, MergedArrays(a, b))
    BY <1>1, <1>2, MergedIsSound
  <2> QED
    BY <1>7, <2>1, <2>2, PutKeeps DEF a
<1>8. ASSUME Union(n, m) PROVE ContainersInv'
  <2>1. Put(n, IF n = m THEN a ELSE InTurn("add", a, b.items))
    BY <1>8 DEF Union, SetWith, a, b
  <2>2. Becomes(a, InTurn("add", a, b.items))
        /\ (Distinct(a.items) => Distinct(InTurn("add", a, b.items).items))
    BY <1>1, <1>3, InTurnIsSound
  <2> DEFINE c == IF n = m THEN a ELSE InTurn("add", a, b.items)
  <2>3. Becomes(a, c) /\ (n \in SetNames => Distinct(c.items)) /\ Put(n, c)
    BY <1>1, <1>4, <2>1, <2>2
  <2> HIDE DEF c
  <2> QED
    BY <2>3, PutKeeps DEF a
<1>9. ASSUME Difference(n, m) PROVE ContainersInv'
  <2>1. Put(n, IF n = m THEN a ELSE InTurn("remove", a, b.items))
    BY <1>9 DEF Difference, SetWithout, a, b
  <2>2. Becomes(a, InTurn("remove", a, b.items))
        /\ (Distinct(a.items) => Distinct(InTurn("remove", a, b.items).items))
    BY <1>1, <1>3, InTurnIsSound
  <2> DEFINE c == IF n = m THEN a ELSE InTurn("remove", a, b.items)
  <2>3. Becomes(a, c) /\ (n \in SetNames => Distinct(c.items)) /\ Put(n, c)
    BY <1>1, <1>4, <2>1, <2>2
  <2> HIDE DEF c
  <2> QED
    BY <2>3, PutKeeps DEF a
<1> QED
  BY <1>5, <1>6, <1>7, <1>8, <1>9

LEMMA BuffersStay ==
    ASSUME ContainersInv, UNCHANGED <<pool, heap>>, Live' = Live, ArraysSound',
           \A x \in Live : arrays'[x].p = arrays[x].p
    PROVE  ContainersInv'
<1>1. OwnersDiffer'
  BY DEF ContainersInv, OwnersDiffer
<1>2. Pooled' = Pooled /\ Owned' = Owned
  BY DEF Pooled, Owned
<1> QED
  BY <1>1, <1>2 DEF ContainersInv

(* Two arrays change places, be they sets or lists.                          *)
LEMMA SwapKeeps ==
    ASSUME ContainersInv, NEW n \in Live, NEW m \in Live, n \in SetNames <=> m \in SetNames,
           Swap(n, m)
    PROVE  ContainersInv'
<1>1. UNCHANGED <<pool, heap>> /\ Live' = Live
  BY DEF Swap, Live
<1>2. \A x \in Live : arrays'[x] = IF x = n THEN arrays[m] ELSE IF x = m THEN arrays[n] ELSE arrays[x]
  BY DEF Swap, Live
<1>3. ArraysSound'
  BY <1>1, <1>2 DEF ContainersInv, ArraysSound
<1>4. \A x \in Live : arrays'[x].p = IF x = n THEN arrays[m].p
                                     ELSE IF x = m THEN arrays[n].p ELSE arrays[x].p
  BY <1>2
<1> QED
  BY <1>1, <1>3, <1>4, BuffersTraded

LEMMA FromListKeeps ==
    ASSUME ContainersInv, NEW n \in LiveSets, NEW l \in LiveLists, FromList(n, l)
    PROVE  ContainersInv'
<1> DEFINE b == Unique(arrays[l])
           c == [b EXCEPT !.sorted = TRUE]
<1>1. n \in Live /\ l \in Live /\ l \notin SetNames /\ n # l
  BY ContainersAssumption DEF LiveSets, LiveLists
<1>2. Sound(arrays[n]) /\ Sound(arrays[l])
  BY <1>1, SoundArrays
<1>3. Sound(b) /\ b.p = arrays[l].p /\ Ordered(b.items) /\ Distinct(b.items)
  BY <1>2, UniqueIsSound DEF Becomes
<1>4. UNCHANGED <<pool, heap>> /\ Live' = Live
  BY DEF FromList, Live
<1>5. \A x \in Live : arrays'[x] = IF x = l THEN arrays[n] ELSE IF x = n THEN c ELSE arrays[x]
  BY <1>1 DEF FromList, Live
<1> HIDE DEF b
<1>6. c \in ArrayType /\ c.items = b.items /\ c.max = b.max /\ c.p = b.p
  BY <1>3 DEF Sound, ArrayType
<1> HIDE DEF c
<1>7. Sound(c)
  BY <1>3, <1>6 DEF Sound, sz
<1>8. ArraysSound'
  BY <1>1, <1>2, <1>3, <1>4, <1>5, <1>6, <1>7 DEF ContainersInv, ArraysSound
<1>9. \A x \in Live : arrays'[x].p = IF x = l THEN arrays[n].p
                                     ELSE IF x = n THEN arrays[l].p ELSE arrays[x].p
  BY <1>1, <1>3, <1>5, <1>6
<1> QED
  BY <1>1, <1>4, <1>8, <1>9, BuffersTraded

LEMMA CompareKeeps ==
    ASSUME ContainersInv, NEW n \in Live, NEW m \in Live, Compare(n, m)
    PROVE  ContainersInv'
<1>1. UNCHANGED <<pool, heap>> /\ Live' = Live
  BY DEF Compare, Live
<1> DEFINE twice == SortedArray(SortedArray(arrays[n]))
<1>2. \A x \in Live : arrays'[x] \in {arrays[x], SortedArray(arrays[x]), SortedArray(SortedArray(arrays[x]))}
  BY DEF Compare, Live
<1>3. ASSUME NEW x \in Live
      PROVE  /\ Sound(arrays'[x]) /\ arrays'[x].p = arrays[x].p
             /\ x \in SetNames => Distinct(arrays'[x].items)
  <2> DEFINE a == arrays[x]
             b == SortedArray(a)
             c == SortedArray(b)
  <2>1. Sound(a) /\ (x \in SetNames => Distinct(a.items))
    BY SoundArrays
  <2> HIDE DEF a
  <2>2. Sound(b) /\ b.p = a.p /\ (x \in SetNames => Distinct(b.items))
    BY <2>1, SortedIsSound DEF Becomes
  <2> HIDE DEF b
  <2>3. Sound(c) /\ c.p = a.p /\ (x \in SetNames => Distinct(c.items))
    BY <2>2, SortedIsSound DEF Becomes
  <2>4. arrays'[x] \in {a, b, c}
    BY <1>2 DEF a, b
  <2> HIDE DEF c
  <2> QED
    BY <2>1, <2>2, <2>3, <2>4 DEF a
<1>4. ArraysSound'
  BY <1>1, <1>3 DEF ContainersInv, ArraysSound
<1> QED
  BY <1>1, <1>3, <1>4, BuffersStay

LEMMA PickedDiffer ==
    ASSUME NEW s \in Seq(Int), NEW K \in SUBSET (DOMAIN s), Distinct(s)
    PROVE  Distinct(Picked(s, K))
<1> DEFINE t == Picked(s, K)
           N == Cardinality(K)
           at(i) == Nth(K, i)
<1>1. /\ t \in Seq(Int) /\ Len(t) = N /\ \A i \in 1 .. N : at(i) \in DOMAIN s /\ t[i] = s[at(i)]
      /\ \A i, j \in 1 .. N : i < j => at(i) < at(j)
  BY PickedKeepsOrder
<1> HIDE DEF t, at, N
<1>2. DOMAIN t = 1 .. N /\ N \in Nat /\ \A i \in DOMAIN s : i \in Int
  BY <1>1
<1>3. \A i, j \in 1 .. N : i # j => at(i) # at(j)
  <2> SUFFICES ASSUME NEW i \in 1 .. N, NEW j \in 1 .. N, i # j PROVE at(i) # at(j)
    OBVIOUS
  <2>1. at(i) \in Int /\ at(j) \in Int
    BY <1>1, <1>2
  <2>2. i < j \/ j < i
    BY <1>2
  <2> QED
    BY <1>1, <2>1, <2>2
<1>4. Distinct(t)
  BY <1>1, <1>2, <1>3 DEF Distinct
<1> QED
  BY <1>4 DEF t

LEMMA IntersectKeeps ==
    ASSUME ContainersInv, NEW n \in LiveSets, NEW m1 \in LiveSets, NEW m2 \in LiveSets,
           Intersect(n, m1, m2)
    PROVE  ContainersInv'
<1> DEFINE empty == [arrays[n] EXCEPT !.items = <<>>, !.sorted = TRUE]
           cleared == [arrays EXCEPT ![n] = empty]
           s1 == SortedArray(cleared[m1])
           s2 == SortedArray(cleared[m2])
           K == { i \in 1 .. sz(s1) : Linear(s2, s1.items[i]) > 0 }
           both == Picked(s1.items, K)
           new == InTurn("append", empty, both)
<1>1. n \in Live /\ m1 \in Live /\ m2 \in Live /\ m1 \in SetNames /\ m2 \in SetNames
  BY DEF LiveSets
<1>2. NewBuffer \in Nat /\ arrays[n] \in ArrayType
  BY <1>1, SoundArrays
<1>3. /\ arrays' = [arrays EXCEPT ![m2] = s2, ![m1] = s1, ![n] = new]
      /\ heap' = (heap \ {empty.p}) \cup {new.p} /\ UNCHANGED pool
  BY DEF Intersect
<1>4. /\ Sound(empty) /\ empty.items = <<>> /\ Distinct(empty.items) /\ empty.p = arrays[n].p
  <2> DEFINE s == <<>>
             c == [arrays[n] EXCEPT !.items = s, !.sorted = TRUE]
  <2>1. s \in Seq(Int) /\ Len(s) = 0 /\ Ordered(s) /\ Distinct(s)
    BY OrderedTrivially
  <2> HIDE DEF s
  <2>2. c \in ArrayType /\ c.items = s /\ c.max = arrays[n].max /\ c.p = arrays[n].p
    BY <1>2, <2>1 DEF ArrayType
  <2> HIDE DEF c
  <2>3. arrays[n].max \in Nat
    BY <1>2, Fields
  <2>4. Sound(c)
    BY <2>1, <2>2, <2>3 DEF Sound, sz
  <2> QED
    BY <2>1, <2>2, <2>4 DEF c, s
<1>5. \A m \in Live : cleared[m] = IF m = n THEN empty ELSE arrays[m]
  BY <1>1 DEF Live
<1> HIDE DEF empty
<1>6. \A m \in Live : Sound(cleared[m]) /\ (m \in SetNames => Distinct(cleared[m].items))
                      /\ cleared[m].p = arrays[m].p
  BY <1>4, <1>5, SoundArrays
<1> HIDE DEF cleared
<1>7. Sound(s1) /\ s1.p = arrays[m1].p /\ Distinct(s1.items)
  BY <1>1, <1>6, SortedIsSound DEF Becomes
<1>8. Sound(s2) /\ s2.p = arrays[m2].p /\ Distinct(s2.items)
  BY <1>1, <1>6, SortedIsSound DEF Becomes
<1> HIDE DEF s1, s2
<1>9. s1.items \in Seq(Int) /\ K \in SUBSET (DOMAIN s1.items)
  <2>1. s1 \in ArrayType
    BY <1>7 DEF Sound
  <2> QED
    BY <2>1, Fields, Indices
<1> HIDE DEF K
<1>10. both \in Seq(Int) /\ Distinct(both)
  BY <1>7, <1>9, PickedKeepsOrder, PickedDiffer
<1> HIDE DEF both
<1>11. Becomes(empty, new) /\ new.items = both
  BY <1>2, <1>4, <1>10, InTurnIsSound
<1> HIDE DEF new
<1>12. Sound(new) /\ new.p \in {arrays[n].p, NewBuffer} /\ Distinct(new.items)
  BY <1>4, <1>10, <1>11 DEF Becomes
<1>13. /\ Live' = Live /\ arrays'[n] = new
       /\ \A m \in Live : m # n => arrays'[m] = IF m = m1 THEN s1 ELSE IF m = m2 THEN s2 ELSE arrays[m]
  BY <1>1, <1>3 DEF Live
<1>14. ASSUME NEW m \in Live, m # n
       PROVE  /\ Sound(arrays'[m]) /\ arrays'[m].p = arrays[m].p
              /\ m \in SetNames => Distinct(arrays'[m].items)
  <2>1. CASE m = m1
    <3>1. arrays'[m] = s1
      BY <1>13, <1>14, <2>1
    <3> QED
      BY <1>7, <2>1, <3>1
  <2>2. CASE m # m1 /\ m = m2
    <3>1. arrays'[m] = s2
      BY <1>13, <1>14, <2>2
    <3> QED
      BY <1>8, <2>2, <3>1
  <2>3. CASE m # m1 /\ m # m2
    <3>1. arrays'[m] = arrays[m]
      BY <1>13, <1>14, <2>3
    <3> QED
      BY <3>1, SoundArrays
  <2> QED
    BY <2>1, <2>2, <2>3
<1>15. ArraysSound'
  BY <1>1, <1>12, <1>13, <1>14 DEF ContainersInv, ArraysSound
<1>16. heap' = (heap \ {arrays[n].p}) \cup {arrays'[n].p} /\ UNCHANGED pool
  BY <1>3, <1>4, <1>13
<1> QED
  BY <1>1, <1>12, <1>13, <1>14, <1>15, <1>16, OneBufferChanges

(* The entry taken from the pool is no longer in it, every other one is.     *)
LEMMA PoolWithoutKeeps ==
    ASSUME ContainersInv, NEW i \in DOMAIN pool
    PROVE  /\ PoolWithout(i) \in Seq(Entries)
           /\ \A j, k \in DOMAIN PoolWithout(i) : j # k => PoolWithout(i)[j].p # PoolWithout(i)[k].p
           /\ { PoolWithout(i)[j].p : j \in DOMAIN PoolWithout(i) } = Pooled \ {pool[i].p}
<1> DEFINE n == Len(pool)
           q == PoolWithout(i)
           from(j) == IF j = i THEN n ELSE j
<1>1. pool \in Seq(Entries) /\ \A j, k \in DOMAIN pool : j # k => pool[j].p # pool[k].p
  BY DEF ContainersInv, OwnersDiffer
<1>2. n \in Nat /\ DOMAIN pool = 1 .. n /\ \A j \in 1 .. n : pool[j] \in Entries
  BY <1>1
<1> HIDE DEF n
<1>3. n >= 1 /\ n - 1 \in Nat
  BY <1>2
<1>4. q = [j \in 1 .. n - 1 |-> pool[from(j)]]
  BY DEF PoolWithout, n
<1>5. /\ \A j \in 1 .. n - 1 : from(j) \in 1 .. n /\ from(j) # i
      /\ \A j, k \in 1 .. n - 1 : j # k => from(j) # from(k)
      /\ \A j \in 1 .. n : j # i => \E k \in 1 .. n - 1 : from(k) = j
  <2>1. \A j \in 1 .. n : j # i /\ j # n => j \in 1 .. n - 1
    BY <1>2
  <2>2. i # n => i \in 1 .. n - 1 /\ from(i) = n
    BY <1>2
  <2>3. \A j \in 1 .. n - 1 : j \in 1 .. n /\ j # n
    BY <1>2
  <2> QED
    BY <1>2, <1>3, <2>1, <2>2, <2>3
<1> HIDE DEF q, from
<1>6. DOMAIN q = 1 .. n - 1 /\ \A j \in 1 .. n - 1 : q[j] = pool[from(j)]
  BY <1>4
<1>7. q \in Seq(Entries)
  <2>1. \A j \in 1 .. n - 1 : pool[from(j)] \in Entries
    BY <1>2, <1>5
  <2>2. q \in [1 .. n - 1 -> Entries]
    BY <1>4, <2>1
  <2> QED
    BY <1>3, <2>2, IsASeq
<1>8. \A j, k \in DOMAIN q : j # k => q[j].p # q[k].p
  BY <1>1, <1>2, <1>5, <1>6
<1>9. { q[j].p : j \in DOMAIN q } = Pooled \ {pool[i].p}
  <2>1. ASSUME NEW j \in DOMAIN q PROVE q[j].p \in Pooled /\ q[j].p # pool[i].p
    BY <1>1, <1>2, <1>5, <1>6 DEF Pooled
  <2>2. ASSUME NEW j \in DOMAIN pool, pool[j].p # pool[i].p
        PROVE  \E k \in DOMAIN q : q[k].p = pool[j].p
    BY <1>2, <1>5, <1>6, <2>2
  <2> QED
    BY <2>1, <2>2 DEF Pooled
<1> QED
  BY <1>7, <1>8, <1>9 DEF q

(* An array begins: with a new buffer or one of the pool, which it may at    *)
(* once give up for a new one.                                               *)
LEMMA ArrayBegins ==
    ASSUME ContainersInv, NEW n \in Names, n \notin Live, NEW c, Sound(c),
           n \in SetNames => Distinct(c.items), NEW old, c.p \in {old, NewBuffer},
           arrays' = [m \in Live \cup {n} |-> IF m = n THEN c ELSE arrays[m]],
           \/ pool' = pool /\ old = NewBuffer
           \/ \E i \in DOMAIN pool : pool' = PoolWithout(i) /\ old = pool[i].p,
           heap' = (heap \ {old}) \cup {c.p}
    PROVE  ContainersInv'
<1>1. IsFiniteSet(heap) /\ heap = Pooled \cup Owned /\ OwnersDiffer
  BY DEF ContainersInv
<1>2. NewBuffer \notin heap
  BY <1>1, NewBufferIsNew
<1>3. Live' = Live \cup {n} /\ arrays'[n] = c /\ \A m \in Live : arrays'[m] = arrays[m]
  BY DEF Live
<1>4. IsFiniteSet(Live')
  BY <1>3, FS_AddElement DEF ContainersInv, ArraysSound
<1>5. ArraysSound'
  BY <1>3, <1>4 DEF ContainersInv, ArraysSound
<1>6. Owned' = Owned \cup {c.p}
  BY <1>3 DEF Owned
<1>7. /\ pool' \in Seq(Entries)
      /\ \A i, j \in DOMAIN pool' : i # j => pool'[i].p # pool'[j].p
      /\ Pooled' = Pooled \ {old}
  <2>1. CASE pool' = pool /\ old = NewBuffer
    BY <1>1, <1>2, <2>1 DEF OwnersDiffer, Pooled
  <2>2. CASE \E i \in DOMAIN pool : pool' = PoolWithout(i) /\ old = pool[i].p
    <3>1. PICK i \in DOMAIN pool : pool' = PoolWithout(i) /\ old = pool[i].p
      BY <2>2
    <3> DEFINE q == PoolWithout(i)
    <3>2. /\ q \in Seq(Entries)
          /\ \A j, k \in DOMAIN q : j # k => q[j].p # q[k].p
          /\ { q[j].p : j \in DOMAIN q } = Pooled \ {pool[i].p}
      BY PoolWithoutKeeps
    <3> HIDE DEF q
    <3>3. Pooled' = { q[j].p : j \in DOMAIN q }
      BY <3>1 DEF Pooled, q
    <3> QED
      BY <3>1, <3>2, <3>3 DEF q
  <2> QED
    BY <2>1, <2>2
<1>8. old \notin Owned /\ Pooled \cap Owned = {}
  BY <1>1, <1>2 DEF Pooled, Owned, OwnersDiffer
<1>9. c.p \notin Owned /\ c.p \notin Pooled'
  BY <1>1, <1>2, <1>7, <1>8
<1>10. OwnersDiffer'
  <2>1. \A m, k \in Live' : m # k => arrays'[m].p # arrays'[k].p
    BY <1>1, <1>3, <1>9 DEF OwnersDiffer, Owned
  <2>2. \A i \in DOMAIN pool', m \in Live' : pool'[i].p # arrays'[m].p
    <3> SUFFICES ASSUME NEW i \in DOMAIN pool', NEW m \in Live' PROVE pool'[i].p # arrays'[m].p
      OBVIOUS
    <3>1. pool'[i].p \in Pooled'
      BY DEF Pooled
    <3>2. pool'[i].p \in Pooled
      BY <1>7, <3>1
    <3> QED
      BY <1>3, <1>8, <1>9, <3>1, <3>2 DEF Owned
  <2> QED
    BY <1>7, <2>1, <2>2 DEF OwnersDiffer
<1>11. IsFiniteSet(heap')
  BY <1>1, FS_AddElement, FS_RemoveElement
<1>12. heap' = (Pooled \cup Owned)'
  BY <1>1, <1>6, <1>7, <1>8
<1> QED
  BY <1>5, <1>10, <1>11, <1>12 DEF ContainersInv

(* An empty array of a capacity that is not nothing.                         *)
LEMMA EmptyArray ==
    ASSUME NEW b \in Nat, NEW capacity \in Nat \ {0}
    PROVE  LET a == Array(b, capacity, <<>>, TRUE)
           IN  a \in ArrayType /\ Sound(a) /\ a.p = b /\ Distinct(a.items)
<1> DEFINE s == <<>>
           a == Array(b, capacity, s, TRUE)
<1>1. s \in Seq(Int) /\ Len(s) = 0 /\ Ordered(s) /\ Distinct(s)
  BY OrderedTrivially
<1> HIDE DEF s
<1>2. a \in ArrayType /\ a.items = s /\ a.max = capacity /\ a.p = b
  BY <1>1 DEF ArrayType, Array
<1> HIDE DEF a
<1>3. Sound(a) /\ Distinct(a.items)
  BY <1>1, <1>2 DEF Sound, sz
<1> QED
  BY <1>2, <1>3 DEF a, s

LEMMA EntriesOfThePool ==
    ASSUME ContainersInv, NEW i \in DOMAIN pool
    PROVE  /\ pool[i].p \in heap /\ NewBuffer # pool[i].p
           /\ FromPool(i) \in ArrayType /\ Sound(FromPool(i)) /\ FromPool(i).p = pool[i].p
           /\ Distinct(FromPool(i).items)
<1>1. pool[i] \in Entries
  BY DEF ContainersInv, OwnersDiffer
<1>2. pool[i].p \in Nat /\ pool[i].max \in Nat \ {0}
  BY <1>1 DEF Entries
<1>3. pool[i].p \in heap
  BY DEF ContainersInv, Pooled
<1>4. NewBuffer \notin heap
  BY NewBufferIsNew DEF ContainersInv
<1> QED
  BY <1>2, <1>3, <1>4, EmptyArray DEF FromPool

LEMMA BeginKeeps ==
    ASSUME ContainersInv, NEW n \in Names, n \notin Live, NEW a, NEW i, Begin(n, a, i),
           Sound(a), Distinct(a.items),
           \/ i = 0 /\ a.p = NewBuffer
           \/ i \in DOMAIN pool /\ a.p = pool[i].p
    PROVE  ContainersInv'
<1>1. /\ arrays' = [m \in Live \cup {n} |-> IF m = n THEN a ELSE arrays[m]]
      /\ heap' = (heap \ {a.p}) \cup {a.p}
  BY DEF Begin
<1>2. CASE i = 0 /\ a.p = NewBuffer
  <2>1. pool' = pool /\ a.p = NewBuffer
    BY <1>2 DEF Begin
  <2> QED
    BY <1>1, <2>1, ArrayBegins
<1>3. CASE i \in DOMAIN pool /\ a.p = pool[i].p
  <2>1. i # 0
    BY <1>3 DEF ContainersInv, OwnersDiffer
  <2>2. pool' = PoolWithout(i) /\ a.p = pool[i].p
    BY <1>3, <2>1 DEF Begin
  <2> QED
    BY <1>1, <1>3, <2>2, ArrayBegins
<1> QED
  BY <1>2, <1>3

LEMMA ThePool ==
    ASSUME ContainersInv
    PROVE  /\ Len(pool) \in Nat /\ DOMAIN pool = 1 .. Len(pool)
           /\ pool # <<>> => Len(pool) \in DOMAIN pool
           /\ NewBuffer \in Nat
<1>1. pool \in Seq(Entries)
  BY DEF ContainersInv, OwnersDiffer
<1>2. pool # <<>> => Len(pool) \in 1 .. Len(pool)
  BY <1>1
<1>3. NewBuffer \in Nat
  BY NewBufferIsNew DEF ContainersInv
<1> QED
  BY <1>1, <1>2, <1>3

LEMMA ConstructorsKeep ==
    ASSUME ContainersInv, NEW n \in Names
    PROVE  /\ ConstructEmpty(n) => ContainersInv'
           /\ \A size \in SizesAsked : ConstructSized(n, size) => ContainersInv'
<1>1. /\ Len(pool) \in Nat /\ DOMAIN pool = 1 .. Len(pool) /\ NewBuffer \in Nat
      /\ pool # <<>> => Len(pool) \in DOMAIN pool
  BY ThePool
<1>2. ASSUME ConstructEmpty(n) PROVE ContainersInv'
  <2>1. n \notin Live
    BY <1>2 DEF ConstructEmpty
  <2>2. CASE pool = <<>>
    <3> DEFINE a == Array(NewBuffer, ARRAY_SIZE, <<>>, TRUE)
    <3>1. Begin(n, a, 0)
      BY <1>2, <2>2 DEF ConstructEmpty
    <3>2. Sound(a) /\ Distinct(a.items) /\ a.p = NewBuffer
      BY <1>1, EmptyArray, ContainersAssumption
    <3> HIDE DEF a
    <3> QED
      BY <2>1, <3>1, <3>2, BeginKeeps
  <2>3. CASE pool # <<>>
    <3> DEFINE i == Len(pool)
               a == FromPool(i)
    <3>1. Begin(n, a, i) /\ i \in DOMAIN pool
      BY <1>1, <1>2, <2>3 DEF ConstructEmpty
    <3> HIDE DEF i
    <3>2. Sound(a) /\ Distinct(a.items) /\ a.p = pool[i].p
      BY <3>1, EntriesOfThePool
    <3> HIDE DEF a
    <3> QED
      BY <2>1, <3>1, <3>2, BeginKeeps
  <2> QED
    BY <2>2, <2>3
<1>3. ASSUME NEW size \in SizesAsked, ConstructSized(n, size) PROVE ContainersInv'
  <2> DEFINE large == { j \in DOMAIN pool : pool[j].max > size }
             j == CHOOSE j \in large : \A m \in large : j <= m
  <2>1. n \notin Live
    BY <1>3 DEF ConstructSized
  <2>2. CASE large = {}
    <3> DEFINE a == Array(NewBuffer, size + 1, <<>>, TRUE)
    <3>1. Begin(n, a, 0)
      BY <1>3, <2>2 DEF ConstructSized
    <3>2. size + 1 \in Nat \ {0}
      BY ContainersAssumption
    <3>3. Sound(a) /\ Distinct(a.items) /\ a.p = NewBuffer
      BY <1>1, <3>2, EmptyArray
    <3> HIDE DEF a
    <3> QED
      BY <2>1, <3>1, <3>3, BeginKeeps
  <2>3. CASE large # {}
    <3>1. j \in large
      <4>1. large \in SUBSET Nat
        BY <1>1
      <4> HIDE DEF large
      <4>2. \E k \in large : \A m \in large : k <= m
        BY <2>3, <4>1, LeastOfNaturals
      <4> QED
        BY <4>2
    <3>2. j \in DOMAIN pool
      BY <3>1
    <3>3. Begin(n, FromPool(j), j)
      BY <1>3, <2>3 DEF ConstructSized
    <3> HIDE DEF j
    <3> DEFINE a == FromPool(j)
    <3>4. Sound(a) /\ Distinct(a.items) /\ a.p = pool[j].p
      BY <3>2, EntriesOfThePool
    <3>5. Begin(n, a, j)
      BY <3>3
    <3> HIDE DEF a
    <3> QED
      BY <2>1, <3>2, <3>4, <3>5, BeginKeeps
  <2> QED
    BY <2>2, <2>3
<1> QED
  BY <1>2, <1>3

LEMMA CopyKeeps ==
    ASSUME ContainersInv, NEW n \in Names, NEW m \in Names, ConstructCopy(n, m)
    PROVE  ContainersInv'
<1> DEFINE b == arrays[m]
           a == IF pool = <<>> THEN Array(NewBuffer, b.max, <<>>, TRUE) ELSE FromPool(Len(pool))
           c == Assigned(a, b)
<1>1. n \notin Live /\ m \in Live /\ (m \in SetNames <=> n \in SetNames)
  BY DEF ConstructCopy
<1>2. /\ arrays' = [x \in Live \cup {n} |-> IF x = n THEN c ELSE arrays[x]]
      /\ pool' = IF pool = <<>> THEN pool ELSE PoolWithout(Len(pool))
      /\ heap' = (heap \ {a.p}) \cup {c.p}
  BY DEF ConstructCopy
<1>3. Sound(b) /\ (m \in SetNames => Distinct(b.items)) /\ b \in ArrayType
  BY <1>1, SoundArrays
<1>4. /\ Len(pool) \in Nat /\ DOMAIN pool = 1 .. Len(pool) /\ NewBuffer \in Nat
      /\ pool # <<>> => Len(pool) \in DOMAIN pool
  BY ThePool
<1>5. b.max \in Nat \ {0}
  BY <1>3 DEF ArrayType
<1> HIDE DEF b
<1>6. /\ a \in ArrayType
      /\ \/ pool' = pool /\ a.p = NewBuffer
         \/ \E i \in DOMAIN pool : pool' = PoolWithout(i) /\ a.p = pool[i].p
  <2>1. CASE pool = <<>>
    <3> DEFINE d == Array(NewBuffer, b.max, <<>>, TRUE)
    <3>1. d \in ArrayType /\ d.p = NewBuffer
      BY <1>4, <1>5, EmptyArray
    <3> QED
      BY <1>2, <2>1, <3>1
  <2>2. CASE pool # <<>>
    <3> DEFINE i == Len(pool)
    <3>1. i \in DOMAIN pool /\ pool' = PoolWithout(i) /\ a = FromPool(i)
      BY <1>2, <1>4, <2>2
    <3> HIDE DEF i
    <3>2. FromPool(i) \in ArrayType /\ FromPool(i).p = pool[i].p
      BY <3>1, EntriesOfThePool
    <3> QED
      BY <3>1, <3>2
  <2> QED
    BY <2>1, <2>2
<1> HIDE DEF a
<1>7. Becomes(a, c) /\ c.items = b.items
  BY <1>3, <1>4, <1>6, AssignedIsSound
<1> HIDE DEF c
<1> DEFINE old == a.p
<1>8. Sound(c) /\ c.p \in {old, NewBuffer} /\ (n \in SetNames => Distinct(c.items))
  BY <1>1, <1>3, <1>7 DEF Becomes
<1>9. /\ arrays' = [x \in Live \cup {n} |-> IF x = n THEN c ELSE arrays[x]]
      /\ heap' = (heap \ {old}) \cup {c.p}
      /\ \/ pool' = pool /\ old = NewBuffer
         \/ \E i \in DOMAIN pool : pool' = PoolWithout(i) /\ old = pool[i].p
  BY <1>2, <1>6
<1> HIDE DEF old
<1> QED
  BY <1>1, <1>8, <1>9, ArrayBegins

LEMMA DestroyKeeps ==
    ASSUME ContainersInv, NEW n \in Names, DestroyArray(n)
    PROVE  ContainersInv'
<1> DEFINE a == arrays[n]
           e == [p |-> a.p, max |-> a.max]
<1>1. n \in Live /\ arrays' = [m \in Live \ {n} |-> arrays[m]]
  BY DEF DestroyArray
<1>2. a \in ArrayType
  BY <1>1, SoundArrays
<1>3. e \in Entries
  BY <1>2 DEF ArrayType, Entries
<1>4. IsFiniteSet(heap) /\ heap = Pooled \cup Owned /\ OwnersDiffer
  BY DEF ContainersInv
<1>5. Live' = Live \ {n} /\ \A m \in Live' : arrays'[m] = arrays[m]
  BY <1>1 DEF Live
<1>6. IsFiniteSet(Live')
  BY <1>5, FS_RemoveElement DEF ContainersInv, ArraysSound
<1>7. ArraysSound'
  BY <1>5, <1>6 DEF ContainersInv, ArraysSound
<1>8. Owned' = Owned \ {a.p} /\ a.p \in Owned /\ a.p \notin Pooled
  <2>1. \A m \in Live : m # n => arrays[m].p # a.p
    BY <1>1, <1>4 DEF OwnersDiffer
  <2> QED
    BY <1>1, <1>4, <1>5, <2>1 DEF Owned, Pooled, OwnersDiffer
<1>9. CASE heap' = heap \ {a.p} /\ UNCHANGED pool
  <2>1. OwnersDiffer'
    BY <1>4, <1>5, <1>9 DEF OwnersDiffer
  <2>2. Pooled' = Pooled
    BY <1>9 DEF Pooled
  <2>3. IsFiniteSet(heap')
    BY <1>4, <1>9, FS_RemoveElement
  <2>4. heap' = (Pooled \cup Owned)'
    BY <1>4, <1>8, <1>9, <2>2
  <2> QED
    BY <1>7, <2>1, <2>3, <2>4 DEF ContainersInv
<1>10. CASE pool' = Append(pool, e) /\ UNCHANGED heap
  <2> DEFINE k == Len(pool)
  <2>1. /\ pool \in Seq(Entries) /\ k \in Nat /\ DOMAIN pool = 1 .. k
    BY <1>4 DEF OwnersDiffer
  <2>2. /\ pool' \in Seq(Entries) /\ DOMAIN pool' = 1 .. k + 1
        /\ pool'[k + 1] = e /\ \A i \in 1 .. k : pool'[i] = pool[i]
    BY <1>3, <1>10, <2>1
  <2> HIDE DEF k
  <2>3. 1 .. k + 1 = (1 .. k) \cup {k + 1}
    BY <2>1
  <2>4. e.p = a.p
    OBVIOUS
  <2>5. Pooled' = Pooled \cup {a.p}
    BY <2>1, <2>2, <2>3, <2>4 DEF Pooled
  <2>6. \A i \in 1 .. k : pool'[i].p # a.p
    BY <1>8, <2>1, <2>2 DEF Pooled
  <2> HIDE DEF e
  <2>7. \A i, j \in DOMAIN pool' : i # j => pool'[i].p # pool'[j].p
    BY <1>4, <2>1, <2>2, <2>3, <2>4, <2>6 DEF OwnersDiffer
  <2>8. \A m, x \in Live' : m # x => arrays'[m].p # arrays'[x].p
    BY <1>4, <1>5 DEF OwnersDiffer
  <2>9. \A i \in DOMAIN pool', m \in Live' : pool'[i].p # arrays'[m].p
    <3> SUFFICES ASSUME NEW i \in DOMAIN pool', NEW m \in Live' PROVE pool'[i].p # arrays'[m].p
      OBVIOUS
    <3>1. arrays'[m].p # a.p /\ m \in Live /\ arrays'[m] = arrays[m]
      BY <1>1, <1>4, <1>5 DEF OwnersDiffer
    <3>2. CASE i = k + 1
      BY <2>2, <2>4, <3>1, <3>2
    <3>3. CASE i \in 1 .. k
      BY <1>4, <2>1, <2>2, <3>1, <3>3 DEF OwnersDiffer
    <3> QED
      BY <2>2, <2>3, <3>2, <3>3
  <2>10. OwnersDiffer'
    BY <2>2, <2>7, <2>8, <2>9 DEF OwnersDiffer
  <2>11. heap' = (Pooled \cup Owned)'
    BY <1>4, <1>8, <1>10, <2>5
  <2> QED
    BY <1>4, <1>7, <1>10, <2>10, <2>11 DEF ContainersInv
<1> QED
  BY <1>9, <1>10 DEF DestroyArray

LEMMA ContainersInvNext ==
    ContainersInv /\ [ContainersNext]_containerVars => ContainersInv'
<1> SUFFICES ASSUME ContainersInv, [ContainersNext]_containerVars PROVE ContainersInv'
  OBVIOUS
<1>1. Live \subseteq Names /\ LiveLists \subseteq Live /\ LiveSets \subseteq Live
      /\ (\A n \in LiveSets : n \in SetNames) /\ (\A n \in LiveLists : n \notin SetNames)
  BY ContainersAssumption DEF ContainersInv, ArraysSound, LiveLists, LiveSets
<1>2. ASSUME ArrayOperation PROVE ContainersInv'
  <2>1. ASSUME NEW n \in Names,
               \/ ConstructEmpty(n)
               \/ \E size \in SizesAsked : ConstructSized(n, size)
               \/ \E m \in Names : ConstructCopy(n, m)
               \/ DestroyArray(n)
        PROVE  ContainersInv'
    BY <2>1, ConstructorsKeep, CopyKeeps, DestroyKeeps
  <2>2. ASSUME NEW n \in Live,
               \/ \E x \in Items : AddItem(n, x) \/ RemoveItem(n, x) \/ AssignItem(n, x)
               \/ Clear(n) \/ ClearAll(n) \/ Sort(n) \/ MakeUnique(n)
               \/ \E i \in 1 .. MaxItems : RemoveAtIndex(n, i)
        PROVE  ContainersInv'
    BY <2>2, OneOfTheItems, OneArray
  <2>3. ASSUME NEW n \in LiveLists, NEW m \in LiveLists,
               Assign(n, m) \/ Concatenate(n, m) \/ Merge(n, m) \/ Swap(n, m)
        PROVE  ContainersInv'
    <3>1. n \in Live /\ m \in Live /\ n \notin SetNames /\ m \notin SetNames
      BY <1>1
    <3> QED
      BY <2>3, <3>1, TwoArrays, SwapKeeps
  <2> QED
    BY <1>2, <2>1, <2>2, <2>3 DEF ArrayOperation
<1>3. ASSUME SetOperation PROVE ContainersInv'
  <2>1. ASSUME NEW n \in LiveSets, NEW m \in LiveSets,
               \/ Assign(n, m) \/ Union(n, m) \/ Difference(n, m) \/ Concatenate(n, m)
               \/ Swap(n, m) \/ Compare(n, m)
               \/ \E m1 \in LiveSets : Intersect(n, m1, m)
        PROVE  ContainersInv'
    <3>1. n \in Live /\ m \in Live /\ n \in SetNames /\ m \in SetNames
      BY <1>1
    <3> QED
      BY <2>1, <3>1, TwoArrays, SwapKeeps, CompareKeeps, IntersectKeeps
  <2> QED
    BY <1>3, <2>1, FromListKeeps DEF SetOperation
<1>4. ASSUME UNCHANGED containerVars PROVE ContainersInv'
  BY <1>4 DEF containerVars, ContainersInv, ArraysSound, OwnersDiffer, Owned, Pooled, Live
<1> QED
  BY <1>2, <1>3, <1>4 DEF ContainersNext

(* Whatever a program does with its arrays, sets and lists, each has room    *)
(* for its items and a true flag, and its buffer for itself.                 *)
THEOREM ContainersAreSound == ContainersSpec => []ContainersInv
<1> QED
  BY ContainersInvInit, ContainersInvNext, PTL DEF ContainersSpec

-----------------------------------------------------------------------------
(***************************************************************************)
(* What the invariant says in numbers.                                     *)
(***************************************************************************)
LEMMA AsManyAsPlaces ==
    ASSUME NEW s, NEW n \in Nat, DOMAIN s = 1 .. n, Distinct(s)
    PROVE  IsFiniteSet(ToSet(s)) /\ Cardinality(ToSet(s)) = n
<1> DEFINE T == ToSet(s)
           f == [i \in 1 .. n |-> s[i]]
<1>1. IsFiniteSet(1 .. n) /\ Cardinality(1 .. n) = n
  BY FS_Interval
<1>2. f \in Bijection(1 .. n, T)
  <2>1. f \in [1 .. n -> T]
    BY DEF ToSet
  <2>2. \A i, j \in 1 .. n : f[i] = f[j] => i = j
    BY DEF Distinct
  <2>3. \A t \in T : \E i \in 1 .. n : f[i] = t
    BY DEF ToSet
  <2>4. DOMAIN f = 1 .. n
    OBVIOUS
  <2> HIDE DEF f
  <2> QED
    BY <2>1, <2>2, <2>3, <2>4 DEF Bijection, Injection, Surjection, IsInjective
<1>3. ExistsBijection(1 .. n, T)
  BY <1>2 DEF ExistsBijection
<1> HIDE DEF T
<1> QED
  BY <1>1, <1>3, FS_Bijection DEF T

(* array.src: every buffer that is allocated has one owner, an array or an   *)
(* entry of the pool, through growth, copies, swaps and destruction.         *)
THEOREM BuffersHaveOneOwner == ContainersSpec => []OneOwner
<1>1. ContainersInv => OneOwner
  <2> SUFFICES ASSUME ContainersInv PROVE OneOwner
    OBVIOUS
  <2>1. heap = Pooled \cup Owned /\ IsFiniteSet(heap) /\ IsFiniteSet(Live)
    BY DEF ContainersInv, ArraysSound
  <2>2. Cardinality(Pooled) = Len(pool) /\ IsFiniteSet(Pooled) /\ Len(pool) \in Nat
    <3> DEFINE n == Len(pool)
               s == [i \in 1 .. n |-> pool[i].p]
    <3>1. n \in Nat /\ DOMAIN pool = 1 .. n
      BY ThePool
    <3> HIDE DEF n
    <3>2. DOMAIN s = 1 .. n /\ Distinct(s)
      BY <3>1 DEF Distinct, ContainersInv, OwnersDiffer
    <3>3. ToSet(s) = Pooled
      BY <3>1 DEF ToSet, Pooled
    <3> HIDE DEF s
    <3> QED
      BY <3>1, <3>2, <3>3, AsManyAsPlaces DEF n
  <2>3. Cardinality(Owned) = Cardinality(Live) /\ IsFiniteSet(Owned)
    <3> DEFINE f == [n \in Live |-> arrays[n].p]
    <3>1. f \in Bijection(Live, Owned)
      <4>1. f \in [Live -> Owned]
        BY DEF Owned
      <4>2. \A n, m \in Live : f[n] = f[m] => n = m
        BY DEF ContainersInv, OwnersDiffer
      <4>3. \A b \in Owned : \E n \in Live : f[n] = b
        BY DEF Owned
      <4>4. DOMAIN f = Live
        OBVIOUS
      <4> HIDE DEF f
      <4> QED
        BY <4>1, <4>2, <4>3, <4>4 DEF Bijection, Injection, Surjection, IsInjective
    <3>2. ExistsBijection(Live, Owned)
      BY <3>1 DEF ExistsBijection
    <3> QED
      BY <2>1, <3>2, FS_Bijection
  <2>4. Pooled \cap Owned = {}
    BY DEF ContainersInv, OwnersDiffer, Pooled, Owned
  <2>5. Cardinality(heap) = Len(pool) + Cardinality(Live)
    <3>1. Cardinality(heap) = Cardinality(Pooled) + Cardinality(Owned) - Cardinality({})
      BY <2>1, <2>2, <2>3, <2>4, FS_Union
    <3>2. Cardinality({}) = 0 /\ Cardinality(Live) \in Nat
      BY <2>1, FS_EmptySet, FS_CardinalityType
    <3> QED
      BY <2>2, <2>3, <3>1, <3>2
  <2>6. \A n \in Live : sz(arrays[n]) <= arrays[n].max /\ arrays[n].max > 0
    <3> SUFFICES ASSUME NEW n \in Live PROVE sz(arrays[n]) <= arrays[n].max /\ arrays[n].max > 0
      OBVIOUS
    <3>1. Sound(arrays[n]) /\ arrays[n] \in ArrayType
      BY SoundArrays
    <3> QED
      BY <3>1, Fields DEF Sound
  <2> QED
    BY <2>1, <2>5, <2>6 DEF OneOwner, Owned
<1> QED
  BY <1>1, ContainersAreSound, PTL

(* set.src and list.src: a set never has an item twice, and member() finds   *)
(* exactly what is there, by either search.                                  *)
THEOREM SetsStaySets == ContainersSpec => []SetsAreSets
<1>1. ContainersInv => SetsAreSets
  <2> SUFFICES ASSUME ContainersInv, NEW n \in Live
               PROVE  /\ n \in SetNames => Cardinality(ToSet(arrays[n].items)) = sz(arrays[n])
                      /\ \A x \in Items : member(arrays[n], x) > 0 <=> x \in ToSet(arrays[n].items)
    BY DEF SetsAreSets
  <2> DEFINE a == arrays[n]
             s == a.items
  <2>1. Sound(a) /\ (n \in SetNames => Distinct(s)) /\ a \in ArrayType
    BY SoundArrays
  <2>2. s \in Seq(Int) /\ sz(a) = Len(s) /\ sz(a) \in Nat
    BY <2>1, Fields
  <2> HIDE DEF a
  <2>3. DOMAIN s = 1 .. sz(a)
    BY <2>2, Indices
  <2>4. n \in SetNames => Cardinality(ToSet(s)) = sz(a)
    BY <2>1, <2>2, <2>3, AsManyAsPlaces
  <2>5. ASSUME NEW x \in Items PROVE member(a, x) > 0 <=> x \in ToSet(s)
    <3>1. x \in Int
      BY ContainersAssumption
    <3>2. member(a, x) > 0 <=> \E i \in 1 .. sz(a) : s[i] = x
      BY <2>1, <3>1, MemberFinds
    <3> QED
      BY <2>3, <3>2 DEF ToSet
  <2> QED
    BY <2>4, <2>5 DEF a
<1> QED
  BY <1>1, ContainersAreSound, PTL
=============================================================================

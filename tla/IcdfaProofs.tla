----------------------------- MODULE IcdfaProofs -----------------------------
(***************************************************************************)
(* Icdfa for any number of states and letters: a generator that enumerates *)
(* goes through the strings in their order and leaves none out.            *)
(*                                                                         *)
(* The order compares the first places of the states, then the digits.     *)
(* The invariant is that the flags are the first places of the string, so  *)
(* that between flags i and i + 1 no digit is above i.  A string follows   *)
(* the last of its flags (is_full) when all its digits are as high as they *)
(* can be, and then the next flags begin with the lowest digits.           *)
(***************************************************************************)
EXTENDS Icdfa, FiniteSetTheorems, NaturalsInduction, WellFoundedInduction, TLAPS

(* A set of naturals has a least element.                                    *)
LEMMA LeastOfNaturals ==
    ASSUME NEW T \in SUBSET Nat, T # {}
    PROVE  \E x \in T : \A y \in T : x <= y
<1>1. \E x \in T : \A y \in T : ~ (<<y, x>> \in OpToRel(<, Nat))
  BY NatLessThanWellFounded, WFMin, Zenon
<1>2. ASSUME NEW x \in Nat, NEW y \in Nat, x < y PROVE <<x, y>> \in OpToRel(<, Nat)
  <2>1. <<x, y>> \in Nat \X Nat /\ <<x, y>>[1] = x /\ <<x, y>>[2] = y
    OBVIOUS
  <2> QED
    BY <1>2, <2>1, Zenon DEF OpToRel
<1>3. \E x \in T : \A y \in T : ~ (y < x)
  BY <1>1, <1>2, Zenon
<1> QED
  BY <1>3

LEMMA MinOfNaturals ==
    ASSUME NEW T \in SUBSET Nat, T # {}
    PROVE  Min(T) \in T /\ \A y \in T : Min(T) <= y
BY LeastOfNaturals DEF Min

(* A set of integers with a bound has a greatest element.                    *)
LEMMA MaxOfBounded ==
    ASSUME NEW T \in SUBSET Int, T # {}, NEW b \in Int, \A x \in T : x <= b
    PROVE  Max(T) \in T /\ \A y \in T : y <= Max(T)
<1> DEFINE D == { b - x : x \in T }
<1>1. D \in SUBSET Nat /\ D # {}
  <2>1. \A x \in T : b - x \in Nat
    OBVIOUS
  <2> QED
    BY <2>1
<1>2. PICK d \in D : \A e \in D : d <= e
  BY <1>1, LeastOfNaturals
<1>3. PICK x \in T : d = b - x
  OBVIOUS
<1>4. \A y \in T : x >= y
  BY <1>2, <1>3
<1>5. Max(T) \in T /\ \A y \in T : Max(T) >= y
  BY <1>4 DEF Max
<1> QED
  BY <1>5

LEMMA SameFunction ==
    ASSUME NEW S, NEW R, NEW f \in [S -> R], NEW h \in [S -> R], \A x \in S : f[x] = h[x]
    PROVE  f = h
<1>1. f = [x \in S |-> f[x]] /\ h = [x \in S |-> h[x]]
  OBVIOUS
<1>2. [x \in S |-> f[x]] = [x \in S |-> h[x]]
  OBVIOUS
<1> QED
  BY <1>1, <1>2

LEMMA Multiples ==
    ASSUME NEW p \in Nat, NEW a \in Int, NEW b \in Int, a <= b
    PROVE  p * a <= p * b
OBVIOUS

-----------------------------------------------------------------------------
(***************************************************************************)
(* Strings and their flags.                                                *)
(***************************************************************************)
Sized(n, k) == n \in Nat /\ n >= 2 /\ k \in Nat \ {0}

(* The flags of a string are the first places of its states; state 0, which  *)
(* need not appear, has the place 0.                                         *)
Fits(s, f, n, k) ==
    /\ s \in [Places(n, k) -> 0 .. n - 1]
    /\ f \in [0 .. n - 1 -> Int]
    /\ f[0] = 0
    /\ \A i \in 1 .. n - 1 : f[i] \in 0 .. k * i - 1 /\ FirstAt(s, i, f[i])

LEMMA PlacesOfFlags ==
    ASSUME NEW n, NEW k, Sized(n, k)
    PROVE  /\ n * k \in Nat /\ n * k >= 2 /\ 0 \in Places(n, k)
           /\ Places(n, k) \in SUBSET Nat
           /\ \A x \in Places(n, k) : x <= n * k - 1 /\ \A y \in 0 .. x : y \in Places(n, k)
           /\ \A i \in 1 .. n - 1 : /\ k * i \in Nat /\ k * i >= 1 /\ k * (i + 1) - 1 > k * i - 1
                                    /\ \A x \in 0 .. k * i - 1 : x \in Places(n, k)
<1>1. n \in Nat /\ k \in Nat /\ n >= 2 /\ k >= 1
  BY DEF Sized
<1>2. n * k \in Nat /\ n * 1 <= n * k
  BY <1>1, Multiples
<1>3. ASSUME NEW i \in 1 .. n - 1
      PROVE  k * i \in Nat /\ k * 1 <= k * i /\ k * i <= k * n /\ k * (i + 1) = k * i + k
  BY <1>1, Multiples
<1>4. k * n = n * k
  BY <1>1
<1> DEFINE N == n * k
<1>5. N \in Nat /\ N >= 2 /\ Places(n, k) = 0 .. N - 1
  BY <1>1, <1>2 DEF Places
<1>6. ASSUME NEW i \in 1 .. n - 1
      PROVE  /\ k * i \in Nat /\ k * i >= 1 /\ k * (i + 1) - 1 > k * i - 1
             /\ \A x \in 0 .. k * i - 1 : x \in Places(n, k)
  <2>1. PICK m \in Int : m = k * i
    BY <1>3
  <2>2. m >= 1 /\ m <= N /\ k * (i + 1) = m + k
    BY <1>1, <1>3, <1>4, <2>1
  <2> HIDE DEF N
  <2>3. \A x \in 0 .. m - 1 : x \in 0 .. N - 1
    BY <1>5, <2>2
  <2> QED
    BY <1>1, <1>5, <2>1, <2>2, <2>3
<1> HIDE DEF N
<1>7. /\ 0 \in 0 .. N - 1 /\ 0 .. N - 1 \in SUBSET Nat
      /\ \A x \in 0 .. N - 1 : x <= N - 1 /\ \A y \in 0 .. x : y \in 0 .. N - 1
  BY <1>5
<1> QED
  BY <1>5, <1>6, <1>7 DEF N

(* A state has one first place.                                              *)
LEMMA OneFirstPlace ==
    ASSUME NEW n, NEW k, Sized(n, k), NEW s \in [Places(n, k) -> 0 .. n - 1],
           NEW i \in 1 .. n - 1, NEW x \in Places(n, k), NEW y \in Places(n, k),
           FirstAt(s, i, x), FirstAt(s, i, y)
    PROVE  x = y
<1>1. x \in Nat /\ y \in Nat /\ s[x] = i /\ s[y] = i
  BY PlacesOfFlags DEF FirstAt
<1>2. ~ (x < y)
  <2> SUFFICES ASSUME x < y PROVE FALSE
    OBVIOUS
  <2>1. x \in 0 .. y - 1
    BY <1>1
  <2>2. s[x] < i
    BY <2>1 DEF FirstAt
  <2> QED
    BY <1>1, <2>2
<1>3. ~ (y < x)
  <2> SUFFICES ASSUME y < x PROVE FALSE
    OBVIOUS
  <2>1. y \in 0 .. x - 1
    BY <1>1
  <2>2. s[y] < i
    BY <2>1 DEF FirstAt
  <2> QED
    BY <1>1, <2>2
<1> QED
  BY <1>1, <1>2, <1>3

LEMMA FlagFacts ==
    ASSUME NEW n, NEW k, Sized(n, k), NEW s, NEW f, Fits(s, f, n, k)
    PROVE  /\ \A x \in Places(n, k) : s[x] \in Nat /\ s[x] <= n - 1
           /\ f[0] = 0
           /\ \A i \in 1 .. n - 1 : /\ f[i] \in Nat /\ f[i] <= k * i - 1 /\ f[i] \in Places(n, k)
                                    /\ s[f[i]] = i
           /\ \A i, j \in 1 .. n - 1 : i < j => f[i] < f[j]
           /\ \A i \in 1 .. n - 1 : \A x \in Places(n, k) : x < f[i] => s[x] < i
           /\ Firsts(s, n, k) = [i \in 1 .. n - 1 |-> f[i]]
<1>1. n \in Nat /\ n >= 2 /\ s \in [Places(n, k) -> 0 .. n - 1]
  BY DEF Sized, Fits
<1>2. \A x \in Places(n, k) : s[x] \in Nat /\ s[x] <= n - 1
  BY <1>1
<1>3. ASSUME NEW i \in 1 .. n - 1
      PROVE  /\ f[i] \in Nat /\ f[i] <= k * i - 1 /\ f[i] \in Places(n, k)
             /\ s[f[i]] = i /\ FirstAt(s, i, f[i])
  <2>1. f[i] \in 0 .. k * i - 1 /\ FirstAt(s, i, f[i])
    BY DEF Fits
  <2>2. f[i] \in Places(n, k) /\ k * i \in Nat
    BY <2>1, PlacesOfFlags
  <2> QED
    BY <2>1, <2>2 DEF FirstAt
<1>4. ASSUME NEW i \in 1 .. n - 1, NEW x \in Places(n, k), x < f[i]
      PROVE  s[x] < i
  <2>1. x \in 0 .. f[i] - 1
    BY <1>3, <1>4, PlacesOfFlags
  <2> QED
    BY <1>3, <2>1 DEF FirstAt
<1>5. ASSUME NEW i \in 1 .. n - 1, NEW j \in 1 .. n - 1, i < j
      PROVE  f[i] < f[j]
  <2>1. f[i] \in Nat /\ f[j] \in Nat /\ s[f[i]] = i /\ s[f[j]] = j /\ f[j] \in Places(n, k)
    BY <1>3
  <2>2. f[i] # f[j]
    BY <1>5, <2>1
  <2>3. ~ (f[j] < f[i])
    <3> SUFFICES ASSUME f[j] < f[i] PROVE FALSE
      OBVIOUS
    <3>1. s[f[j]] < i
      BY <1>4, <2>1
    <3> QED
      BY <1>5, <2>1, <3>1
  <2> QED
    BY <2>1, <2>2, <2>3
<1>6. ASSUME NEW i \in 1 .. n - 1
      PROVE  (CHOOSE x \in Places(n, k) : FirstAt(s, i, x)) = f[i]
  <2> DEFINE c == CHOOSE x \in Places(n, k) : FirstAt(s, i, x)
  <2>1. f[i] \in Places(n, k) /\ FirstAt(s, i, f[i])
    BY <1>3
  <2>2. c \in Places(n, k) /\ FirstAt(s, i, c)
    BY <2>1
  <2> HIDE DEF c
  <2>3. c = f[i]
    BY <1>1, <2>1, <2>2, OneFirstPlace
  <2> QED
    BY <2>3 DEF c
<1>7. Firsts(s, n, k) = [i \in 1 .. n - 1 |-> f[i]]
  BY <1>6 DEF Firsts
<1>8. f[0] = 0
  BY DEF Fits
<1> QED
  BY <1>2, <1>3, <1>4, <1>5, <1>7, <1>8

LEMMA StringsFit ==
    ASSUME NEW n, NEW k, Sized(n, k), NEW t
    PROVE  t \in Strings(n, k) <=> \E h : Fits(t, h, n, k)
<1>1. ASSUME t \in Strings(n, k) PROVE \E h : Fits(t, h, n, k)
  <2> DEFINE h == [i \in 0 .. n - 1 |->
                      IF i = 0 THEN 0 ELSE CHOOSE x \in 0 .. k * i - 1 : FirstAt(t, i, x)]
  <2>1. /\ t \in [Places(n, k) -> 0 .. n - 1]
        /\ \A i \in 1 .. n - 1 : \E x \in 0 .. k * i - 1 : FirstAt(t, i, x)
    BY <1>1 DEF Strings
  <2>2. ASSUME NEW i \in 1 .. n - 1 PROVE h[i] \in 0 .. k * i - 1 /\ FirstAt(t, i, h[i])
    <3>1. h[i] = CHOOSE x \in 0 .. k * i - 1 : FirstAt(t, i, x)
      BY DEF Sized
    <3> QED
      BY <2>1, <3>1
  <2>3. h[0] = 0
    BY DEF Sized
  <2>4. h \in [0 .. n - 1 -> Int]
    <3>1. ASSUME NEW i \in 0 .. n - 1 PROVE h[i] \in Int
      <4>1. CASE i = 0
        BY <2>3, <4>1
      <4>2. CASE i # 0
        <5>1. i \in 1 .. n - 1
          BY <4>2 DEF Sized
        <5>2. h[i] \in 0 .. k * i - 1
          BY <2>2, <5>1
        <5> HIDE DEF h
        <5> QED
          BY <5>2
      <4> QED
        BY <4>1, <4>2
    <3> QED
      BY <3>1
  <2> HIDE DEF h
  <2> QED
    BY <2>1, <2>2, <2>3, <2>4 DEF Fits
<1>2. ASSUME NEW h, Fits(t, h, n, k) PROVE t \in Strings(n, k)
  BY <1>2 DEF Fits, Strings
<1> QED
  BY <1>1, <1>2

-----------------------------------------------------------------------------
(***************************************************************************)
(* The order, by what it compares.                                         *)
(***************************************************************************)
DigitBefore(s, t, n, k) ==
    \E x \in Places(n, k) : s[x] < t[x] /\ \A y \in Places(n, k) : y < x => s[y] = t[y]
FlagBefore(f, h, n) ==
    \E i \in 1 .. n - 1 : h[i] < f[i] /\ \A j \in 1 .. n - 1 : j < i => f[j] = h[j]

LEMMA Comparing ==
    ASSUME NEW n, NEW k, Sized(n, k), NEW s, NEW f, Fits(s, f, n, k), NEW t, NEW h, Fits(t, h, n, k)
    PROVE  Before(s, t, n, k) <=> IF f = h THEN DigitBefore(s, t, n, k) ELSE FlagBefore(f, h, n)
<1> DEFINE F == [i \in 1 .. n - 1 |-> f[i]]
           H == [i \in 1 .. n - 1 |-> h[i]]
<1>1. Firsts(s, n, k) = F /\ Firsts(t, n, k) = H
  BY FlagFacts
<1>2. n \in Nat /\ Places(n, k) \in SUBSET Nat
      /\ \A x \in Places(n, k) : s[x] \in Nat /\ t[x] \in Nat
  BY FlagFacts, PlacesOfFlags DEF Sized
<1>3. s \in [Places(n, k) -> 0 .. n - 1] /\ t \in [Places(n, k) -> 0 .. n - 1]
      /\ f \in [0 .. n - 1 -> Int] /\ h \in [0 .. n - 1 -> Int] /\ f[0] = 0 /\ h[0] = 0
  BY DEF Fits
<1>4. F = H <=> f = h
  <2> SUFFICES ASSUME F = H PROVE f = h
    OBVIOUS
  <2>1. \A i \in 1 .. n - 1 : f[i] = h[i]
    <3> SUFFICES ASSUME NEW i \in 1 .. n - 1 PROVE f[i] = h[i]
      OBVIOUS
    <3>1. F[i] = f[i] /\ H[i] = h[i]
      OBVIOUS
    <3> HIDE DEF F, H
    <3> QED
      BY <3>1
  <2>2. ASSUME NEW i \in 0 .. n - 1 PROVE f[i] = h[i]
    <3>1. CASE i = 0
      BY <1>3, <3>1
    <3>2. CASE i # 0
      <4>1. i \in 1 .. n - 1
        BY <1>2, <3>2
      <4> QED
        BY <2>1, <4>1
    <3> QED
      BY <3>1, <3>2
  <2> DEFINE I == 0 .. n - 1
  <2>3. f \in [I -> Int] /\ h \in [I -> Int] /\ \A i \in I : f[i] = h[i]
    BY <1>3, <2>2
  <2> HIDE DEF F, H, I
  <2> QED
    BY <2>3, SameFunction
<1>5. CASE f = h
  <2>1. Before(s, t, n, k) <=> s # t /\ s[Min(Differ(s, t))] < t[Min(Differ(s, t))]
    BY <1>1, <1>4, <1>5 DEF Before
  <2> DEFINE E == Differ(s, t)
             m == Min(E)
  <2>2. E = { x \in Places(n, k) : s[x] # t[x] }
    BY <1>3 DEF Differ
  <2>3. s # t <=> E # {}
    BY <1>3, <2>2
  <2>4. E # {} => m \in E /\ \A y \in E : m <= y
    <3>1. E \in SUBSET Nat
      BY <1>2, <2>2
    <3> HIDE DEF E
    <3> QED
      BY <3>1, MinOfNaturals
  <2> HIDE DEF m
  <2>5. ASSUME E # {}, s[m] < t[m] PROVE DigitBefore(s, t, n, k)
    <3>1. m \in Places(n, k) /\ \A y \in Places(n, k) : s[y] # t[y] => m <= y
      BY <2>2, <2>4, <2>5
    <3>2. \A y \in Places(n, k) : y < m => s[y] = t[y]
      BY <1>2, <3>1
    <3> QED
      BY <2>5, <3>1, <3>2 DEF DigitBefore
  <2>6. ASSUME DigitBefore(s, t, n, k) PROVE E # {} /\ s[m] < t[m]
    <3>1. PICK x \in Places(n, k) : s[x] < t[x] /\ \A y \in Places(n, k) : y < x => s[y] = t[y]
      BY <2>6 DEF DigitBefore
    <3>2. x \in E
      BY <1>2, <2>2, <3>1
    <3>3. m \in Places(n, k) /\ s[m] # t[m] /\ m <= x
      BY <2>2, <2>4, <3>2
    <3>4. m = x
      BY <1>2, <3>1, <3>3
    <3> QED
      BY <3>1, <3>2, <3>4
  <2> QED
    BY <1>5, <2>1, <2>3, <2>5, <2>6 DEF m
<1>6. CASE f # h
  <2>1. Before(s, t, n, k) <=> F[Min(Differ(F, H))] > H[Min(Differ(F, H))]
    BY <1>1, <1>4, <1>6 DEF Before
  <2> DEFINE E == Differ(F, H)
             m == Min(E)
  <2>2. E = { i \in 1 .. n - 1 : f[i] # h[i] }
    BY DEF Differ
  <2>3. E # {}
    <3> DEFINE I == 0 .. n - 1
    <3>0. f \in [I -> Int] /\ h \in [I -> Int]
      BY <1>3
    <3> HIDE DEF I
    <3>1. PICK i \in I : f[i] # h[i]
      BY <1>6, <3>0, SameFunction
    <3> USE DEF I
    <3>2. i # 0
      BY <1>3, <3>1
    <3>3. i \in 1 .. n - 1
      BY <1>2, <3>2
    <3> QED
      BY <2>2, <3>1, <3>3
  <2>4. m \in E /\ \A y \in E : m <= y
    <3>1. E \in SUBSET Nat
      BY <1>2, <2>2
    <3> HIDE DEF E
    <3> QED
      BY <2>3, <3>1, MinOfNaturals
  <2> HIDE DEF m
  <2>5. m \in 1 .. n - 1 /\ f[m] # h[m] /\ \A j \in 1 .. n - 1 : j < m => f[j] = h[j]
    <3>1. m \in 1 .. n - 1 /\ f[m] # h[m] /\ \A j \in 1 .. n - 1 : f[j] # h[j] => m <= j
      <4> HIDE DEF E
      <4> QED
        BY <2>2, <2>4
    <3> QED
      BY <1>2, <3>1
  <2>6. F[m] = f[m] /\ H[m] = h[m] /\ f[m] \in Int /\ h[m] \in Int
    <3>1. m \in 0 .. n - 1
      BY <1>2, <2>5
    <3> QED
      BY <1>3, <2>5, <3>1
  <2> HIDE DEF E, F, H
  <2>7. ASSUME FlagBefore(f, h, n) PROVE h[m] < f[m]
    <3>1. PICK i \in 1 .. n - 1 : h[i] < f[i] /\ \A j \in 1 .. n - 1 : j < i => f[j] = h[j]
      BY <2>7 DEF FlagBefore
    <3>2. f[i] # h[i]
      BY <1>2, <1>3, <3>1
    <3>3. m = i
      BY <1>2, <2>5, <3>1, <3>2
    <3> QED
      BY <3>1, <3>3
  <2>8. ASSUME h[m] < f[m] PROVE FlagBefore(f, h, n)
    BY <2>5, <2>8 DEF FlagBefore
  <2> QED
    BY <1>6, <2>1, <2>6, <2>7, <2>8 DEF m, E
<1> QED
  BY <1>5, <1>6

-----------------------------------------------------------------------------
(***************************************************************************)
(* The segment of a place: no digit is above it.                           *)
(***************************************************************************)
LEMMA SegmentFacts ==
    ASSUME NEW gen, Sized(gen.n, gen.k), NEW t, Fits(t, gen.flags, gen.n, gen.k),
           NEW x \in Places(gen.n, gen.k)
    PROVE  /\ Segment(gen, x) \in 0 .. gen.n - 1
           /\ t[x] <= Segment(gen, x)
           /\ t[gen.flags[Segment(gen, x)]] = Segment(gen, x)
           /\ gen.flags[Segment(gen, x)] <= x
           /\ Segment(gen, x) + 1 \in 1 .. gen.n - 1 => x < gen.flags[Segment(gen, x) + 1]
           /\ \A i \in 1 .. gen.n - 1 : x < gen.flags[i] => Segment(gen, x) < i
<1> DEFINE n == gen.n
           k == gen.k
           f == gen.flags
           j == Segment(gen, x)
           T == { i \in 0 .. n - 1 : f[i] <= x }
<1>1. j = Max(T)
  BY DEF Segment
<1> HIDE DEF n, k, f, j
<1>2. Sized(n, k) /\ Fits(t, f, n, k) /\ x \in Places(n, k) /\ n \in Nat /\ n >= 2
  BY DEF n, k, f, Sized
<1>3. x \in Nat /\ 0 \in Places(n, k)
  BY <1>2, PlacesOfFlags
<1>4. f[0] = 0 /\ \A i \in 1 .. n - 1 : f[i] \in Nat
  BY <1>2, FlagFacts
<1>5. j \in T /\ \A i \in T : i <= j
  <2>1. 0 \in T /\ T \in SUBSET Int /\ \A i \in T : i <= n - 1
    BY <1>2, <1>3, <1>4
  <2>2. n - 1 \in Int
    BY <1>2
  <2> HIDE DEF T
  <2> QED
    BY <1>1, <2>1, <2>2, MaxOfBounded
<1>6. j \in 0 .. n - 1 /\ f[j] <= x
  BY <1>5
<1>7. ASSUME NEW i \in 1 .. n - 1, x < f[i] PROVE j < i
  <2>1. CASE j = 0
    BY <2>1
  <2>2. CASE j # 0
    <3>1. j \in 1 .. n - 1
      BY <1>6, <2>2
    <3>2. i < j => f[i] < f[j]
      BY <1>2, <3>1, FlagFacts
    <3>3. f[i] \in Nat /\ f[j] \in Nat
      BY <1>4, <3>1
    <3>4. ~ (i = j) /\ ~ (i < j)
      BY <1>3, <1>6, <1>7, <3>2, <3>3
    <3> QED
      BY <3>1, <3>4
  <2> QED
    BY <2>1, <2>2
<1>8. j + 1 \in 1 .. n - 1 => x < f[j + 1]
  <2> SUFFICES ASSUME j + 1 \in 1 .. n - 1 PROVE x < f[j + 1]
    OBVIOUS
  <2>1. j + 1 \notin T
    <3>1. ~ (j + 1 <= j)
      BY <1>6
    <3> HIDE DEF T
    <3> QED
      BY <1>5, <3>1
  <2>2. f[j + 1] \in Nat /\ j + 1 \in 0 .. n - 1
    BY <1>4
  <2> QED
    BY <1>3, <2>1, <2>2
<1>9. t[x] <= j
  <2>1. t[x] \in Nat /\ t[x] <= n - 1
    BY <1>2, FlagFacts
  <2>2. CASE j = n - 1
    BY <1>2, <2>1, <2>2
  <2>3. CASE j # n - 1
    <3>1. j + 1 \in 1 .. n - 1
      BY <1>2, <1>6, <2>3
    <3>2. t[x] < j + 1
      BY <1>2, <1>8, <3>1, FlagFacts
    <3> QED
      BY <1>6, <2>1, <3>2
  <2> QED
    BY <2>2, <2>3
<1>10. t[f[j]] = j
  <2>1. CASE j = 0
    <3>1. 1 \in 1 .. n - 1 /\ x < f[1]
      BY <1>2, <1>8, <2>1
    <3>2. 0 < f[1]
      BY <1>3, <1>4, <3>1
    <3>3. t[0] < 1 /\ t[0] \in Nat
      BY <1>2, <1>3, <3>1, <3>2, FlagFacts
    <3> QED
      BY <1>4, <2>1, <3>3
  <2>2. CASE j # 0
    <3>1. j \in 1 .. n - 1
      BY <1>6, <2>2
    <3> QED
      BY <1>2, <3>1, FlagFacts
  <2> QED
    BY <2>1, <2>2
<1> QED
  BY <1>6, <1>7, <1>8, <1>9, <1>10 DEF n, f, k, j

-----------------------------------------------------------------------------
(* The segment of a place, from the flags around it.                         *)
LEMMA SegmentIs ==
    ASSUME NEW gen, Sized(gen.n, gen.k), NEW t, Fits(t, gen.flags, gen.n, gen.k),
           NEW x \in Places(gen.n, gen.k), NEW j \in 1 .. gen.n - 1,
           gen.flags[j] <= x, j + 1 \in 1 .. gen.n - 1 => x < gen.flags[j + 1]
    PROVE  Segment(gen, x) = j
<1> DEFINE n == gen.n
           f == gen.flags
           m == Segment(gen, x)
<1>1. n \in Nat /\ n >= 2
  BY DEF Sized
<1>2. /\ m \in 0 .. n - 1 /\ f[m] <= x
      /\ m + 1 \in 1 .. n - 1 => x < f[m + 1]
      /\ \A i \in 1 .. n - 1 : x < f[i] => m < i
  BY SegmentFacts
<1>3. /\ \A i \in 1 .. n - 1 : f[i] \in Nat
      /\ \A i, l \in 1 .. n - 1 : i < l => f[i] < f[l]
      /\ x \in Nat
  BY FlagFacts, PlacesOfFlags
<1>4. j \in 1 .. n - 1 /\ f[j] <= x /\ (j + 1 \in 1 .. n - 1 => x < f[j + 1])
  OBVIOUS
<1> HIDE DEF n, f, m
<1>5. m <= j
  <2>1. CASE j = n - 1
    BY <1>1, <1>2, <2>1
  <2>2. CASE j # n - 1
    <3>1. j + 1 \in 1 .. n - 1
      BY <1>1, <1>4, <2>2
    <3> QED
      BY <1>2, <1>4, <3>1
  <2> QED
    BY <2>1, <2>2
<1>6. ~ (m < j)
  <2> SUFFICES ASSUME m < j PROVE FALSE
    OBVIOUS
  <2>1. m + 1 \in 1 .. n - 1 /\ (m + 1 = j \/ m + 1 < j)
    BY <1>1, <1>2, <1>4
  <2>2. x < f[m + 1]
    BY <1>2, <2>1
  <2>3. f[m + 1] <= f[j] /\ f[m + 1] \in Nat /\ f[j] \in Nat
    BY <1>3, <1>4, <2>1
  <2> QED
    BY <1>3, <1>4, <2>2, <2>3
<1>7. m = j
  BY <1>1, <1>2, <1>4, <1>5, <1>6
<1> QED
  BY <1>7 DEF m

(* is_full: every digit is as high as its segment.                           *)
LEMMA FullIsHighest ==
    ASSUME NEW gen, Sized(gen.n, gen.k), Fits(gen.s, gen.flags, gen.n, gen.k)
    PROVE  is_full(gen) <=> \A x \in Places(gen.n, gen.k) : gen.s[x] = Segment(gen, x)
<1> DEFINE n == gen.n
           k == gen.k
           f == gen.flags
           s == gen.s
           P == Places(n, k)
           Seg(x) == Segment(gen, x)
<1>1. Sized(n, k) /\ n \in Nat /\ n >= 2 /\ n * k \in Nat /\ P = 0 .. n * k - 1
  BY PlacesOfFlags DEF Sized, Places
<1>2. /\ \A i \in 1 .. n - 1 : f[i] \in P /\ f[i] \in Nat /\ s[f[i]] = i
      /\ \A i, l \in 1 .. n - 1 : i < l => f[i] < f[l]
      /\ \A x \in P : s[x] \in Nat
  BY FlagFacts
<1>3. ASSUME NEW x \in P
      PROVE  /\ Seg(x) \in 0 .. n - 1 /\ s[x] <= Seg(x) /\ f[Seg(x)] <= x /\ s[f[Seg(x)]] = Seg(x)
             /\ Seg(x) + 1 \in 1 .. n - 1 => x < f[Seg(x) + 1]
  BY SegmentFacts
<1>4. ASSUME NEW x \in P, NEW j \in 1 .. n - 1, f[j] <= x, j + 1 \in 1 .. n - 1 => x < f[j + 1]
      PROVE  Seg(x) = j
  BY <1>4, SegmentIs
<1>5. is_full(gen) <=>
          /\ \A j \in 1 .. n - 2 : \A x \in f[j] + 1 .. f[j + 1] - 1 : s[x] = j
          /\ \A x \in f[n - 1] .. n * k - 1 : s[x] = n - 1
  BY DEF is_full
<1> DEFINE N == n * k
           last == f[n - 1]
<1>6. N \in Nat /\ P = 0 .. N - 1 /\ n - 1 \in 1 .. n - 1 /\ last \in Nat /\ s[last] = n - 1
  BY <1>1, <1>2
<1>7. is_full(gen) <=>
          /\ \A j \in 1 .. n - 2 : \A x \in f[j] + 1 .. f[j + 1] - 1 : s[x] = j
          /\ \A x \in last .. N - 1 : s[x] = n - 1
  BY <1>5
<1> HIDE DEF n, k, f, s, P, Seg, N
<1>8. ASSUME \A x \in P : s[x] = Seg(x) PROVE is_full(gen)
  <2>1. ASSUME NEW j \in 1 .. n - 2, NEW x \in f[j] + 1 .. f[j + 1] - 1 PROVE s[x] = j
    <3>1. j \in 1 .. n - 1 /\ j + 1 \in 1 .. n - 1
      BY <1>1
    <3>2. f[j] \in Nat /\ f[j + 1] \in Nat /\ f[j + 1] \in P
      BY <1>2, <3>1
    <3>3. x \in Int /\ f[j] <= x /\ x < f[j + 1]
      BY <3>2
    <3>4. x \in P
      BY <1>6, <3>2, <3>3
    <3>5. Seg(x) = j
      BY <1>4, <3>1, <3>3, <3>4
    <3> QED
      BY <1>8, <3>4, <3>5
  <2>2. ASSUME NEW x \in last .. N - 1 PROVE s[x] = n - 1
    <3>1. x \in P /\ last <= x
      BY <1>6
    <3>2. ~ (n - 1 + 1 \in 1 .. n - 1)
      BY <1>1
    <3>3. Seg(x) = n - 1
      BY <1>4, <1>6, <3>1, <3>2
    <3> QED
      BY <1>8, <3>1, <3>3
  <2> QED
    BY <1>7, <2>1, <2>2
<1>9. ASSUME is_full(gen), NEW x \in P PROVE s[x] = Seg(x)
  <2> DEFINE j == Seg(x)
  <2>1. /\ j \in 0 .. n - 1 /\ s[x] <= j /\ f[j] <= x /\ s[f[j]] = j
        /\ j + 1 \in 1 .. n - 1 => x < f[j + 1]
    BY <1>3
  <2>2. x \in Nat /\ s[x] \in Nat /\ x <= N - 1
    BY <1>2, <1>6
  <2> HIDE DEF j
  <2>3. CASE j = 0
    BY <2>1, <2>2, <2>3 DEF j
  <2>4. CASE j = n - 1
    <3>1. x \in last .. N - 1
      BY <1>6, <2>1, <2>2, <2>4
    <3> QED
      BY <1>7, <1>9, <2>4, <3>1 DEF j
  <2>5. CASE j # 0 /\ j # n - 1
    <3>1. j \in 1 .. n - 2 /\ j \in 1 .. n - 1 /\ j + 1 \in 1 .. n - 1
      BY <1>1, <2>1, <2>5
    <3>2. f[j] \in Nat /\ f[j + 1] \in Nat /\ x < f[j + 1]
      BY <1>2, <2>1, <3>1
    <3>3. CASE x = f[j]
      BY <2>1, <3>3 DEF j
    <3>4. CASE x # f[j]
      <4>1. x \in f[j] + 1 .. f[j + 1] - 1
        BY <2>1, <2>2, <3>2, <3>4
      <4> QED
        BY <1>7, <1>9, <3>1, <4>1 DEF j
    <3> QED
      BY <3>3, <3>4
  <2> QED
    BY <2>3, <2>4, <2>5
<1> QED
  BY <1>8, <1>9 DEF P, n, k, s, Seg

(***************************************************************************)
(* next_icdfa: the string that follows with the same flags.                *)
(***************************************************************************)
LEMMA NextDigits ==
    ASSUME NEW gen, Sized(gen.n, gen.k), Fits(gen.s, gen.flags, gen.n, gen.k), ~ is_full(gen)
    PROVE  LET u == next_icdfa(gen)
           IN  /\ Fits(u, gen.flags, gen.n, gen.k)
               /\ DigitBefore(gen.s, u, gen.n, gen.k)
               /\ \A t : Fits(t, gen.flags, gen.n, gen.k)
                            => ~ (DigitBefore(gen.s, t, gen.n, gen.k) /\ DigitBefore(t, u, gen.n, gen.k))
<1> DEFINE n == gen.n
           k == gen.k
           f == gen.flags
           s == gen.s
           P == Places(n, k)
           Seg(x) == Segment(gen, x)
           free == { x \in P : ~ Flagged(gen, x) }
           low == { y \in free : s[y] # s[f[Seg(y)]] }
           x0 == Max(low)
           u == next_icdfa(gen)
<1>1. Sized(n, k) /\ Fits(s, f, n, k) /\ n \in Nat /\ n >= 2
  BY DEF Sized
<1>2. /\ P \in SUBSET Nat /\ n * k \in Nat /\ \A x \in P : x <= n * k - 1
      /\ \A x \in P : \A y \in 0 .. x : y \in P
  BY <1>1, PlacesOfFlags
<1>3. \A x \in P : s[x] \in Nat /\ s[x] <= n - 1
  BY <1>1, FlagFacts
<1>4. \A i \in 1 .. n - 1 : f[i] \in P /\ f[i] \in Nat /\ s[f[i]] = i
  BY <1>1, FlagFacts
<1>5. ASSUME NEW x \in P
      PROVE  /\ Seg(x) \in 0 .. n - 1 /\ s[f[Seg(x)]] = Seg(x) /\ s[x] <= Seg(x)
             /\ \A i \in 1 .. n - 1 : x < f[i] => Seg(x) < i
  BY <1>1, SegmentFacts
<1>6. \A x \in P : Flagged(gen, x) <=> \E i \in 1 .. n - 1 : f[i] = x
  BY DEF Flagged
<1>7. \A t, x : Fits(t, f, n, k) /\ x \in P =>
            /\ t[x] \in Nat /\ t[x] <= Seg(x)
            /\ x \notin free => t[x] = s[x]
  <2> SUFFICES ASSUME NEW t, Fits(t, f, n, k), NEW x \in P
               PROVE  t[x] \in Nat /\ t[x] <= Seg(x) /\ (x \notin free => t[x] = s[x])
    OBVIOUS
  <2>1. t[x] \in Nat
    BY <1>1, FlagFacts
  <2>2. t[x] <= Seg(x)
    BY <1>1, SegmentFacts
  <2>3. ASSUME x \notin free PROVE t[x] = s[x]
    <3>1. PICK i \in 1 .. n - 1 : f[i] = x
      BY <1>6, <2>3
    <3>2. t[f[i]] = i
      BY <1>1, FlagFacts
    <3> QED
      BY <1>4, <3>1, <3>2
  <2> QED
    BY <2>1, <2>2, <2>3
<1>8. \A x \in P : x \notin free => s[x] = Seg(x)
  <2> SUFFICES ASSUME NEW x \in P, x \notin free PROVE s[x] = Seg(x)
    OBVIOUS
  <2>1. PICK i \in 1 .. n - 1 : f[i] = x
    BY <1>6
  <2>2. i + 1 \in 1 .. n - 1 => x < f[i + 1]
    <3>1. i + 1 \in 1 .. n - 1 => f[i] < f[i + 1]
      <4>1. i < i + 1
        BY <1>1
      <4> QED
        BY <1>1, <4>1, FlagFacts
    <3> QED
      BY <2>1, <3>1
  <2>3. f[i] <= x
    BY <1>4, <2>1
  <2>4. Seg(x) = i
    BY <1>1, <2>2, <2>3, SegmentIs
  <2> QED
    BY <1>4, <2>1, <2>4
<1>9. \E x \in low : TRUE
  <2>1. PICK x \in P : s[x] # Seg(x)
    BY FullIsHighest
  <2>2. x \in free
    BY <1>8, <2>1
  <2>3. s[f[Seg(x)]] = Seg(x)
    BY <1>5
  <2>4. x \in low
    BY <2>1, <2>2, <2>3
  <2> QED
    BY <2>4
<1>10. x0 \in low /\ \A y \in low : y <= x0
  <2>1. low \in SUBSET Int /\ n * k - 1 \in Int /\ low # {} /\ \A y \in low : y <= n * k - 1
    BY <1>2, <1>9
  <2> HIDE DEF low
  <2> QED
    BY <2>1, MaxOfBounded
<1>11. x0 \in P /\ x0 \in free /\ s[x0] # Seg(x0)
  BY <1>5, <1>10
<1>12. \A y \in P : s[y] < Seg(y) => y <= x0
  <2> SUFFICES ASSUME NEW y \in P, s[y] < Seg(y) PROVE y <= x0
    OBVIOUS
  <2>1. y \in free
    BY <1>3, <1>5, <1>8
  <2>2. s[y] # s[f[Seg(y)]]
    BY <1>3, <1>5
  <2> QED
    BY <1>10, <2>1, <2>2
<1>13. u = [y \in P |-> IF y \notin free \/ y < x0 THEN s[y] ELSE IF y = x0 THEN s[y] + 1 ELSE 0]
  BY DEF next_icdfa
<1> HIDE DEF x0, low, u
<1>14. \A y \in P : /\ y \notin free \/ y < x0 => u[y] = s[y]
                    /\ y = x0 => u[y] = s[y] + 1
                    /\ y \in free => y < x0 \/ y = x0 \/ u[y] = 0
  <2>1. x0 \in Nat
    BY <1>2, <1>11
  <2> HIDE DEF free, s, P
  <2> QED
    BY <1>2, <1>11, <1>13, <2>1
<1> HIDE DEF free, Seg, P
<1>15. u \in [P -> 0 .. n - 1]
  <2>1. ASSUME NEW y \in P PROVE u[y] \in 0 .. n - 1
    <3>1. s[x0] + 1 \in 0 .. n - 1
      BY <1>1, <1>3, <1>5, <1>11
    <3>2. u[y] = s[y] \/ u[y] = s[x0] + 1 \/ u[y] = 0
      BY <1>14
    <3> QED
      BY <1>1, <1>3, <3>1, <3>2
  <2> QED
    BY <1>13, <2>1
<1>16. ASSUME NEW i \in 1 .. n - 1 PROVE f[i] \in 0 .. k * i - 1 /\ FirstAt(u, i, f[i])
  <2>1. f[i] \in 0 .. k * i - 1 /\ FirstAt(s, i, f[i]) /\ f[i] \in P /\ s[f[i]] = i
    BY <1>1, <1>4 DEF Fits
  <2>2. f[i] \notin free
    BY <1>6, <2>1 DEF free
  <2>3. u[f[i]] = i
    BY <1>14, <2>1, <2>2
  <2>4. ASSUME NEW y \in 0 .. f[i] - 1 PROVE u[y] < i
    <3>1. y \in P /\ y < f[i]
      BY <1>2, <1>4, <2>1
    <3>2. s[y] < i /\ Seg(y) < i
      <4>1. s[y] < i
        BY <2>1 DEF FirstAt
      <4> QED
        BY <1>5, <3>1, <4>1
    <3>3. CASE y = x0
      <4>1. u[y] = s[y] + 1 /\ s[y] # Seg(y) /\ s[y] <= Seg(y) /\ Seg(y) \in Int /\ s[y] \in Int
        BY <1>3, <1>5, <1>11, <1>14, <3>1, <3>3
      <4> QED
        BY <3>2, <4>1
    <3>4. CASE y # x0
      <4>1. u[y] = s[y] \/ u[y] = 0
        BY <1>14, <3>1, <3>4
      <4> QED
        BY <3>2, <4>1
    <3> QED
      BY <3>3, <3>4
  <2> QED
    BY <2>1, <2>3, <2>4 DEF FirstAt
<1>17. Fits(u, f, n, k)
  <2>1. f \in [0 .. n - 1 -> Int] /\ f[0] = 0
    BY <1>1 DEF Fits
  <2> QED
    BY <1>15, <1>16, <2>1 DEF Fits, P
<1>18. DigitBefore(s, u, n, k)
  <2>1. s[x0] < u[x0]
    BY <1>3, <1>11, <1>14
  <2>2. \A y \in P : y < x0 => s[y] = u[y]
    BY <1>14
  <2> QED
    BY <1>11, <2>1, <2>2 DEF DigitBefore, P
<1>19. ASSUME NEW t, Fits(t, f, n, k), DigitBefore(s, t, n, k), DigitBefore(t, u, n, k) PROVE FALSE
  <2>1. PICK p \in P : s[p] < t[p] /\ \A y \in P : y < p => s[y] = t[y]
    BY <1>19 DEF DigitBefore, P
  <2>2. PICK q \in P : t[q] < u[q] /\ \A y \in P : y < q => t[y] = u[y]
    BY <1>19 DEF DigitBefore, P
  <2>3. p \in Nat /\ q \in Nat /\ x0 \in Nat
    BY <1>2, <1>11
  <2>4. t[p] \in Nat /\ t[q] \in Nat /\ t[x0] \in Nat /\ t[p] <= Seg(p)
    BY <1>7, <1>11, <1>19
  <2>5. s[p] \in Nat /\ s[q] \in Nat /\ s[x0] \in Nat /\ Seg(p) \in Int
    BY <1>3, <1>5, <1>11
  <2>6. p <= x0
    BY <1>12, <2>1, <2>4, <2>5
  <2>7. CASE p < x0
    <3>1. u[p] = s[p]
      BY <1>14, <2>7
    <3>2. q <= p
      BY <2>1, <2>2, <2>3, <2>4, <2>5, <3>1
    <3>3. u[q] = s[q]
      BY <1>14, <2>3, <2>7, <3>2
    <3>4. q # p
      BY <2>1, <2>2, <2>4, <2>5, <3>1
    <3>5. s[q] = t[q]
      BY <2>1, <2>3, <3>2, <3>4
    <3> QED
      BY <2>2, <2>4, <3>3, <3>5
  <2>8. CASE p = x0
    <3>1. CASE q < x0
      <4>1. u[q] = s[q] /\ s[q] = t[q]
        BY <1>14, <2>1, <2>8, <3>1
      <4> QED
        BY <2>2, <2>4, <4>1
    <3>2. CASE q = x0
      <4>1. u[q] = s[q] + 1
        BY <1>14, <3>2
      <4> QED
        BY <2>1, <2>2, <2>4, <2>5, <2>8, <3>2, <4>1
    <3>3. CASE q > x0
      <4>1. CASE q \in free
        <5>1. u[q] = 0
          BY <1>14, <2>3, <3>3, <4>1
        <5> QED
          BY <2>2, <2>4, <5>1
      <4>2. CASE q \notin free
        <5>1. u[q] = s[q] /\ t[q] = s[q]
          BY <1>7, <1>14, <1>19, <4>2
        <5> QED
          BY <2>2, <2>5, <5>1
      <4> QED
        BY <4>1, <4>2
    <3> QED
      BY <2>3, <3>1, <3>2, <3>3
  <2> QED
    BY <2>3, <2>6, <2>7, <2>8
<1> QED
  BY <1>17, <1>18, <1>19 DEF u

-----------------------------------------------------------------------------
(***************************************************************************)
(* reset: the lowest string of the flags.                                  *)
(***************************************************************************)
FlagsFit(h, n, k) ==
    /\ h \in [0 .. n - 1 -> Int]
    /\ h[0] = 0
    /\ \A i \in 1 .. n - 1 : h[i] \in 0 .. k * i - 1
    /\ \A i, j \in 1 .. n - 1 : i < j => h[i] < h[j]

LEMMA FirstStringFits ==
    ASSUME NEW n, NEW k, Sized(n, k), NEW h, FlagsFit(h, n, k)
    PROVE  /\ Fits(FirstString(n, k, h), h, n, k)
           /\ \A x \in Places(n, k) : (\A i \in 1 .. n - 1 : h[i] # x) => FirstString(n, k, h)[x] = 0
<1> DEFINE u == FirstString(n, k, h)
           P == Places(n, k)
           I(x) == { i \in 0 .. n - 1 : h[i] = x }
<1>1. n \in Nat /\ n >= 2 /\ P \in SUBSET Nat
  BY PlacesOfFlags DEF Sized
<1>2. u = [x \in P |-> IF I(x) = {} THEN 0 ELSE Max(I(x))]
  BY DEF FirstString
<1>3. /\ h \in [0 .. n - 1 -> Int] /\ h[0] = 0
      /\ \A i \in 1 .. n - 1 : h[i] \in 0 .. k * i - 1
      /\ \A i, j \in 1 .. n - 1 : i < j => h[i] < h[j]
  BY DEF FlagsFit
<1>4. \A i \in 1 .. n - 1 : h[i] \in P /\ h[i] \in Nat /\ k * i \in Nat
  BY <1>3, PlacesOfFlags
<1> HIDE DEF u, P
<1>5. ASSUME NEW i \in 1 .. n - 1, NEW j \in 0 .. n - 1, h[j] = h[i] PROVE j <= i
  <2>1. CASE j = 0
    BY <2>1
  <2>2. CASE j # 0
    <3>1. j \in 1 .. n - 1 /\ ~ (h[i] < h[j]) /\ ~ (h[j] < h[i])
      BY <1>4, <1>5, <2>2
    <3>2. ~ (i < j)
      BY <1>3, <3>1
    <3> QED
      BY <3>1, <3>2
  <2> QED
    BY <2>1, <2>2
<1>6. ASSUME NEW i \in 1 .. n - 1 PROVE u[h[i]] = i
  <2> DEFINE T == I(h[i])
  <2>1. T \in SUBSET Int /\ i \in T /\ \A j \in T : j <= i
    BY <1>1, <1>5
  <2>2. u[h[i]] = Max(T)
    BY <1>2, <1>4, <2>1
  <2> HIDE DEF T
  <2>3. Max(T) \in T /\ i <= Max(T)
    BY <2>1, MaxOfBounded
  <2>4. Max(T) = i
    <3> DEFINE m == Max(T)
    <3>1. m \in Int /\ m <= i /\ i <= m
      BY <2>1, <2>3
    <3> HIDE DEF m
    <3>2. m = i
      BY <3>1
    <3> QED
      BY <3>2 DEF m
  <2> QED
    BY <2>2, <2>4
<1>7. ASSUME NEW x \in P, \A i \in 1 .. n - 1 : h[i] # x PROVE u[x] = 0
  <2> DEFINE T == I(x)
  <2>1. \A j \in T : j = 0
    <3> SUFFICES ASSUME NEW j \in 0 .. n - 1, h[j] = x PROVE j = 0
      OBVIOUS
    <3>1. ~ (j \in 1 .. n - 1)
      BY <1>7
    <3> QED
      BY <1>1, <3>1
  <2>2. u[x] = IF T = {} THEN 0 ELSE Max(T)
    BY <1>2
  <2> HIDE DEF T
  <2>3. T # {} => Max(T) \in T
    <3>1. T \in SUBSET Int /\ \A j \in T : j <= 0
      BY <2>1
    <3> QED
      BY <3>1, MaxOfBounded
  <2> QED
    BY <2>1, <2>2, <2>3
<1>8. u \in [P -> 0 .. n - 1]
  <2>1. ASSUME NEW x \in P PROVE u[x] \in 0 .. n - 1
    <3>1. CASE \E i \in 1 .. n - 1 : h[i] = x
      BY <1>1, <1>6, <3>1
    <3>2. CASE ~ \E i \in 1 .. n - 1 : h[i] = x
      BY <1>1, <1>7, <3>2
    <3> QED
      BY <3>1, <3>2
  <2>2. u = [x \in P |-> u[x]]
    <3>1. u = [x \in DOMAIN u |-> u[x]] /\ DOMAIN u = P
      BY <1>2
    <3> QED
      BY <3>1
  <2> QED
    BY <2>1, <2>2
<1>9. ASSUME NEW i \in 1 .. n - 1 PROVE FirstAt(u, i, h[i])
  <2>1. ASSUME NEW y \in 0 .. h[i] - 1 PROVE u[y] < i
    <3>1. y \in P /\ y < h[i]
      <4>1. h[i] \in P /\ y \in 0 .. h[i]
        BY <1>4
      <4> QED
        BY <4>1, PlacesOfFlags DEF P
    <3>2. CASE \E j \in 1 .. n - 1 : h[j] = y
      <4>1. PICK j \in 1 .. n - 1 : h[j] = y
        BY <3>2
      <4>2. h[i] \in Nat /\ h[j] \in Nat
        BY <1>4
      <4>3. ~ (i < j) /\ i # j
        BY <1>3, <3>1, <4>1, <4>2
      <4>4. u[y] = j
        BY <1>6, <4>1
      <4> QED
        BY <4>3, <4>4
    <3>3. CASE ~ \E j \in 1 .. n - 1 : h[j] = y
      <4>1. u[y] = 0
        BY <1>7, <3>1, <3>3
      <4> QED
        BY <4>1
    <3> QED
      BY <3>2, <3>3
  <2> QED
    BY <1>6, <2>1 DEF FirstAt
<1>10. Fits(u, h, n, k)
  BY <1>3, <1>8, <1>9 DEF Fits, P
<1> QED
  BY <1>7, <1>10 DEF u, P

LEMMA FlagsOfString ==
    ASSUME NEW n, NEW k, Sized(n, k), NEW s, NEW f, Fits(s, f, n, k)
    PROVE  FlagsFit(f, n, k)
BY FlagFacts DEF Fits, FlagsFit

LEMMA InitFlagsFit ==
    ASSUME NEW n, NEW k, Sized(n, k)
    PROVE  FlagsFit(InitFlags(n, k), n, k)
<1> DEFINE h == InitFlags(n, k)
<1>1. n \in Nat /\ k \in Nat /\ n >= 2 /\ k >= 1
  BY DEF Sized
<1>2. h = [i \in 0 .. n - 1 |-> IF i = 0 THEN 0 ELSE k * i - 1]
  BY DEF InitFlags
<1>3. ASSUME NEW i \in 0 .. n - 1 PROVE k * i \in Int
  BY <1>1
<1>4. h \in [0 .. n - 1 -> Int]
  BY <1>2, <1>3
<1>5. h[0] = 0
  BY <1>1, <1>2
<1>6. ASSUME NEW i \in 1 .. n - 1 PROVE h[i] = k * i - 1 /\ k * i \in Nat /\ k * i >= 1
  <2>1. i \in 0 .. n - 1 /\ i # 0
    BY <1>1
  <2> QED
    BY <1>2, <2>1, PlacesOfFlags
<1> HIDE DEF h
<1>7. ASSUME NEW i \in 1 .. n - 1 PROVE h[i] \in 0 .. k * i - 1
  BY <1>6
<1>8. ASSUME NEW i \in 1 .. n - 1, NEW j \in 1 .. n - 1, i < j PROVE h[i] < h[j]
  <2>1. k * (i + 1) <= k * j
    BY <1>1, <1>8, Multiples
  <2>2. k * (i + 1) = k * i + k
    BY <1>1
  <2> QED
    BY <1>1, <1>6, <2>1, <2>2
<1> QED
  BY <1>4, <1>5, <1>7, <1>8 DEF FlagsFit, h

(* No state can appear before all the lower ones have.                       *)
LEMMA FlagsFromBelow ==
    ASSUME NEW n, NEW k, Sized(n, k), NEW f, FlagsFit(f, n, k), NEW i \in 1 .. n - 1
    PROVE  f[i] >= i - 1
<1> DEFINE T == { j \in 1 .. n - 1 : f[j] < j - 1 }
<1>1. n \in Nat /\ n >= 2
  BY DEF Sized
<1>2. /\ \A j \in 1 .. n - 1 : f[j] \in Int /\ f[j] >= 0
      /\ \A j, l \in 1 .. n - 1 : j < l => f[j] < f[l]
  BY DEF FlagsFit
<1>3. CASE T = {}
  BY <1>2, <1>3
<1>4. CASE T # {}
  <2>1. T \in SUBSET Nat
    BY <1>1
  <2>2. PICK j \in T : \A l \in T : j <= l
    <3> HIDE DEF T
    <3> QED
      BY <1>4, <2>1, LeastOfNaturals
  <2>3. j \in 1 .. n - 1 /\ f[j] < j - 1 /\ j # 1
    BY <1>2, <2>2
  <2>4. j - 1 \in 1 .. n - 1 /\ f[j - 1] < f[j]
    BY <1>1, <1>2, <2>3
  <2>5. f[j - 1] < j - 1 - 1
    BY <1>2, <2>3, <2>4
  <2>6. j - 1 \in T
    BY <2>4, <2>5
  <2>7. ~ (j <= j - 1)
    BY <2>3
  <2> QED
    BY <2>2, <2>6, <2>7
<1> QED
  BY <1>3, <1>4

LEMMA TightFlags ==
    ASSUME NEW n \in Nat, NEW f, f[1] = 0, \A j \in 2 .. n - 1 : f[j] - 1 = f[j - 1] /\ f[j] \in Int,
           NEW i \in 1 .. n - 1
    PROVE  f[i] = i - 1
<1> DEFINE T == { j \in 1 .. n - 1 : f[j] # j - 1 }
<1>1. CASE T = {}
  BY <1>1
<1>2. CASE T # {}
  <2>1. T \in SUBSET Nat
    OBVIOUS
  <2>2. PICK j \in T : \A l \in T : j <= l
    <3> HIDE DEF T
    <3> QED
      BY <1>2, <2>1, LeastOfNaturals
  <2>3. j \in 1 .. n - 1 /\ f[j] # j - 1
    BY <2>2
  <2>4. j # 1
    BY <2>3
  <2>5. j \in 2 .. n - 1 /\ j - 1 \in 1 .. n - 1 /\ ~ (j <= j - 1)
    BY <2>3, <2>4
  <2>6. f[j - 1] = j - 1 - 1
    BY <2>2, <2>5
  <2>7. f[j] - 1 = f[j - 1] /\ f[j] \in Int
    BY <2>5
  <2> QED
    BY <2>3, <2>5, <2>6, <2>7
<1> QED
  BY <1>1, <1>2

-----------------------------------------------------------------------------
(***************************************************************************)
(* next_flags: the flags that follow, and the first of their strings.      *)
(***************************************************************************)
LEMMA NextFlagsFit ==
    ASSUME NEW gen, Sized(gen.n, gen.k), Fits(gen.s, gen.flags, gen.n, gen.k),
           is_full(gen), ~ is_last(gen)
    PROVE  LET h == next_flags(gen)
           IN  /\ FlagsFit(h, gen.n, gen.k)
               /\ \E i \in 1 .. gen.n - 1 :
                     /\ \A j \in 1 .. gen.n - 1 : j < i => h[j] = gen.flags[j]
                     /\ h[i] = gen.flags[i] - 1
                     /\ \A j \in 1 .. gen.n - 1 :
                           i < j => h[j] = gen.k * j - 1 /\ gen.flags[j] - 1 = gen.flags[j - 1]
<1> DEFINE n == gen.n
           k == gen.k
           f == gen.flags
           s == gen.s
           h == next_flags(gen)
           J == { j \in 1 .. n - 1 : j = 1 \/ f[j] - 1 # f[j - 1] }
           i == Max(J)
<1>1. Sized(n, k) /\ n \in Nat /\ n >= 2 /\ k \in Nat /\ k >= 1
  BY DEF Sized
<1>2. /\ f[0] = 0
      /\ \A j \in 1 .. n - 1 : f[j] \in Nat /\ f[j] <= k * j - 1 /\ s[f[j]] = j /\ k * j \in Nat
      /\ \A j, l \in 1 .. n - 1 : j < l => f[j] < f[l]
  <2>1. \A j \in 1 .. n - 1 : k * j \in Nat
    BY PlacesOfFlags
  <2> QED
    BY <2>1, FlagFacts
<1>3. h = [j \in 0 .. n - 1 |-> IF j < i THEN f[j] ELSE IF j = i THEN f[j] - 1 ELSE k * j - 1]
  BY DEF next_flags
<1>4. i \in J /\ \A j \in J : j <= i
  <2>1. J \in SUBSET Int /\ 1 \in J /\ n - 1 \in Int /\ \A j \in J : j <= n - 1
    BY <1>1
  <2> HIDE DEF J
  <2> QED
    BY <2>1, MaxOfBounded
<1> HIDE DEF i
<1>5. /\ i \in 1 .. n - 1 /\ (i = 1 \/ f[i] - 1 # f[i - 1])
      /\ \A j \in 1 .. n - 1 : i < j => f[j] - 1 = f[j - 1]
  <2>1. i \in 1 .. n - 1 /\ (i = 1 \/ f[i] - 1 # f[i - 1])
    BY <1>4
  <2> HIDE DEF n, f
  <2>2. ASSUME NEW j \in 1 .. n - 1, i < j PROVE f[j] - 1 = f[j - 1]
    <3>1. ~ (j <= i)
      BY <2>1, <2>2
    <3> QED
      BY <1>4, <3>1
  <2> QED
    BY <2>1, <2>2
<1> HIDE DEF h, J
<1>6. f[i] >= 1
  <2>1. CASE i # 1
    <3>1. i - 1 \in 1 .. n - 1 /\ i - 1 < i
      BY <1>1, <1>5, <2>1
    <3>2. f[i - 1] \in Nat /\ f[i] \in Nat /\ f[i - 1] < f[i]
      BY <1>2, <1>5, <3>1
    <3> QED
      BY <3>2
  <2>2. CASE i = 1
    <3> SUFFICES ASSUME f[1] = 0 PROVE FALSE
      BY <1>1, <1>2, <2>2
    <3>1. ASSUME NEW j \in 2 .. n - 1 PROVE f[j] - 1 = f[j - 1] /\ f[j] \in Int
      <4>1. j \in 1 .. n - 1 /\ i < j
        BY <2>2
      <4> QED
        BY <1>2, <1>5, <4>1
    <3> HIDE DEF n, f
    <3>2. \A j \in 1 .. n - 1 : f[j] = j - 1
      BY <1>1, <3>1, TightFlags
    <3> USE DEF n, f
    <3>3. ASSUME NEW j \in 1 .. n - 1 PROVE s[j - 1] = j
      BY <1>2, <3>2
    <3>4. f[n - 1] = n - 1 - 1
      BY <1>1, <3>2
    <3>5. ASSUME NEW x \in n - 1 .. n * k - 1 PROVE s[x] = n - 1
      <4>1. n * k \in Int
        BY <1>1
      <4>2. x \in f[n - 1] .. n * k - 1
        BY <1>1, <3>4, <4>1
      <4> QED
        BY <4>2 DEF is_full
    <3>6. is_last(gen)
      BY <3>3, <3>5 DEF is_last
    <3> QED
      BY <3>6
  <2> QED
    BY <2>1, <2>2
<1>7. /\ \A j \in 1 .. n - 1 : j < i => h[j] = f[j]
      /\ h[i] = f[i] - 1
      /\ \A j \in 1 .. n - 1 : i < j => h[j] = k * j - 1
      /\ h[0] = 0
  <2> HIDE DEF n, k, f
  <2>1. \A j \in 1 .. n - 1 : j \in 0 .. n - 1
    BY <1>1
  <2>2. i \in Int /\ 0 < i /\ i \in 0 .. n - 1 /\ 0 \in 0 .. n - 1
    BY <1>1, <1>5
  <2>3. /\ \A j \in 0 .. n - 1 : j < i => h[j] = f[j]
        /\ h[i] = f[i] - 1
    BY <1>3, <2>2
  <2>4. \A j \in 0 .. n - 1 : i < j => h[j] = k * j - 1
    BY <1>3, <2>2
  <2> QED
    BY <1>2, <2>1, <2>2, <2>3, <2>4
<1> HIDE DEF n, k, f
<1>8. ASSUME NEW j \in 1 .. n - 1 PROVE h[j] \in 0 .. k * j - 1 /\ h[j] \in Int
  <2>1. k * j \in Nat /\ k * j >= 1 /\ f[j] \in Nat /\ f[j] <= k * j - 1
    BY <1>1, <1>2, PlacesOfFlags
  <2>2. j < i \/ j = i \/ i < j
    BY <1>5
  <2>3. h[j] = f[j] \/ (h[j] = f[j] - 1 /\ f[j] >= 1) \/ h[j] = k * j - 1
    BY <1>6, <1>7, <2>2
  <2> HIDE DEF h
  <2> QED
    BY <2>1, <2>3
<1>9. h \in [0 .. n - 1 -> Int]
  <2>1. ASSUME NEW j \in 0 .. n - 1 PROVE h[j] \in Int
    <3>1. CASE j = 0
      BY <1>7, <3>1
    <3>2. CASE j # 0
      <4>1. j \in 1 .. n - 1
        BY <1>1, <3>2
      <4> QED
        BY <1>8, <4>1
    <3> QED
      BY <3>1, <3>2
  <2>2. DOMAIN h = 0 .. n - 1 /\ h = [j \in DOMAIN h |-> h[j]]
    BY <1>3
  <2> QED
    BY <2>1, <2>2
<1>10. ASSUME NEW j \in 1 .. n - 1, NEW l \in 1 .. n - 1, j < l PROVE h[j] < h[l]
  <2>1. f[j] \in Nat /\ f[l] \in Nat /\ f[j] < f[l] /\ f[j] <= k * j - 1 /\ k * j \in Nat /\ k * l \in Nat
    BY <1>2, <1>10
  <2>2. k * j < k * l
    <3>1. k * (j + 1) <= k * l
      BY <1>1, <1>10, Multiples
    <3>2. k * (j + 1) = k * j + k
      BY <1>1
    <3> QED
      BY <1>1, <2>1, <3>1, <3>2
  <2>3. CASE l < i
    BY <1>5, <1>7, <1>10, <2>1, <2>3
  <2>4. CASE l = i
    <3>1. i # 1 /\ i - 1 \in 1 .. n - 1
      BY <1>1, <1>5, <1>10, <2>4
    <3>2. f[i] - 1 # f[i - 1] /\ f[i - 1] \in Nat /\ f[i - 1] < f[i] /\ f[i] \in Nat
      <4>1. i - 1 < i
        BY <1>5
      <4> QED
        BY <1>2, <1>5, <3>1, <4>1
    <3>3. j = i - 1 \/ j < i - 1
      BY <1>5, <1>10, <2>4
    <3>4. f[j] <= f[i - 1]
      BY <1>2, <2>1, <3>1, <3>3
    <3>5. h[j] = f[j] /\ h[l] = f[i] - 1
      BY <1>7, <1>10, <2>4
    <3> QED
      BY <2>1, <3>2, <3>4, <3>5
  <2>5. CASE i < l
    <3>1. h[l] = k * l - 1
      BY <1>7, <2>5
    <3>2. j < i \/ j = i \/ i < j
      BY <1>5
    <3>3. h[j] <= k * j - 1
      BY <1>8, <2>1
    <3>4. h[j] \in Int
      BY <1>8
    <3> HIDE DEF h
    <3>5. ASSUME NEW x \in Int, NEW a \in Int, NEW b \in Int, x <= a - 1, a < b PROVE x < b - 1
      BY <3>5
    <3>6. h[j] < k * l - 1
      BY <2>1, <2>2, <3>3, <3>4, <3>5
    <3> QED
      BY <3>1, <3>6
  <2> QED
    BY <1>5, <2>3, <2>4, <2>5
<1>11. FlagsFit(h, n, k)
  BY <1>7, <1>8, <1>9, <1>10 DEF FlagsFit
<1> QED
  BY <1>5, <1>7, <1>11 DEF h, n, k, f

LEMMA NextFlags ==
    ASSUME NEW gen, Sized(gen.n, gen.k), Fits(gen.s, gen.flags, gen.n, gen.k),
           is_full(gen), ~ is_last(gen)
    PROVE  LET h == next_flags(gen)
               u == FirstString(gen.n, gen.k, h)
           IN  /\ Fits(u, h, gen.n, gen.k)
               /\ Before(gen.s, u, gen.n, gen.k)
               /\ \A t \in Strings(gen.n, gen.k) :
                     ~ (Before(gen.s, t, gen.n, gen.k) /\ Before(t, u, gen.n, gen.k))
<1> DEFINE n == gen.n
           k == gen.k
           f == gen.flags
           s == gen.s
           P == Places(n, k)
           h == next_flags(gen)
           u == FirstString(n, k, h)
<1>1. Sized(n, k) /\ n \in Nat /\ n >= 2 /\ Fits(s, f, n, k)
  BY DEF Sized
<1>2. FlagsFit(f, n, k) /\ FlagsFit(h, n, k)
  BY <1>1, FlagsOfString, NextFlagsFit
<1>3. Fits(u, h, n, k) /\ \A x \in P : (\A i \in 1 .. n - 1 : h[i] # x) => u[x] = 0
  BY <1>1, <1>2, FirstStringFits
<1>4. PICK i \in 1 .. n - 1 :
         /\ \A j \in 1 .. n - 1 : j < i => h[j] = f[j]
         /\ h[i] = f[i] - 1
         /\ \A j \in 1 .. n - 1 : i < j => h[j] = k * j - 1 /\ f[j] - 1 = f[j - 1]
  BY NextFlagsFit
<1>5. \A x \in P : s[x] = Segment(gen, x)
  BY FullIsHighest
<1>6. ASSUME NEW t, Fits(t, f, n, k), DigitBefore(s, t, n, k) PROVE FALSE
  <2>1. PICK x \in P : s[x] < t[x]
    BY <1>6 DEF DigitBefore
  <2>2. t[x] <= Segment(gen, x)
    BY <1>6, SegmentFacts
  <2>3. s[x] \in Nat /\ t[x] \in Nat
    BY <1>1, <1>6, FlagFacts
  <2> QED
    BY <1>5, <2>1, <2>2, <2>3
<1> HIDE DEF n, k, f, s, P, h, u
<1>7. \A j \in 1 .. n - 1 : f[j] \in Int /\ h[j] \in Int
  BY <1>2 DEF FlagsFit
<1>8. f # h /\ FlagBefore(f, h, n)
  BY <1>4, <1>7 DEF FlagBefore
<1>9. ASSUME NEW t, Fits(t, h, n, k), DigitBefore(t, u, n, k) PROVE FALSE
  <2>1. PICK x \in P : t[x] < u[x]
    BY <1>9 DEF DigitBefore, P
  <2>2. t[x] \in Nat
    BY <1>1, <1>9, FlagFacts DEF P
  <2>3. u[x] # 0
    BY <2>1, <2>2
  <2>4. PICK j \in 1 .. n - 1 : h[j] = x
    BY <1>3, <2>3
  <2>5. t[h[j]] = j
    BY <1>1, <1>9, FlagFacts
  <2>6. u[h[j]] = j
    BY <1>1, <1>3, FlagFacts
  <2> QED
    BY <2>1, <2>2, <2>4, <2>5, <2>6
<1>10. ASSUME NEW e, FlagsFit(e, n, k), FlagBefore(f, e, n), FlagBefore(e, h, n) PROVE FALSE
  <2>1. PICK p \in 1 .. n - 1 : e[p] < f[p] /\ \A j \in 1 .. n - 1 : j < p => f[j] = e[j]
    BY <1>10 DEF FlagBefore
  <2>2. PICK q \in 1 .. n - 1 : h[q] < e[q] /\ \A j \in 1 .. n - 1 : j < q => e[j] = h[j]
    BY <1>10 DEF FlagBefore
  <2>3. /\ \A j \in 1 .. n - 1 : e[j] \in 0 .. k * j - 1
        /\ \A j, l \in 1 .. n - 1 : j < l => e[j] < e[l]
    BY <1>10 DEF FlagsFit
  <2>4. \A j \in 1 .. n - 1 : e[j] \in Int /\ e[j] <= k * j - 1 /\ k * j \in Int
    <3> SUFFICES ASSUME NEW j \in 1 .. n - 1 PROVE e[j] \in Int /\ e[j] <= k * j - 1 /\ k * j \in Int
      OBVIOUS
    <3>1. k * j \in Int /\ e[j] \in 0 .. k * j - 1
      BY <1>1, <2>3, PlacesOfFlags
    <3> QED
      BY <3>1
  <2>5. CASE p < i
    <3>1. h[p] = f[p]
      BY <1>4, <2>5
    <3>2. q < p \/ q = p \/ p < q
      OBVIOUS
    <3>3. CASE q < p
      <4>1. h[q] = f[q] /\ f[q] = e[q]
        BY <1>4, <2>1, <2>5, <3>3
      <4> QED
        BY <2>2, <2>4, <4>1
    <3>4. CASE q = p
      BY <1>7, <2>1, <2>2, <2>4, <3>1, <3>4
    <3>5. CASE p < q
      BY <1>7, <2>1, <2>2, <2>4, <3>1, <3>5
    <3> QED
      BY <3>2, <3>3, <3>4, <3>5
  <2>6. CASE p = i
    <3>1. q < i \/ q = i \/ i < q
      OBVIOUS
    <3>2. CASE q < i
      <4>1. h[q] = f[q] /\ f[q] = e[q]
        BY <1>4, <2>1, <2>6, <3>2
      <4> QED
        BY <2>2, <2>4, <4>1
    <3>3. CASE q = i
      BY <1>4, <1>7, <2>1, <2>2, <2>4, <2>6, <3>3
    <3>4. CASE i < q
      BY <1>4, <2>2, <2>4, <3>4
    <3> QED
      BY <3>1, <3>2, <3>3, <3>4
  <2>7. CASE i < p
    <3>1. p - 1 \in 1 .. n - 1 /\ p - 1 < p
      BY <1>1, <2>7
    <3>2. f[p] - 1 = f[p - 1] /\ f[p - 1] = e[p - 1] /\ e[p - 1] < e[p]
      BY <1>4, <2>1, <2>3, <2>7, <3>1
    <3> QED
      BY <1>7, <2>1, <2>4, <3>1, <3>2
  <2> QED
    BY <2>5, <2>6, <2>7
<1>11. Before(s, u, n, k)
  BY <1>1, <1>3, <1>8, Comparing
<1>12. ASSUME NEW t \in Strings(n, k), Before(s, t, n, k), Before(t, u, n, k) PROVE FALSE
  <2>1. PICK e : Fits(t, e, n, k)
    BY <1>1, StringsFit
  <2>2. IF f = e THEN DigitBefore(s, t, n, k) ELSE FlagBefore(f, e, n)
    BY <1>1, <1>12, <2>1, Comparing
  <2>3. IF e = h THEN DigitBefore(t, u, n, k) ELSE FlagBefore(e, h, n)
    BY <1>1, <1>3, <1>12, <2>1, Comparing
  <2>4. f # e
    BY <1>6, <2>1, <2>2
  <2>5. e # h
    BY <1>9, <2>1, <2>3
  <2>6. FlagsFit(e, n, k)
    BY <1>1, <2>1, FlagsOfString
  <2> QED
    BY <1>10, <2>2, <2>3, <2>4, <2>5, <2>6
<1> QED
  BY <1>3, <1>11, <1>12 DEF n, k, s, h, u

(* is_last: no string follows.                                               *)
LEMMA LastIsLast ==
    ASSUME NEW gen, Sized(gen.n, gen.k), Fits(gen.s, gen.flags, gen.n, gen.k),
           is_last(gen), NEW t \in Strings(gen.n, gen.k)
    PROVE  ~ Before(gen.s, t, gen.n, gen.k)
<1> DEFINE n == gen.n
           k == gen.k
           f == gen.flags
           s == gen.s
           P == Places(n, k)
<1>1. Sized(n, k) /\ n \in Nat /\ n >= 2 /\ Fits(s, f, n, k) /\ n * k \in Nat /\ P = 0 .. n * k - 1
  BY PlacesOfFlags DEF Sized, Places
<1>2. PICK e : Fits(t, e, n, k)
  BY StringsFit
<1>3. FlagsFit(e, n, k) /\ FlagsFit(f, n, k)
  BY <1>1, <1>2, FlagsOfString
<1>4. \A i \in 1 .. n - 1 : s[i - 1] = i
  BY DEF is_last
<1>5. \A x \in n - 1 .. n * k - 1 : s[x] = n - 1
  BY DEF is_last
<1> DEFINE N == n * k
<1>6. P = 0 .. N - 1 /\ \A x \in n - 1 .. N - 1 : s[x] = n - 1
  BY <1>1, <1>5
<1>7. /\ \A i \in 1 .. n - 1 : f[i] \in Nat /\ e[i] \in Nat /\ s[f[i]] = i /\ t[e[i]] = i
      /\ \A i \in 1 .. n - 1 : \A x \in P : x < f[i] => s[x] < i
      /\ \A x \in P : s[x] \in Nat /\ t[x] \in Nat /\ t[x] <= n - 1
  <2>1. \A i \in 1 .. n - 1 : f[i] \in Nat /\ s[f[i]] = i
    BY <1>1, FlagFacts
  <2>2. \A i \in 1 .. n - 1 : e[i] \in Nat /\ t[e[i]] = i
    BY <1>1, <1>2, FlagFacts
  <2>3. \A i \in 1 .. n - 1 : \A x \in P : x < f[i] => s[x] < i
    BY <1>1, FlagFacts
  <2>4. \A x \in P : s[x] \in Nat
    BY <1>1, FlagFacts
  <2>5. \A x \in P : t[x] \in Nat /\ t[x] <= n - 1
    BY <1>1, <1>2, FlagFacts
  <2> QED
    BY <2>1, <2>2, <2>3, <2>4, <2>5
<1> HIDE DEF n, k, f, s, P, N
<1>8. ASSUME NEW i \in 1 .. n - 1 PROVE f[i] = i - 1 /\ e[i] >= i - 1
  <2>1. f[i] >= i - 1 /\ e[i] >= i - 1
    BY <1>1, <1>3, FlagsFromBelow
  <2>2. i - 1 \in P
    <3>1. f[i] \in P
      BY <1>1, <1>8, FlagFacts DEF P
    <3>2. i - 1 \in 0 .. f[i]
      BY <1>7, <2>1
    <3> QED
      BY <1>1, <3>1, <3>2, PlacesOfFlags DEF P
  <2>3. ~ (i - 1 < f[i])
    <3>1. s[i - 1] = i /\ ~ (i < i)
      BY <1>4
    <3> QED
      BY <1>7, <2>2, <3>1
  <2> QED
    BY <1>7, <2>1, <2>3
<1>9. ~ FlagBefore(f, e, n)
  <2> SUFFICES ASSUME NEW i \in 1 .. n - 1, e[i] < f[i] PROVE FALSE
    BY DEF FlagBefore
  <2>1. f[i] = i - 1 /\ e[i] >= i - 1 /\ e[i] \in Nat
    BY <1>7, <1>8
  <2> QED
    BY <2>1
<1>10. ASSUME f = e PROVE ~ DigitBefore(s, t, n, k)
  <2> SUFFICES ASSUME NEW x \in P, s[x] < t[x] PROVE FALSE
    BY DEF DigitBefore, P
  <2>1. x \in Nat /\ x <= N - 1 /\ N \in Nat
    BY <1>1, <1>6 DEF N
  <2>2. CASE x < n - 1
    <3>1. x + 1 \in 1 .. n - 1 /\ x + 1 - 1 = x
      BY <1>1, <2>1, <2>2
    <3>2. PICK m \in 1 .. n - 1 : m = x + 1
      BY <3>1
    <3>3. f[m] = m - 1 /\ m - 1 = x
      BY <1>8, <2>1, <3>2
    <3>4. f[m] = x /\ e[m] = x
      BY <1>10, <3>3
    <3>5. s[f[m]] = m /\ t[e[m]] = m
      BY <1>7
    <3>6. s[x] = m /\ t[x] = m
      BY <3>4, <3>5
    <3> QED
      BY <2>1, <3>2, <3>6
  <2>3. CASE ~ (x < n - 1)
    <3>1. x \in n - 1 .. N - 1
      BY <1>1, <2>1, <2>3
    <3>2. s[x] = n - 1 /\ t[x] <= n - 1 /\ t[x] \in Nat
      BY <1>6, <1>7, <3>1
    <3> QED
      BY <1>1, <3>2
  <2> QED
    BY <2>2, <2>3
<1>11. ~ Before(s, t, n, k)
  BY <1>1, <1>2, <1>9, <1>10, Comparing
<1> QED
  BY <1>11 DEF s, n, k

-----------------------------------------------------------------------------
(***************************************************************************)
(* The generator as it runs.                                               *)
(***************************************************************************)
IcdfaInv ==
    \/ g = NoGenerator
    \/ /\ DOMAIN g = {"n", "k", "type", "flags", "s", "final"}
       /\ \/ g.type = "RANDOM"
          \/ /\ g.type = "SEQUENTIAL"
             /\ Sized(g.n, g.k)
             /\ Fits(g.s, g.flags, g.n, g.k)
             /\ g.final \in 1 .. TotalFinals(g) - 1

LEMMA FinalsToTake ==
    ASSUME NEW n \in Nat, n >= 2
    PROVE  2 ^ n \in Nat /\ 2 ^ n >= 2
<1> DEFINE S == 0 .. n - 1
           D == {{}, {0}}
<1>1. IsFiniteSet(S) /\ Cardinality(S) = n
  <2>1. 0 \in Int /\ n - 1 \in Int
    OBVIOUS
  <2>2. IsFiniteSet(S) /\ Cardinality(S) = IF 0 > n - 1 THEN 0 ELSE n - 1 - 0 + 1
    BY <2>1, FS_Interval
  <2> HIDE DEF S
  <2>3. (IF 0 > n - 1 THEN 0 ELSE n - 1 - 0 + 1) = n
    OBVIOUS
  <2> QED
    BY <2>2, <2>3
<1>2. D \in SUBSET (SUBSET S)
  OBVIOUS
<1> HIDE DEF S
<1>3. IsFiniteSet(SUBSET S) /\ Cardinality(SUBSET S) = 2 ^ n
  BY <1>1, FS_SUBSET, Zenon
<1> DEFINE A == {{}}
           z == {0}
<1>4. IsFiniteSet(A) /\ Cardinality(A) = 1 /\ z \notin A
  BY FS_Singleton
<1>5. D = A \cup {z}
  OBVIOUS
<1> HIDE DEF A, z
<1>6. /\ IsFiniteSet(A \cup {z})
      /\ Cardinality(A \cup {z}) = IF z \in A THEN Cardinality(A) ELSE Cardinality(A) + 1
  BY <1>4, FS_AddElement
<1>7. Cardinality(A \cup {z}) = 2
  BY <1>4, <1>6
<1>8. IsFiniteSet(D) /\ Cardinality(D) = 2
  BY <1>5, <1>6, <1>7, Zenon
<1> HIDE DEF D
<1> DEFINE p == 2 ^ n
<1>9. Cardinality(D) <= Cardinality(SUBSET S) /\ Cardinality(SUBSET S) \in Nat
  BY <1>2, <1>3, FS_Subset, FS_CardinalityType
<1>10. p \in Nat /\ 2 <= p
  <2>1. p = Cardinality(SUBSET S)
    BY <1>3
  <2> HIDE DEF p
  <2> QED
    BY <1>8, <1>9, <2>1
<1> HIDE DEF p
<1>11. p >= 2
  BY <1>10
<1> QED
  BY <1>10, <1>11 DEF p

(* No two flags are each before the other.                                   *)
LEMMA OneWay ==
    ASSUME NEW n, NEW k, Sized(n, k), NEW s, NEW f, Fits(s, f, n, k), NEW t, NEW h, Fits(t, h, n, k),
           FlagBefore(f, h, n), FlagBefore(h, f, n)
    PROVE  FALSE
<1>1. PICK i \in 1 .. n - 1 : h[i] < f[i] /\ \A j \in 1 .. n - 1 : j < i => f[j] = h[j]
  BY DEF FlagBefore
<1>2. PICK l \in 1 .. n - 1 : f[l] < h[l] /\ \A j \in 1 .. n - 1 : j < l => h[j] = f[j]
  BY DEF FlagBefore
<1>3. \A j \in 1 .. n - 1 : f[j] \in Nat /\ h[j] \in Nat
  BY FlagFacts
<1>4. i < l \/ i = l \/ l < i
  OBVIOUS
<1> QED
  BY <1>1, <1>2, <1>3, <1>4

LEMMA IcdfaInvInit == IcdfaInit => IcdfaInv
BY DEF IcdfaInit, IcdfaInv

(* What a call of next() does to a generator that enumerates.                *)
LEMMA SequentialStep ==
    ASSUME IcdfaInv, NextSequential
    PROVE  /\ IcdfaInv'
           /\ \/ g'.s = g.s /\ (g'.final = g.final + 1 \/ ~ hasNext(g))
              \/ /\ Before(g.s, g'.s, g.n, g.k)
                 /\ \A t \in Strings(g.n, g.k) :
                       ~ (Before(g.s, t, g.n, g.k) /\ Before(t, g'.s, g.n, g.k))
                 /\ g.final = TotalFinals(g) - 1
                 /\ g'.final = 1
<1> DEFINE T == TotalFinals(g)
<1>1. /\ g.type = "SEQUENTIAL" /\ g # NoGenerator
      /\ DOMAIN g = {"n", "k", "type", "flags", "s", "final"}
      /\ Sized(g.n, g.k) /\ Fits(g.s, g.flags, g.n, g.k) /\ g.final \in 1 .. T - 1
  BY DEF NextSequential, IcdfaInv, NoGenerator
<1>2. T \in Nat /\ T >= 2
  BY <1>1, FinalsToTake DEF Sized, TotalFinals
<1>3. is_last_final(g) <=> g.final >= T - 1
  BY DEF is_last_final
<1>4. hasNext(g) <=> ~ is_last(g) \/ ~ is_last_final(g)
  BY DEF hasNext
<1>5. CASE ~ is_last_final(g)
  <2>1. g' = [g EXCEPT !.final = @ + 1]
    BY <1>5 DEF NextSequential
  <2>2. /\ g'.type = g.type /\ g'.n = g.n /\ g'.k = g.k /\ g'.flags = g.flags /\ g'.s = g.s
        /\ g'.final = g.final + 1 /\ DOMAIN g' = DOMAIN g
    BY <1>1, <2>1
  <2>3. TotalFinals(g)' = T
    BY <2>2 DEF TotalFinals
  <2> HIDE DEF T
  <2>4. g'.final \in 1 .. T - 1
    BY <1>1, <1>2, <1>3, <1>5, <2>2
  <2>5. IcdfaInv'
    BY <1>1, <2>2, <2>3, <2>4 DEF IcdfaInv
  <2> QED
    BY <2>2, <2>5
<1>6. CASE is_last_final(g) /\ is_last(g)
  <2>1. g' = g
    BY <1>6 DEF NextSequential
  <2>2. IcdfaInv'
    BY <2>1 DEF IcdfaInv, TotalFinals
  <2> QED
    BY <1>4, <1>6, <2>1, <2>2
<1>7. CASE is_last_final(g) /\ ~ is_last(g)
  <2> DEFINE h == next_flags(g)
             u == IF is_full(g) THEN FirstString(g.n, g.k, h) ELSE next_icdfa(g)
             e == IF is_full(g) THEN h ELSE g.flags
  <2>1. /\ Fits(u, e, g.n, g.k)
        /\ Before(g.s, u, g.n, g.k)
        /\ \A t \in Strings(g.n, g.k) : ~ (Before(g.s, t, g.n, g.k) /\ Before(t, u, g.n, g.k))
    <3>1. CASE is_full(g)
      <4>1. u = FirstString(g.n, g.k, h) /\ e = h
        BY <3>1
      <4> HIDE DEF u, e
      <4> QED
        BY <1>1, <1>7, <3>1, <4>1, NextFlags
    <3>2. CASE ~ is_full(g)
      <4>1. u = next_icdfa(g) /\ e = g.flags
        BY <3>2
      <4> HIDE DEF u, e
      <4>2. /\ Fits(u, g.flags, g.n, g.k)
            /\ DigitBefore(g.s, u, g.n, g.k)
            /\ \A t : Fits(t, g.flags, g.n, g.k)
                         => ~ (DigitBefore(g.s, t, g.n, g.k) /\ DigitBefore(t, u, g.n, g.k))
        BY <1>1, <3>2, <4>1, NextDigits
      <4>3. Before(g.s, u, g.n, g.k)
        BY <1>1, <4>2, Comparing
      <4>4. ASSUME NEW t \in Strings(g.n, g.k), Before(g.s, t, g.n, g.k), Before(t, u, g.n, g.k)
            PROVE  FALSE
        <5>1. PICK d : Fits(t, d, g.n, g.k)
          BY <1>1, StringsFit
        <5>2. IF g.flags = d THEN DigitBefore(g.s, t, g.n, g.k) ELSE FlagBefore(g.flags, d, g.n)
          BY <1>1, <4>4, <5>1, Comparing
        <5>3. IF d = g.flags THEN DigitBefore(t, u, g.n, g.k) ELSE FlagBefore(d, g.flags, g.n)
          BY <1>1, <4>2, <4>4, <5>1, Comparing
        <5>4. d # g.flags
          BY <4>2, <5>1, <5>2, <5>3
        <5>5. FlagBefore(g.flags, d, g.n) /\ FlagBefore(d, g.flags, g.n)
          BY <5>2, <5>3, <5>4
        <5> QED
          BY <1>1, <5>1, <5>5, OneWay
      <4> QED
        BY <4>1, <4>2, <4>3, <4>4
    <3> QED
      BY <3>1, <3>2
  <2>2. /\ g'.type = g.type /\ g'.n = g.n /\ g'.k = g.k /\ DOMAIN g' = DOMAIN g
        /\ g'.flags = e /\ g'.s = u /\ g'.final = 1
    <3>1. CASE is_full(g)
      <4>1. g' = [g EXCEPT !.flags = h, !.s = FirstString(g.n, g.k, h), !.final = 1]
        BY <1>7, <3>1 DEF NextSequential
      <4> HIDE DEF h
      <4> QED
        BY <1>1, <3>1, <4>1
    <3>2. CASE ~ is_full(g)
      <4>1. g' = [g EXCEPT !.s = next_icdfa(g), !.final = 1]
        BY <1>7, <3>2 DEF NextSequential
      <4> QED
        BY <1>1, <3>2, <4>1
    <3> QED
      BY <3>1, <3>2
  <2> HIDE DEF u, e, h
  <2>3. TotalFinals(g)' = T
    BY <2>2 DEF TotalFinals
  <2> HIDE DEF T
  <2>4. 1 \in 1 .. T - 1 /\ g.final = T - 1
    BY <1>1, <1>2, <1>3, <1>7
  <2>5. IcdfaInv'
    BY <1>1, <2>1, <2>2, <2>3, <2>4 DEF IcdfaInv
  <2> QED
    BY <2>1, <2>2, <2>4, <2>5 DEF T
<1> QED
  BY <1>5, <1>6, <1>7

LEMMA IcdfaInvNext == IcdfaInv /\ [IcdfaNext]_icdfaVars => IcdfaInv'
<1> SUFFICES ASSUME IcdfaInv, [IcdfaNext]_icdfaVars PROVE IcdfaInv'
  OBVIOUS
<1>1. ASSUME NEW nk \in Sizes, NEW type \in {"RANDOM", "SEQUENTIAL"}, Construct(nk[1], nk[2], type)
      PROVE  IcdfaInv'
  <2> DEFINE n == nk[1]
             k == nk[2]
             h == InitFlags(n, k)
  <2>1. Sized(n, k)
    BY SizesAssumption DEF Sized
  <2>2. g' = [n |-> n, k |-> k, type |-> type, flags |-> h, s |-> FirstString(n, k, h), final |-> 1]
    BY <1>1 DEF Construct, Fresh
  <2> HIDE DEF n, k, h
  <2>3. Fits(FirstString(n, k, h), h, n, k)
    BY <2>1, FirstStringFits, InitFlagsFit DEF h
  <2>4. /\ DOMAIN g' = {"n", "k", "type", "flags", "s", "final"}
        /\ g'.n = n /\ g'.k = k /\ g'.type = type /\ g'.flags = h
        /\ g'.s = FirstString(n, k, h) /\ g'.final = 1
    BY <2>2
  <2>5. TotalFinals(g)' = 2 ^ n
    BY <2>4 DEF TotalFinals
  <2>6. 2 ^ n \in Nat /\ 2 ^ n >= 2
    BY <2>1, FinalsToTake DEF Sized
  <2> DEFINE T == 2 ^ n
  <2>7. 1 \in 1 .. T - 1
    <3>1. T \in Nat /\ T >= 2
      BY <2>6
    <3> HIDE DEF T
    <3> QED
      BY <3>1
  <2> QED
    BY <2>1, <2>3, <2>4, <2>5, <2>7 DEF IcdfaInv
<1>2. ASSUME NextSequential PROVE IcdfaInv'
  BY <1>2, SequentialStep
<1>3. ASSUME NEW number, NEW final, NextRandom(number, final) PROVE IcdfaInv'
  <2>1. g.type = "RANDOM" /\ DOMAIN g = {"n", "k", "type", "flags", "s", "final"}
    BY <1>3 DEF NextRandom, IcdfaInv, NoGenerator
  <2>2. \A f, s : LET a == [[[g EXCEPT !.flags = f] EXCEPT !.s = s] EXCEPT !.final = final]
                  IN  a.type = "RANDOM" /\ DOMAIN a = {"n", "k", "type", "flags", "s", "final"}
    BY <2>1
  <2>3. \E f, s : g' = [[[g EXCEPT !.flags = f] EXCEPT !.s = s] EXCEPT !.final = final]
    BY <1>3 DEF NextRandom, generate_from_index
  <2> QED
    BY <2>2, <2>3 DEF IcdfaInv
<1>4. ASSUME Current PROVE IcdfaInv'
  <2>1. g' = g
    BY <1>4 DEF Current
  <2> QED
    BY <2>1 DEF IcdfaInv, TotalFinals
<1>5. ASSUME Reset PROVE IcdfaInv'
  <2> DEFINE u == FirstString(g.n, g.k, g.flags)
  <2>1. g # NoGenerator /\ g' = [g EXCEPT !.s = u]
    BY <1>5 DEF Reset, NoGenerator
  <2>2. DOMAIN g = {"n", "k", "type", "flags", "s", "final"}
    BY <2>1 DEF IcdfaInv
  <2>3. g.type = "SEQUENTIAL" => Fits(u, g.flags, g.n, g.k)
    BY <2>1, FirstStringFits, FlagsOfString DEF IcdfaInv
  <2> HIDE DEF u
  <2>4. /\ DOMAIN g' = DOMAIN g /\ g'.n = g.n /\ g'.k = g.k /\ g'.type = g.type
        /\ g'.flags = g.flags /\ g'.final = g.final /\ g'.s = u
    BY <2>1, <2>2
  <2> QED
    BY <2>1, <2>2, <2>3, <2>4 DEF IcdfaInv, TotalFinals
<1>6. ASSUME NEW final \in FinalNumbers, SetCurrentFinalStatesIndex(final) PROVE IcdfaInv'
  <2>1. g # NoGenerator /\ g' = [g EXCEPT !.final = final] /\ final < TotalFinals(g)
    BY <1>6 DEF SetCurrentFinalStatesIndex, NoGenerator
  <2>2. DOMAIN g = {"n", "k", "type", "flags", "s", "final"}
    BY <2>1 DEF IcdfaInv
  <2>3. /\ DOMAIN g' = DOMAIN g /\ g'.n = g.n /\ g'.k = g.k /\ g'.type = g.type
        /\ g'.flags = g.flags /\ g'.final = final /\ g'.s = g.s
    BY <2>1, <2>2
  <2>4. g.type = "SEQUENTIAL" => final \in 1 .. TotalFinals(g) - 1
    <3> SUFFICES ASSUME g.type = "SEQUENTIAL" PROVE final \in 1 .. TotalFinals(g) - 1
      OBVIOUS
    <3> DEFINE T == TotalFinals(g)
    <3>1. T \in Nat
      BY <2>1, FinalsToTake DEF IcdfaInv, Sized, TotalFinals
    <3>2. final \in Int /\ 1 <= final
      <4> DEFINE b == 2 ^ Max({ nk[1] : nk \in Sizes }) - 1
      <4>1. final \in 1 .. b
        BY <1>6 DEF FinalNumbers
      <4> HIDE DEF b
      <4> QED
        BY <4>1
    <3> HIDE DEF T
    <3>3. final < T
      BY <2>1 DEF T
    <3>4. final \in 1 .. T - 1
      BY <3>1, <3>2, <3>3
    <3> QED
      BY <3>4 DEF T
  <2> QED
    BY <2>1, <2>2, <2>3, <2>4 DEF IcdfaInv, TotalFinals
<1>7. ASSUME UNCHANGED icdfaVars PROVE IcdfaInv'
  BY <1>7 DEF icdfaVars, IcdfaInv, TotalFinals
<1> QED
  BY <1>1, <1>2, <1>3, <1>4, <1>5, <1>6, <1>7 DEF IcdfaNext

(* The flags of a generator that enumerates are the first places of its      *)
(* string, whatever was called before: reset(), current(),                   *)
(* setCurrentFinalStatesIndex() or next().                                   *)
THEOREM FlagsFollowString == IcdfaSpec => []IcdfaInv
BY IcdfaInvInit, IcdfaInvNext, PTL DEF IcdfaSpec

(* next() of a generator that enumerates takes the set of final states or    *)
(* the string that follows in the order, leaving none out (next_icdfa,       *)
(* next_flags), for any number of states and letters.                        *)
THEOREM EnumerationSkipsNothing == IcdfaSpec => NoStringSkipped
<1>1. IcdfaInv /\ [IcdfaNext]_icdfaVars =>
        [ NextSequential =>
          \/ g'.s = g.s /\ (g'.final = g.final + 1 \/ ~ hasNext(g))
          \/ /\ Before(g.s, g'.s, g.n, g.k)
             /\ \A t \in Strings(g.n, g.k) :
                   ~ (Before(g.s, t, g.n, g.k) /\ Before(t, g'.s, g.n, g.k))
             /\ g.final = TotalFinals(g) - 1
             /\ g'.final = 1 ]_icdfaVars
  BY SequentialStep
<1> QED
  BY <1>1, FlagsFollowString, PTL DEF IcdfaSpec, NoStringSkipped

(* hasNext() of a generator that enumerates is true exactly as long as a set *)
(* of final states or a string is left, and its string is one of those to be *)
(* enumerated (is_last, is_last_final).                                      *)
SequentialIsComplete ==
    g.type = "SEQUENTIAL" =>
        /\ g.s \in Strings(g.n, g.k)
        /\ hasNext(g) <=> \/ g.final < TotalFinals(g) - 1
                          \/ \E t \in Strings(g.n, g.k) : Before(g.s, t, g.n, g.k)

THEOREM EnumerationIsComplete == IcdfaSpec => []SequentialIsComplete
<1>1. ASSUME IcdfaInv PROVE SequentialIsComplete
  <2> SUFFICES ASSUME g.type = "SEQUENTIAL"
               PROVE  /\ g.s \in Strings(g.n, g.k)
                      /\ hasNext(g) <=> \/ g.final < TotalFinals(g) - 1
                                        \/ \E t \in Strings(g.n, g.k) : Before(g.s, t, g.n, g.k)
    BY DEF SequentialIsComplete
  <2> DEFINE T == TotalFinals(g)
  <2>1. Sized(g.n, g.k) /\ Fits(g.s, g.flags, g.n, g.k) /\ g.final \in 1 .. T - 1
    BY <1>1 DEF IcdfaInv, NoGenerator
  <2>2. T \in Nat
    BY <2>1, FinalsToTake DEF Sized, TotalFinals
  <2>3. g.s \in Strings(g.n, g.k)
    BY <2>1, StringsFit
  <2>4. ~ is_last_final(g) <=> g.final < T - 1
    <3>1. is_last_final(g) <=> g.final >= T - 1
      BY DEF is_last_final
    <3> HIDE DEF T
    <3> QED
      BY <2>1, <2>2, <3>1
  <2>5. ~ is_last(g) => \E t \in Strings(g.n, g.k) : Before(g.s, t, g.n, g.k)
    <3> SUFFICES ASSUME ~ is_last(g) PROVE \E u, e : Fits(u, e, g.n, g.k) /\ Before(g.s, u, g.n, g.k)
      BY <2>1, StringsFit
    <3>1. CASE is_full(g)
      BY <2>1, <3>1, NextFlags
    <3>2. CASE ~ is_full(g)
      <4>1. Fits(next_icdfa(g), g.flags, g.n, g.k) /\ DigitBefore(g.s, next_icdfa(g), g.n, g.k)
        BY <2>1, <3>2, NextDigits
      <4>2. Before(g.s, next_icdfa(g), g.n, g.k)
        BY <2>1, <4>1, Comparing
      <4> QED
        BY <4>1, <4>2
    <3> QED
      BY <3>1, <3>2
  <2>6. is_last(g) => ~ \E t \in Strings(g.n, g.k) : Before(g.s, t, g.n, g.k)
    BY <2>1, LastIsLast
  <2> QED
    BY <2>3, <2>4, <2>5, <2>6 DEF hasNext
<1> QED
  BY <1>1, FlagsFollowString, PTL
=============================================================================

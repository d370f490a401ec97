------------------------------ MODULE Containers ------------------------------
(***************************************************************************)
(* What grail keeps everything in (classes/array, classes/set and          *)
(* classes/list): an array of items with a capacity, a size and a flag     *)
(* that it is sorted, a set or a list made of one, and the static pool     *)
(* that keeps the buffers of destroyed arrays for the next ones.           *)
(*                                                                         *)
(* An array is its buffer, capacity, items and flag; the items are a       *)
(* sequence.  Capacities of more than 65536, which grow by addition, and   *)
(* the removal of one list from another are left out, as is unsorted(),    *)
(* which nothing calls.                                                    *)
(***************************************************************************)
EXTENDS Integers, Sequences, FiniteSets, SequencesExt

CONSTANTS SetNames, ListNames,   (* the objects a program may have           *)
          Items,                 (* integers                                 *)
          ARRAY_SIZE,            (* 16 in array/defs.h                       *)
          max_pool,              (* 32 in array.src                          *)
          KeptUpTo,              (* the largest capacity pooled, 64          *)
          NearEnd,               (* 64 in set/minuseq.src                    *)
          MaxItems,              (* bound on the size of an array            *)
          SizesAsked             (* arguments of array(int)                  *)

ASSUME ContainersAssumption ==
    /\ SetNames \cap ListNames = {}
    /\ Items \subseteq Int
    /\ {ARRAY_SIZE, max_pool, KeptUpTo, NearEnd, MaxItems} \subseteq Nat \ {0}
    /\ SizesAsked \subseteq Nat

VARIABLES
    arrays,   (* the live objects: [p, max, items, sorted] each              *)
    pool,     (* pool[0 .. pool_sz - 1]: a buffer and its capacity each      *)
    heap      (* the buffers allocated and not deleted                       *)

containerVars == <<arrays, pool, heap>>

Names == SetNames \cup ListNames
Live == DOMAIN arrays
LiveSets == Live \cap SetNames
LiveLists == Live \cap ListNames

ContainersInit ==
    /\ arrays = <<>>
    /\ pool = <<>>
    /\ heap = {}

Array(buffer, capacity, items, sorted) ==
    [p |-> buffer, max |-> capacity, items |-> items, sorted |-> sorted]
sz(a) == Len(a.items)

(* new Item[...]: a buffer nobody has.                                       *)
NewBuffer == CHOOSE b \in 1 .. Cardinality(heap) + 1 : b \notin heap

-----------------------------------------------------------------------------
(* Constructors and destructor.                                              *)

EntryStays(i) == [j \in 1 .. Len(pool) - 1 |-> pool[j]]       (* mutation: not moved *)
(* pool_extract(i): the last entry takes the place of the one taken.         *)
PoolWithout(i) == [j \in 1 .. Len(pool) - 1 |-> IF j = i THEN pool[Len(pool)] ELSE pool[j]]

Begin(n, a, i) ==
    /\ arrays' = [m \in Live \cup {n} |-> IF m = n THEN a ELSE arrays[m]]
    /\ pool' = IF i = 0 THEN pool ELSE PoolWithout(i)
    /\ heap' = heap \cup {a.p}

FromPool(i) == Array(pool[i].p, pool[i].max, <<>>, TRUE)

ConstructEmpty(n) ==
    /\ n \notin Live
    /\ IF pool = <<>> THEN Begin(n, Array(NewBuffer, ARRAY_SIZE, <<>>, TRUE), 0)
       ELSE Begin(n, FromPool(Len(pool)), Len(pool))

(* array(int i): the first entry that is large enough.                       *)
ConstructSized(n, size) ==
    LET large == { j \in DOMAIN pool : pool[j].max > size }
    IN  /\ n \notin Live
        /\ IF large = {} THEN Begin(n, Array(NewBuffer, size + 1, <<>>, TRUE), 0)
           ELSE LET j == CHOOSE j \in large : \A m \in large : j <= m
                IN  Begin(n, FromPool(j), j)

DestroyArray(n) ==
    /\ n \in Live
    /\ arrays' = [m \in Live \ {n} |-> arrays[m]]
    /\ IF Len(pool) = max_pool \/ arrays[n].max > KeptUpTo
       THEN /\ heap' = heap \ {arrays[n].p}
            /\ UNCHANGED pool
       ELSE /\ pool' = Append(pool, [p |-> arrays[n].p, max |-> arrays[n].max])
            /\ UNCHANGED heap

-----------------------------------------------------------------------------
(* The operations of arrays.                                                 *)

(* Room for size items: the old buffer, or a new one of the capacity given   *)
(* and the old one deleted.                                                  *)
WithRoom(a, size, capacity) ==
    IF size <= a.max THEN a ELSE [a EXCEPT !.p = NewBuffer, !.max = capacity]

(* Twice the average; twice the capacity.                                    *)
Joint(n, m) == ((n + m) \div 2) * 4

Put(n, a) ==
    /\ arrays' = [arrays EXCEPT ![n] = a]
    /\ heap' = (heap \ {arrays[n].p}) \cup {a.p}
    /\ UNCHANGED pool

Assigned(a, b) == [WithRoom(a, sz(b), sz(b)) EXCEPT !.items = b.items, !.sorted = b.sorted]

(* The copy constructor takes what it can get and then assigns.              *)
ConstructCopy(n, m) ==
    /\ n \notin Live
    /\ m \in Live /\ (m \in SetNames <=> n \in SetNames)
    /\ LET b == arrays[m]
           a == IF pool = <<>> THEN Array(NewBuffer, b.max, <<>>, TRUE) ELSE FromPool(Len(pool))
           c == Assigned(a, b)
       IN  /\ arrays' = [x \in Live \cup {n} |-> IF x = n THEN c ELSE arrays[x]]
           /\ pool' = IF pool = <<>> THEN pool ELSE PoolWithout(Len(pool))
           /\ heap' = (heap \ {a.p}) \cup {c.p}

(* qsort(): the items in ascending order, the n-th the one that n come up to. *)
Place(s, i) == Cardinality({ j \in DOMAIN s : s[j] < s[i] \/ (s[j] = s[i] /\ j <= i) })
Ascending(s) == [n \in DOMAIN s |-> s[CHOOSE i \in DOMAIN s : Place(s, i) = n]]

(* The items at the indices in K, in their order.                            *)
Nth(K, n) == CHOOSE k \in K : Cardinality({ j \in K : j <= k }) = n
Picked(s, K) == [n \in 1 .. Cardinality(K) |-> s[Nth(K, n)]]

WithItem(a, x) ==
    [WithRoom(a, sz(a) + 1, 2 * a.max) EXCEPT
        !.items = Append(a.items, x),
        !.sorted = a.sorted /\ (a.items # <<>> => a.items[sz(a)] <= x)]

FlagStays(a, b) ==                              (* mutation: sorted is not reset *)
    [WithRoom(a, sz(a) + sz(b), Joint(sz(a), sz(b))) EXCEPT !.items = a.items \o b.items]

WithArray(a, b) ==
    [WithRoom(a, sz(a) + sz(b), Joint(sz(a), sz(b))) EXCEPT
        !.items = a.items \o b.items, !.sorted = FALSE]

(* merge(): of two sorted arrays.                                            *)
MergedArrays(a, b) ==
    [WithRoom(a, sz(a) + sz(b), Joint(sz(a), sz(b))) EXCEPT
        !.items = Ascending(a.items \o b.items)]

SortedArray(a) ==
    IF a.sorted THEN a ELSE [a EXCEPT !.items = Ascending(a.items), !.sorted = TRUE]

(* Of equal neighbours one stays.                                            *)
Unique(a) ==
    IF sz(a) < 2 THEN a
    ELSE LET s == SortedArray(a)
         IN  [s EXCEPT !.items = Picked(s.items, { i \in 1 .. sz(a) :
                                   i = 1 \/ s.items[i] # s.items[i - 1] })]

(* member(): where the item is, counted from 1, or 0; a binary search if the *)
(* array is flagged sorted.                                                  *)
Linear(a, x) ==
    LET at == { i \in 1 .. sz(a) : a.items[i] = x }
    IN  IF at = {} THEN 0 ELSE CHOOSE i \in at : \A j \in at : i <= j

Spans(a) == { span \in (0 .. sz(a)) \X (0 .. sz(a)) : span[1] < span[2] }
Binary(a, x) ==
    LET item(i) == a.items[i + 1]
        search[span \in Spans(a)] ==
            LET left  == span[1]
                right == span[2]
                probe == (left + right) \div 2
            IN  IF item(probe) = x THEN probe + 1
                ELSE IF probe = left
                     THEN IF probe + 1 < sz(a) /\ item(probe + 1) = x THEN probe + 2 ELSE 0
                     ELSE search[IF item(probe) < x THEN <<probe, right>> ELSE <<left, probe>>]
    IN  search[<<0, sz(a)>>]

member(a, x) ==
    IF sz(a) = 0 THEN 0 ELSE IF a.sorted THEN Binary(a, x) ELSE Linear(a, x)

Without(a, i) == [a EXCEPT !.items = RemoveAt(@, i)]

-----------------------------------------------------------------------------
(* The operations of sets; set::member is always linear.                     *)
SetWithItem(a, x) == IF Linear(a, x) > 0 THEN a ELSE WithItem(a, x)

(* Order is kept if little has to move, else the last item fills the gap.    *)
SetWithoutItem(a, x) ==
    LET i == Linear(a, x)
    IN  IF i = 0 THEN a
        ELSE IF a.sorted /\ sz(a) - (i - 1) < NearEnd THEN Without(a, i)
        ELSE [a EXCEPT !.items = Front([@ EXCEPT ![i] = a.items[sz(a)]]), !.sorted = FALSE]

(* An operation with one item after the other.                               *)
Applied(operation, a, x) ==
    CASE operation = "append" -> WithItem(a, x)
      [] operation = "add"    -> SetWithItem(a, x)
      [] operation = "remove" -> SetWithoutItem(a, x)

InTurn(operation, a, s) ==
    LET after[i \in 0 .. Len(s)] ==
            IF i = 0 THEN a ELSE Applied(operation, after[i - 1], s[i])
    IN  after[Len(s)]

SetWith(a, b)    == InTurn("add", a, b.items)
SetWithout(a, b) == InTurn("remove", a, b.items)

-----------------------------------------------------------------------------
(* Each operation of the classes on the objects there are.                   *)
AddItem(n, x) ==
    /\ sz(arrays[n]) < MaxItems
    /\ Put(n, IF n \in SetNames THEN SetWithItem(arrays[n], x) ELSE WithItem(arrays[n], x))

RemoveItem(n, x) ==
    Put(n, IF n \in SetNames THEN SetWithoutItem(arrays[n], x)
           ELSE LET i == member(arrays[n], x)
                IN  IF i = 0 THEN arrays[n] ELSE Without(arrays[n], i))

AssignItem(n, x) == Put(n, [arrays[n] EXCEPT !.items = <<x>>, !.sorted = TRUE])
Assign(n, m) == Put(n, IF n = m THEN arrays[n] ELSE Assigned(arrays[n], arrays[m]))
Clear(n) == Put(n, [arrays[n] EXCEPT !.items = <<>>, !.sorted = TRUE])
ClearAll(n) == Put(n, Array(NewBuffer, ARRAY_SIZE, <<>>, TRUE))
Sort(n) == Put(n, SortedArray(arrays[n]))
MakeUnique(n) == Put(n, Unique(arrays[n]))
RemoveAtIndex(n, i) == i <= sz(arrays[n]) /\ Put(n, Without(arrays[n], i))

Union(n, m) == Put(n, IF n = m THEN arrays[n] ELSE SetWith(arrays[n], arrays[m]))
Difference(n, m) == Put(n, IF n = m THEN arrays[n] ELSE SetWithout(arrays[n], arrays[m]))

(* disjoint_union: that they are disjoint is left to the caller.             *)
Concatenate(n, m) ==
    /\ n # m
    /\ n \in SetNames => ToSet(arrays[n].items) \cap ToSet(arrays[m].items) = {}
    /\ sz(arrays[n]) + sz(arrays[m]) <= MaxItems
    /\ Put(n, WithArray(arrays[n], arrays[m]))

Merge(n, m) ==
    /\ n # m
    /\ arrays[n].sorted /\ arrays[m].sorted
    /\ sz(arrays[n]) + sz(arrays[m]) <= MaxItems
    /\ Put(n, MergedArrays(arrays[n], arrays[m]))

Swap(n, m) ==
    /\ arrays' = [arrays EXCEPT ![n] = arrays[m], ![m] = arrays[n]]
    /\ UNCHANGED <<pool, heap>>

(* from_list: the list becomes the set, and the set the list.                *)
FromList(n, l) ==
    /\ arrays' = [arrays EXCEPT ![n] = [Unique(arrays[l]) EXCEPT !.sorted = TRUE],
                                ![l] = arrays[n]]
    /\ UNCHANGED <<pool, heap>>

(* ==, < and contain sort the sets they compare, if they get that far.       *)
Compare(n, m) ==
    /\ sz(arrays[n]) = sz(arrays[m])
    /\ arrays' = [arrays EXCEPT ![n] = SortedArray(@), ![m] = SortedArray(@)]
    /\ UNCHANGED <<pool, heap>>

(* intersect: n is cleared first, then the two others are sorted, and what   *)
(* is in both is added to n in order.  When one of them is empty the code    *)
(* reads an item it does not have (intersct.src:65, 72); what it finds there *)
(* decides only how early it returns the empty set.                          *)
Intersect(n, m1, m2) ==
    LET empty == [arrays[n] EXCEPT !.items = <<>>, !.sorted = TRUE]
        cleared == [arrays EXCEPT ![n] = empty]
        s1 == SortedArray(cleared[m1])
        s2 == SortedArray(cleared[m2])
        both == Picked(s1.items, { i \in 1 .. sz(s1) : Linear(s2, s1.items[i]) > 0 })
        new == InTurn("append", empty, both)
    IN  /\ arrays' = [arrays EXCEPT ![m2] = s2, ![m1] = s1, ![n] = new]
        /\ heap' = (heap \ {empty.p}) \cup {new.p}
        /\ UNCHANGED pool

ArrayOperation ==
    \/ \E n \in Names :
          \/ ConstructEmpty(n)
          \/ \E size \in SizesAsked : ConstructSized(n, size)
          \/ \E m \in Names : ConstructCopy(n, m)
          \/ DestroyArray(n)
    \/ \E n \in Live :
          \/ \E x \in Items : AddItem(n, x) \/ RemoveItem(n, x) \/ AssignItem(n, x)
          \/ Clear(n) \/ ClearAll(n) \/ Sort(n) \/ MakeUnique(n)
          \/ \E i \in 1 .. MaxItems : RemoveAtIndex(n, i)
    \/ \E n, m \in LiveLists :
          Assign(n, m) \/ Concatenate(n, m) \/ Merge(n, m) \/ Swap(n, m)

SetOperation ==
    \/ \E n, m \in LiveSets :
          \/ Assign(n, m) \/ Union(n, m) \/ Difference(n, m) \/ Concatenate(n, m)
          \/ Swap(n, m) \/ Compare(n, m)
          \/ \E m1 \in LiveSets : Intersect(n, m1, m)
    \/ \E n \in LiveSets, l \in LiveLists : FromList(n, l)

ContainersNext == ArrayOperation \/ SetOperation

ContainersSpec == ContainersInit /\ [][ContainersNext]_containerVars

-----------------------------------------------------------------------------
Pooled == { pool[i].p : i \in DOMAIN pool }

(* Every buffer has one owner, an array or an entry of the pool, and every   *)
(* owner a buffer that is allocated, with room for what is in it: none is    *)
(* shared, used after its deletion, forgotten or too small, however arrays   *)
(* grow, are swapped, go to the pool and come back.                          *)
OneOwner ==
    /\ heap = Pooled \cup { arrays[n].p : n \in Live }
    /\ Cardinality(heap) = Len(pool) + Cardinality(Live)
    /\ \A n \in Live : sz(arrays[n]) <= arrays[n].max /\ arrays[n].max > 0

(* A set has no item twice, and the flag says the truth: what is flagged     *)
(* sorted is ascending, so that the binary search finds what a linear one    *)
(* finds, and sort() and unique() may trust it.                              *)
SetsAreSets ==
    \A n \in Live :
        /\ n \in SetNames => Cardinality(ToSet(arrays[n].items)) = sz(arrays[n])
        /\ \A x \in Items : member(arrays[n], x) > 0 <=> x \in ToSet(arrays[n].items)
=============================================================================

------------------------------ MODULE Machines ------------------------------
(***************************************************************************)
(* The finite machines of grail (grail-adapter/grail/classes/fm) and the   *)
(* operations on them that the filters, the adapter and the verification   *)
(* bucket are built from.  A machine is its start states, its final states *)
(* and its instructions <<source, label, sink>>; states are numbers, the   *)
(* labels here numbers too.  Each operation is one of fm's members.        *)
(***************************************************************************)
EXTENDS Integers, Sequences, FiniteSets, SequencesExt, FiniteSetsExt

Clear == [start |-> {}, final |-> {}, arcs |-> {}]

labels(m) == {t[2] : t \in m.arcs}
states(m) == m.start \cup m.final \cup UNION {{t[1], t[3]} : t \in m.arcs}
max_state(m) == Max(states(m) \cup {0})
number_of_states(m) == Cardinality(states(m))

SinksOn(m, S, x) == {t[3] : t \in {u \in m.arcs : u[1] \in S /\ u[2] = x}}
member_of_language(m, w) ==
    LET S[i \in 0 .. Len(w)] == IF i = 0 THEN m.start ELSE SinksOn(m, S[i - 1], w[i])
    IN  S[Len(w)] \cap m.final # {}

is_deterministic(m) ==
    /\ Cardinality(m.start) = 1
    /\ \A s \in states(m), x \in labels(m) : Cardinality(SinksOn(m, {s}, x)) <= 1
is_complete(m) == \A s \in states(m), x \in labels(m) : SinksOn(m, {s}, x) # {}

(* The states reached from the start states, wave by wave.                   *)
reachable_states(m) ==
    LET wave[i \in Nat] ==
            IF i = 0 THEN m.start
            ELSE LET S == wave[i - 1] IN S \cup {t[3] : t \in {u \in m.arcs : u[1] \in S}}
    IN  wave[number_of_states(m)]

reachable_fm(m) ==
    LET R == reachable_states(m)
    IN  [m EXCEPT !.final = @ \cap R, !.arcs = {t \in @ : t[1] \in R /\ t[3] \in R}]

AllAccept(m) == reachable_states(m) \subseteq m.final   (* mutation: is_complete() not asked *)
is_universal(m) == is_complete(m) /\ reachable_states(m) \subseteq m.final

renumber(m, bottom) ==
    [start |-> {s + bottom : s \in m.start},
     final |-> {s + bottom : s \in m.final},
     arcs  |-> {<<t[1] + bottom, t[2], t[3] + bottom>> : t \in m.arcs}]

(* operator +=: the parameter's states are numbered after this machine's.    *)
NotRenumbered(a, p) ==    (* mutation: the states of the two fall together *)
    [start |-> a.start \cup p.start, final |-> a.final \cup p.final, arcs |-> a.arcs \cup p.arcs]
unite(a, p) ==
    LET b == renumber(p, max_state(a) + 1)
    IN  [start |-> a.start \cup b.start, final |-> a.final \cup b.final,
         arcs |-> a.arcs \cup b.arcs]

(* operator ^=: the final states take over the instructions of each start    *)
(* state of the parameter.  Those are then dropped from the start state,     *)
(* unless one seen so far leads back to the start state it leaves.  The      *)
(* start states are taken by their numbers; the code takes them as its set   *)
(* holds them, which is the same for one start state.                        *)
Redirected(b) == {t \in b.arcs : t[1] \in b.start}
Dropped(b) ==
    {t \in Redirected(b) : ~\E u \in Redirected(b) : u[1] <= t[1] /\ u[3] = u[1]}
catenate(a, p) ==
    LET b == renumber(p, max_state(a) + 1)
    IN  [start |-> a.start,
         final |-> IF p.start \cap p.final # {} THEN a.final \cup b.final ELSE b.final,
         arcs  |-> a.arcs \cup {<<f, t[2], t[3]>> : f \in a.final, t \in Redirected(b)}
                          \cup (b.arcs \ Dropped(b))]

plus(m) ==
    [m EXCEPT !.arcs = @ \cup {<<t[1], t[2], s>> :
                                t \in {u \in m.arcs : u[3] \in m.final}, s \in m.start}]

(* The one start state afterwards is a new one with the arcs of the old ones.*)
star(m) ==
    LET p     == plus(m)
        clone == max_state(p) + 1
    IN  [start |-> {clone}, final |-> p.final \cup {clone},
         arcs  |-> p.arcs \cup {<<clone, t[2], t[3]>> :
                                  t \in {u \in p.arcs : u[1] \in p.start}}]

reverse(m) ==
    [start |-> m.final, final |-> m.start,
     arcs  |-> {<<t[3], t[2], t[1]>> : t \in m.arcs}]

Trimmed(m) == reverse(reachable_fm(reverse(reachable_fm(m))))

(* No cycle is left once only useful states are; the source finds one when a *)
(* state turns up among its own ancestors.                                   *)
is_finite(m) ==
    LET t == Trimmed(m)
    IN  \A s \in states(t) :
            s \notin reachable_states([t EXCEPT !.start =
                         {u[3] : u \in {v \in t.arcs : v[1] = s}}])

(* What lies ahead of first on the labels X, all of it in S, in the order it *)
(* is met: wave by wave, in each state by label.  ahead[<<s, x>>] is a set   *)
(* of at most one item.                                                      *)
Ascending(T) == [i \in 1 .. Cardinality(T) |->
                   CHOOSE s \in T : Cardinality({u \in T : u < s}) = i - 1]
Numbered(first, X, S, ahead) ==
    LET New(at, x) == ahead[<<at.seq[at.i], x>>] \ ToSet(at.seq)
        Fresh(at)  == {x \in X : New(at, x) # {} /\ \A y \in X : y < x => New(at, y) # New(at, x)}
        Met(at)    == LET L == Ascending(Fresh(at))
                      IN  at.seq \o [j \in DOMAIN L |-> CHOOSE u \in New(at, L[j]) : TRUE]
        from[at \in [seq : Seq(S), i : Nat \ {0}]] ==
            IF at.i > Len(at.seq) THEN at ELSE from[[seq |-> Met(at), i |-> at.i + 1]]
    IN  from[[seq |-> <<first>>, i |-> 1]].seq
Place(seq, s) == CHOOSE i \in DOMAIN seq : seq[i] = s

(* It refuses (0) a machine that is not deterministic.                       *)
canonical_numbering(m) ==
    IF ~is_deterministic(m) THEN m
    ELSE LET met == Numbered(CHOOSE s \in m.start : TRUE, labels(m), states(m),
                             [p \in states(m) \X labels(m) |-> SinksOn(m, {p[1]}, p[2])])
             New(s) == Place(met, s) - 1
             Met    == ToSet(met)
         IN  [start |-> {0}, final |-> {New(s) : s \in m.final \cap Met},
              arcs  |-> {<<New(t[1]), t[2], New(t[3])>> : t \in {u \in m.arcs : u[1] \in Met}}]

(* The subset construction, on the useful states, without the empty set.     *)
subset(m) ==
    IF is_deterministic(m) THEN m
    ELSE LET t   == Trimmed(m)
             On(S, x) == SinksOn(t, S, x)
             met == Numbered(t.start, labels(t), SUBSET states(t),
                              [p \in (SUBSET states(t)) \X labels(t) |-> {On(p[1], p[2])} \ {{}}])
         IN  [start |-> {0},
              final |-> {i - 1 : i \in {j \in DOMAIN met : met[j] \cap t.final # {}}},
              arcs  |-> {<<p[1] - 1, p[2], Place(met, On(met[p[1]], p[2])) - 1>> :
                           p \in {q \in (DOMAIN met) \X labels(t) : On(met[q[1]], q[2]) # {}}}]

(* nfatodfa(): all states and the empty set are kept; whatever it is given,  *)
(* the result is deterministic and complete.                                 *)
nfatodfa(m) ==
    LET On(S, x) == SinksOn(m, S, x)
        met == Numbered(m.start, labels(m), SUBSET states(m),
                        [p \in (SUBSET states(m)) \X labels(m) |-> {On(p[1], p[2])}])
    IN  [start |-> {0},
         final |-> {i - 1 : i \in {j \in DOMAIN met : met[j] \cap m.final # {}}},
         arcs  |-> {<<i - 1, x, Place(met, On(met[i], x)) - 1>> :
                      i \in DOMAIN met, x \in labels(m)}]

(* A state is taken for complete when it has as many instructions as there   *)
(* are labels; the others get the missing ones, to a new sink.               *)
complete(m) ==
    LET X     == labels(m)
        Lacking(s) == Cardinality({t \in m.arcs : t[1] = s}) # Cardinality(X)
        sink  == max_state(m) + 1
    IN  IF \A s \in states(m) : ~Lacking(s) THEN m
        ELSE [m EXCEPT !.arcs = @ \cup {<<sink, x, sink>> : x \in X} \cup
                 {<<p[1], p[2], sink>> : p \in
                    {q \in states(m) \X X : Lacking(q[1]) /\ SinksOn(m, {q[1]}, q[2]) = {}}}]

complement(m) ==
    LET c == complete(subset(m)) IN [c EXCEPT !.final = states(c) \ @]

(* The pair of a state of a and one of b is numbered by both.                *)
cross_product(a, b) ==
    LET max == max_state(a) + 1
    IN  [start |-> {s + u * max : s \in a.start, u \in b.start},
         final |-> {s + u * max : s \in a.final, u \in b.final},
         arcs  |-> {<<p[1][1] + p[2][1] * max, p[1][2], p[1][3] + p[2][3] * max>> :
                      p \in {q \in a.arcs \X b.arcs : q[1][2] = q[2][2]}}]

(* Either machine moves while the other stands.  The pair is numbered by the *)
(* number of states the first has, which keeps pairs apart only if those are *)
(* numbered without a gap.                                                   *)
Shuffled(c1, c2) ==
    LET Pair(s, u) == s + u * number_of_states(c1)
    IN  [start |-> {Pair(s, u) : s \in c1.start, u \in c2.start},
         final |-> {Pair(s, u) : s \in c1.final, u \in c2.final},
         arcs  |-> {<<Pair(t[1], k), t[2], Pair(t[3], k)>> :
                      t \in c1.arcs, k \in 0 .. number_of_states(c2) - 1}
                   \cup {<<Pair(k, t[1]), t[2], Pair(k, t[3])>> :
                      t \in c2.arcs, k \in 0 .. number_of_states(c1) - 1}]
shuffle(m1, m2) == Shuffled(canonical_numbering(m1), canonical_numbering(m2))

(* Arcs and start states from which no final state can be reached go.        *)
useful_fm(m) ==
    LET V == reachable_states(reverse(m))
    IN  [m EXCEPT !.start = @ \cap V, !.arcs = {t \in @ : t[1] \in V /\ t[3] \in V}]

reduce(m) ==
    LET r == reachable_fm(m)
    IN  IF r.final = {} THEN [start |-> {0}, final |-> {}, arcs |-> {<<0, 1, 0>>}]
        ELSE useful_fm(r)

prefix(m) == LET u == useful_fm(m) IN [u EXCEPT !.final = states(u)]
suffix(m) == [m EXCEPT !.start = states(m)]

(* min_by_partition(), Hopcroft's partition of a complete machine numbered   *)
(* without a gap, as the lists the code keeps: which state of a class        *)
(* represents it depends on their order.  A partition is its lists, the      *)
(* lists still to be split with (the queue T), and for each list but the     *)
(* first two those split off from it.  Letters are taken in their order; the *)
(* code takes them as they turn up in the instructions.                      *)
FirstLists(c) ==
    [lists    |-> <<Reverse(Ascending(states(c) \ c.final)), Reverse(Ascending(c.final))>>,
     waiting  |-> <<1, 2>>,
     children |-> << <<>>, <<>> >>]

(* The states of a list and of all lists split off from it, last one first.  *)
Gathered(h, i) ==
    LET level[d \in Nat] ==
            IF d = 0 THEN <<i>>
            ELSE LET above == level[d - 1]
                 IN  FlattenSeq([k \in DOMAIN above |-> h.children[above[k]]])
        family == FlattenSeq([d \in 1 .. Len(h.lists) |-> level[d - 1]])
    IN  Reverse(FlattenSeq([k \in DOMAIN family |-> h.lists[family[k]]]))

(* The items of the list that are in S, in their order.                      *)
Only(list, S) == FlattenSeq([k \in DOMAIN list |-> IF list[k] \in S THEN <<list[k]>> ELSE <<>>])

NothingEnqueued(h, n) == h.waiting    (* mutation: new lists do not split others *)
Enqueued(h, n) == h.waiting \o [k \in 1 .. n |-> Len(h.lists) + k]

(* The states met with x in front of S leave their list unless it is left    *)
(* empty; the smaller part is the new list.                                  *)
SplitWith(c, h, S, x) ==
    LET before == FlattenSeq([k \in DOMAIN S |->
                      Ascending({t[1] : t \in {u \in c.arcs : u[2] = x /\ u[3] = S[k]}})])
        Leaving(i) == Only(before, ToSet(h.lists[i]))
        Staying(i) == Only(h.lists[i], ToSet(h.lists[i]) \ ToSet(before))
        parted   == {i \in DOMAIN h.lists : Leaving(i) # <<>> /\ Staying(i) # <<>>}
        First(i) == Min({k \in DOMAIN before : before[k] \in ToSet(h.lists[i])})
        firsts   == Ascending({First(i) : i \in parted})
        order    == [k \in DOMAIN firsts |-> CHOOSE i \in parted : First(i) = firsts[k]]
        New(i)   == Len(h.lists) + Place(order, i)
        Swapped(i) == Len(Staying(i)) < Len(Leaving(i))
        Kept(i)  == IF Swapped(i) THEN Reverse(Leaving(i)) ELSE Staying(i)
        Moved(i) == IF Swapped(i) THEN Staying(i) ELSE Reverse(Leaving(i))
    IN  [lists    |-> [i \in DOMAIN h.lists |-> IF i \in parted THEN Kept(i) ELSE h.lists[i]]
                      \o [k \in DOMAIN order |-> Moved(order[k])],
         waiting  |-> Enqueued(h, Len(order)),
         children |-> [i \in DOMAIN h.lists |->
                          IF i \in parted /\ i > 2 THEN Append(h.children[i], New(i))
                                                   ELSE h.children[i]]
                      \o [k \in DOMAIN order |-> <<>>]]

SplitWithNext(c, h) ==
    LET S == Gathered(h, Head(h.waiting))
        X == Ascending(labels(c))
        after[k \in Nat] ==
            IF k = 0 THEN [h EXCEPT !.waiting = Tail(@)] ELSE SplitWith(c, after[k - 1], S, X[k])
    IN  after[Len(X)]

(* Each list waits once, and no list but one of the first two is empty.      *)
Partition(c) ==
    LET round[i \in Nat] ==
            IF i = 0 THEN FirstLists(c)
            ELSE LET h == round[i - 1]
                 IN  IF h.waiting = <<>> THEN h ELSE SplitWithNext(c, h)
    IN  round[number_of_states(c) + 1].lists

(* "minstate": the least state of a list, but 0 gives way to those behind it.*)
Representative(list) ==
    LET least[k \in 1 .. Len(list)] ==
            IF k = 1 THEN list[1]
            ELSE LET s == least[k - 1] IN IF s = 0 \/ list[k] < s THEN list[k] ELSE s
    IN  least[Len(list)]

(* The instructions to the other states of a list are led to the one that    *)
(* represents it, and only that one stays final.                             *)
Merge(c, lists) ==
    LET Of(s) == Representative(CHOOSE l \in ToSet(lists) : s \in ToSet(l))
    IN  [start |-> c.start, final |-> {s \in c.final : Of(s) = s},
         arcs  |-> {<<t[1], t[2], Of(t[3])>> : t \in c.arcs}]
MergeAlike(c) == Merge(c, Partition(c))
min_by_partition(m) ==
    canonical_numbering(reachable_fm(MergeAlike(complete(canonical_numbering(m)))))

(* The start state is not the one that represents its list: it stays beside  *)
(* that one, and is no longer final.                                         *)
StartGivesWay(m) ==
    \E l \in ToSet(Partition(complete(canonical_numbering(m)))) :
        0 \in ToSet(l) /\ Representative(l) # 0

(* fltofm(): a tree of the words, one state for each of their prefixes, 0    *)
(* the empty one; fmtofl() lists the words of a machine that is finite.      *)
fltofm(L) ==
    LET P    == UNION {{SubSeq(w, 1, i) : i \in 0 .. Len(w)} : w \in L}
        Before(u, v) == \/ Len(u) < Len(v)
                        \/ /\ Len(u) = Len(v)
                           /\ \E i \in DOMAIN u : u[i] < v[i] /\ SubSeq(u, 1, i - 1) = SubSeq(v, 1, i - 1)
        At(w) == Cardinality({u \in P : Before(u, w)})
    IN  IF L = {} THEN Clear
        ELSE [start |-> {0}, final |-> {At(w) : w \in L},
              arcs  |-> {<<At(Front(w)), Last(w), At(w)>> : w \in P \ {<<>>}}]

Longer(t, W) ==   (* pairs of a state and a word that leads to it *)
    UNION {{<<a[3], Append(p[2], a[2])>> : a \in {b \in t.arcs : b[1] = p[1]}} : p \in W}
MembersIn(t, W) == {p[2] : p \in {q \in W : q[1] \in t.final}}

fmtofl(m) ==
    LET t == Trimmed(m)
        wave[i \in Nat] ==
            IF i = 0 THEN {<<s, <<>>>> : s \in t.start} ELSE Longer(t, wave[i - 1])
    IN  MembersIn(t, UNION {wave[i] : i \in 0 .. number_of_states(t)})
=============================================================================

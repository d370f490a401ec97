--------------------------- MODULE MinimalityProofs ---------------------------
(***************************************************************************)
(* The minimisations of grail, for all machines: both ways of the class    *)
(* DFA, reversal and Hopcroft's partition, end with the one minimal        *)
(* machine of the language they began with, under the same numbers.        *)
(*                                                                         *)
(* A machine is minimal when its states are told apart by the words beyond *)
(* them; two such machines with one language are the same but for names,   *)
(* and canonical_numbering() takes the names away.  It remains to show of  *)
(* each way that it keeps the language and that its result is minimal.     *)
(*                                                                         *)
(* The last part takes the other operation that numbers its machines anew, *)
(* shuffle(), and shows which words its result accepts.                    *)
(***************************************************************************)
EXTENDS MachinesProofs

-----------------------------------------------------------------------------
(***************************************************************************)
(* Minimal machines: no two of their states have the same words beyond     *)
(* them, and every state is reached and leads to a final one. Two of them  *)
(* with the same words differ in nothing but the names of their states.    *)
(***************************************************************************)

(* What lies beyond a state: the words that lead from it to a final one.     *)
Beyond(m, s) == {w \in Seq(Int) : \E u \in m.final : Spells(m, s, w, u)}
Beginning(m, s) == [start |-> {s}, final |-> m.final, arcs |-> m.arcs]

(* From a state a word leads letter by letter.                               *)
LEMMA SpellsAtOnce ==
    ASSUME NEW m, NEW s, NEW u
    PROVE  Spells(m, s, <<>>, u) <=> u = s
<1> DEFINE n == Beginning(m, s)
<1>1. n.start = {s} /\ n.arcs = m.arcs
  BY DEF Beginning
<1> HIDE DEF n
<1>2. \A w, t : Leads(n, w, t) <=> Spells(m, s, w, t)
  BY <1>1 DEF Leads, Spells, Run
<1>3. Leads(n, <<>>, u) <=> u = s
  BY <1>1, LeadsAtOnce
<1> QED
  BY <1>2, <1>3

(* The last letter leads along an arc.                                       *)
LEMMA SpellsByLetter ==
    ASSUME NEW m, NEW s, NEW u, NEW v \in Seq(Int), NEW x \in Int
    PROVE  Spells(m, s, Append(v, x), u) <=> \E t : Spells(m, s, v, t) /\ <<t, x, u>> \in m.arcs
<1> DEFINE n == Beginning(m, s)
<1>1. n.start = {s} /\ n.arcs = m.arcs
  BY DEF Beginning
<1> HIDE DEF n
<1>2. \A w, t : Leads(n, w, t) <=> Spells(m, s, w, t)
  BY <1>1 DEF Leads, Spells, Run
<1>3. Leads(n, Append(v, x), u) <=> \E t : Leads(n, v, t) /\ <<t, x, u>> \in n.arcs
  BY LeadsByLetter
<1> QED
  BY <1>1, <1>2, <1>3

(* A word behind another one leads on from where that one led.               *)
LEMMA SpellsOnward ==
    ASSUME NEW m, NEW s, NEW v \in Seq(Int)
    PROVE  \A w \in Seq(Int) : \A u :
              Spells(m, s, v \o w, u) <=> \E t : Spells(m, s, v, t) /\ Spells(m, t, w, u)
<1> DEFINE T == {w \in Seq(Int) : \A u :
              Spells(m, s, v \o w, u) <=> \E t : Spells(m, s, v, t) /\ Spells(m, t, w, u)}
<1>1. <<>> \in T
  <2>1. v \o <<>> = v /\ <<>> \in Seq(Int)
    BY Behind
  <2>2. \A t, u : Spells(m, t, <<>>, u) <=> u = t
    BY SpellsAtOnce
  <2>3. ASSUME NEW u
        PROVE  Spells(m, s, v \o <<>>, u) <=> \E t : Spells(m, s, v, t) /\ Spells(m, t, <<>>, u)
    BY <2>1, <2>2
  <2> QED
    BY <2>1, <2>3
<1>2. ASSUME NEW w \in Seq(Int), NEW x \in Int, w \in T PROVE Append(w, x) \in T
  <2>1. Append(w, x) \in Seq(Int) /\ v \o w \in Seq(Int) /\ v \o Append(w, x) = Append(v \o w, x)
    BY Behind
  <2>2. \A u : Spells(m, s, v \o w, u) <=> \E t : Spells(m, s, v, t) /\ Spells(m, t, w, u)
    BY <1>2
  <2>3. \A u : Spells(m, s, Append(v \o w, x), u)
                  <=> \E r : Spells(m, s, v \o w, r) /\ <<r, x, u>> \in m.arcs
    <3>1. PICK p \in Seq(Int) : p = v \o w
      BY <2>1
    <3>2. \A u : Spells(m, s, Append(p, x), u) <=> \E r : Spells(m, s, p, r) /\ <<r, x, u>> \in m.arcs
      BY SpellsByLetter, Zenon
    <3> QED
      BY <3>1, <3>2
  <2>4. \A t, u : Spells(m, t, Append(w, x), u)
                     <=> \E r : Spells(m, t, w, r) /\ <<r, x, u>> \in m.arcs
    BY SpellsByLetter, Zenon
  <2>5. ASSUME NEW u
        PROVE  Spells(m, s, v \o Append(w, x), u)
                  <=> \E t : Spells(m, s, v, t) /\ Spells(m, t, Append(w, x), u)
    <3>1. Spells(m, s, v \o Append(w, x), u)
             <=> \E r : Spells(m, s, v \o w, r) /\ <<r, x, u>> \in m.arcs
      BY <2>1, <2>3
    <3>2. (\E r : Spells(m, s, v \o w, r) /\ <<r, x, u>> \in m.arcs)
             <=> \E t : Spells(m, s, v, t) /\ \E r : Spells(m, t, w, r) /\ <<r, x, u>> \in m.arcs
      BY <2>2
    <3> QED
      BY <2>4, <3>1, <3>2
  <2> QED
    BY <2>1, <2>5
<1>3. Seq(Int) \subseteq T
  <2> HIDE DEF T
  <2> QED
    BY <1>1, <1>2, WordInduction
<1> QED
  BY <1>3

(* A single letter leads along an arc.                                       *)
LEMMA SpellsLetter ==
    ASSUME NEW m, NEW x \in Int
    PROVE  \A s, u : Spells(m, s, <<x>>, u) <=> <<s, x, u>> \in m.arcs
<1> SUFFICES ASSUME NEW s, NEW u
             PROVE  Spells(m, s, <<x>>, u) <=> <<s, x, u>> \in m.arcs
  OBVIOUS
<1>1. <<>> \in Seq(Int) /\ Append(<<>>, x) = <<x>>
  OBVIOUS
<1>2. Spells(m, s, Append(<<>>, x), u) <=> \E t : Spells(m, s, <<>>, t) /\ <<t, x, u>> \in m.arcs
  BY <1>1, SpellsByLetter, Zenon
<1>3. \A t : Spells(m, s, <<>>, t) <=> t = s
  BY SpellsAtOnce
<1> QED
  BY <1>1, <1>2, <1>3

(* What lies beyond a state lies beyond those its arcs lead to.              *)
LEMMA BeyondLetter ==
    ASSUME NEW m, NEW s
    PROVE  /\ <<>> \in Beyond(m, s) <=> s \in m.final
           /\ \A x \in Int, w \in Seq(Int) :
                 <<x>> \o w \in Beyond(m, s) <=> \E t : <<s, x, t>> \in m.arcs /\ w \in Beyond(m, t)
           /\ \A v \in Seq(Int), w \in Seq(Int) :
                 v \o w \in Beyond(m, s) <=> \E t : Spells(m, s, v, t) /\ w \in Beyond(m, t)
<1>1. <<>> \in Beyond(m, s) <=> s \in m.final
  <2>1. <<>> \in Seq(Int) /\ \A u : Spells(m, s, <<>>, u) <=> u = s
    BY SpellsAtOnce
  <2> QED
    BY <2>1 DEF Beyond
<1>2. ASSUME NEW v \in Seq(Int), NEW w \in Seq(Int)
      PROVE  v \o w \in Beyond(m, s) <=> \E t : Spells(m, s, v, t) /\ w \in Beyond(m, t)
  <2>1. v \o w \in Seq(Int)
    BY Behind
  <2>2. \A u : Spells(m, s, v \o w, u) <=> \E t : Spells(m, s, v, t) /\ Spells(m, t, w, u)
    BY SpellsOnward
  <2> QED
    BY <2>1, <2>2 DEF Beyond
<1>3. ASSUME NEW x \in Int, NEW w \in Seq(Int)
      PROVE  <<x>> \o w \in Beyond(m, s) <=> \E t : <<s, x, t>> \in m.arcs /\ w \in Beyond(m, t)
  <2>1. <<x>> \in Seq(Int)
    OBVIOUS
  <2>2. \A t : Spells(m, s, <<x>>, t) <=> <<s, x, t>> \in m.arcs
    BY SpellsLetter
  <2> QED
    BY <1>2, <2>1, <2>2
<1> QED
  BY <1>1, <1>2, <1>3

(* The accepted words are those beyond a start state.                        *)
LEMMA AcceptedIsBeyond ==
    ASSUME NEW m
    PROVE  \A w : w \in Accepted(m) <=> \E s \in m.start : w \in Beyond(m, s)
BY DEF Accepted, Beyond

(* From a word's one state lies ahead what the language has behind the word. *)
LEMMA BeyondWord ==
    ASSUME NEW m, Usual(m), Determinate(m), NEW w \in Seq(Int), NEW s, Leads(m, w, s),
           NEW v \in Seq(Int)
    PROVE  v \in Beyond(m, s) <=> w \o v \in Accepted(m)
<1>1. PICK b \in Nat : Bounded(m, b)
  BY DEF Usual
<1>2. \A u : Leads(m, w, u) => u = s
  BY <1>1, LeadsToOne
<1>3. PICK z \in m.start : Spells(m, z, w, s)
  BY DEF Leads
<1>4. \A r : w \o v \in Beyond(m, r) <=> \E t : Spells(m, r, w, t) /\ v \in Beyond(m, t)
  BY BeyondLetter
<1>5. w \o v \in Accepted(m) <=> \E r \in m.start : w \o v \in Beyond(m, r)
  BY AcceptedIsBeyond
<1> QED
  BY <1>2, <1>3, <1>4, <1>5 DEF Leads

(* Every state is reached, from every state a final one is reached, and no   *)
(* two states have the same words ahead.                                     *)
Minimal(m) ==
    /\ Usual(m) /\ Determinate(m)
    /\ \A s \in states(m) : \E w \in Seq(Int) : Leads(m, w, s)
    /\ \A s \in states(m) : Beyond(m, s) # {}
    /\ \A s, t \in states(m) : Beyond(m, s) = Beyond(m, t) => s = t

(* Two such machines of one language have states with the same words ahead.  *)
LEMMA SameBeyond ==
    ASSUME NEW a, Minimal(a), NEW c, Minimal(c), Accepted(a) = Accepted(c), NEW s \in states(a)
    PROVE  \E u \in states(c) : Beyond(c, u) = Beyond(a, s)
<1>1. PICK w \in Seq(Int) : Leads(a, w, s)
  BY DEF Minimal
<1>2. PICK v \in Seq(Int) : v \in Beyond(a, s)
  BY DEF Minimal, Beyond
<1>3. w \o v \in Accepted(c)
  BY <1>1, <1>2, BeyondWord DEF Minimal
<1>4. PICK z \in c.start : w \o v \in Beyond(c, z)
  BY <1>3, AcceptedIsBeyond
<1>5. PICK u : Spells(c, z, w, u)
  BY <1>4, BeyondLetter
<1>6. Leads(c, w, u)
  BY <1>5 DEF Leads
<1>7. u \in states(c)
  BY <1>6, LeadsToStates DEF Minimal, Usual
<1>8. ASSUME NEW x \in Seq(Int) PROVE x \in Beyond(c, u) <=> x \in Beyond(a, s)
  BY <1>1, <1>6, BeyondWord DEF Minimal
<1>9. Beyond(c, u) \subseteq Seq(Int) /\ Beyond(a, s) \subseteq Seq(Int)
  BY DEF Beyond
<1>10. Beyond(c, u) = Beyond(a, s)
  BY <1>8, <1>9
<1> QED
  BY <1>7, <1>10

(* ... between which the arcs lead alike.                                    *)
LEMMA SameArcs ==
    ASSUME NEW a, Minimal(a), NEW c, Minimal(c),
           NEW s \in states(a), NEW u \in states(c), Beyond(c, u) = Beyond(a, s),
           NEW t \in states(a), NEW v \in states(c), Beyond(c, v) = Beyond(a, t),
           NEW x \in Int, <<s, x, t>> \in a.arcs
    PROVE  <<u, x, v>> \in c.arcs
<1>1. PICK y \in Seq(Int) : y \in Beyond(a, t)
  BY DEF Minimal, Beyond
<1>2. <<x>> \o y \in Beyond(c, u)
  BY <1>1, BeyondLetter
<1>3. PICK z : <<u, x, z>> \in c.arcs
  BY <1>2, BeyondLetter
<1>4. z \in states(c)
  <2>1. PICK r \in c.arcs : r = <<u, x, z>>
    BY <1>3
  <2>2. r[3] = z
    BY <2>1
  <2> QED
    BY <2>2 DEF states
<1>5. ASSUME NEW m, Minimal(m), NEW p, NEW q, NEW r, <<p, x, q>> \in m.arcs, <<p, x, r>> \in m.arcs
      PROVE  q = r
  <2>1. PICK e \in m.arcs : e = <<p, x, q>>
    BY <1>5
  <2>2. PICK f \in m.arcs : f = <<p, x, r>>
    BY <1>5
  <2>3. e[1] = f[1] /\ e[2] = f[2] /\ e[3] = q /\ f[3] = r
    BY <2>1, <2>2
  <2> QED
    BY <1>5, <2>3 DEF Minimal, Determinate
<1>6. ASSUME NEW w \in Seq(Int) PROVE w \in Beyond(c, z) <=> w \in Beyond(a, t)
  <2>1. <<x>> \o w \in Beyond(a, s) <=> w \in Beyond(a, t)
    <3>1. <<x>> \o w \in Beyond(a, s) <=> \E q : <<s, x, q>> \in a.arcs /\ w \in Beyond(a, q)
      BY BeyondLetter
    <3> QED
      BY <1>5, <3>1
  <2>2. <<x>> \o w \in Beyond(c, u) <=> w \in Beyond(c, z)
    <3>1. <<x>> \o w \in Beyond(c, u) <=> \E q : <<u, x, q>> \in c.arcs /\ w \in Beyond(c, q)
      BY BeyondLetter
    <3> QED
      BY <1>3, <1>5, <3>1
  <2> QED
    BY <2>1, <2>2
<1>7. Beyond(c, z) = Beyond(c, v)
  <2>1. Beyond(c, z) \subseteq Seq(Int) /\ Beyond(a, t) \subseteq Seq(Int)
    BY DEF Beyond
  <2> QED
    BY <1>6, <2>1
<1> QED
  BY <1>3, <1>4, <1>7 DEF Minimal

(* h gives the states of a the names of those of c.                          *)
Renamed(a, c, h) ==
    /\ h \in [states(a) -> states(c)]
    /\ \A s, t \in states(a) : h[s] = h[t] => s = t
    /\ \A u \in states(c) : \E s \in states(a) : h[s] = u
    /\ \A s \in states(a) : /\ s \in a.start <=> h[s] \in c.start
                            /\ s \in a.final <=> h[s] \in c.final
    /\ \A s, t \in states(a), x \in Int : <<s, x, t>> \in a.arcs <=> <<h[s], x, h[t]>> \in c.arcs

(* A language has one minimal machine, up to the names of its states.        *)
LEMMA OneMinimalMachine ==
    ASSUME NEW a, Minimal(a), NEW c, Minimal(c), Accepted(a) = Accepted(c)
    PROVE  \E h : Renamed(a, c, h)
<1> DEFINE h == [s \in states(a) |-> CHOOSE u \in states(c) : Beyond(c, u) = Beyond(a, s)]
<1>1. ASSUME NEW s \in states(a) PROVE h[s] \in states(c) /\ Beyond(c, h[s]) = Beyond(a, s)
  <2>1. \E u \in states(c) : Beyond(c, u) = Beyond(a, s)
    BY SameBeyond
  <2> QED
    BY <2>1
<1>2. h \in [states(a) -> states(c)]
  <2>1. \A s \in states(a) : (CHOOSE u \in states(c) : Beyond(c, u) = Beyond(a, s)) \in states(c)
    BY <1>1
  <2> QED
    BY <2>1
<1> HIDE DEF h
<1>3. \A s \in states(a), u \in states(c) : Beyond(c, u) = Beyond(a, s) => h[s] = u
  BY <1>1 DEF Minimal
<1>4. \A s, t \in states(a) : h[s] = h[t] => s = t
  BY <1>1 DEF Minimal
<1>5. ASSUME NEW u \in states(c) PROVE \E s \in states(a) : h[s] = u
  <2>1. PICK s \in states(a) : Beyond(a, s) = Beyond(c, u)
    BY SameBeyond
  <2> QED
    BY <1>3, <2>1
<1>6. ASSUME NEW s \in states(a)
      PROVE  /\ s \in a.start <=> h[s] \in c.start
             /\ s \in a.final <=> h[s] \in c.final
  <2>1. PICK p : a.start = {p}
    BY DEF Minimal, Determinate
  <2>2. PICK q : c.start = {q}
    BY DEF Minimal, Determinate
  <2>3. Beyond(a, p) = Beyond(c, q)
    BY <2>1, <2>2, AcceptedIsBeyond
  <2>4. p \in states(a) /\ q \in states(c)
    BY <2>1, <2>2 DEF states
  <2>5. h[p] = q
    BY <1>3, <2>3, <2>4
  <2>6. s \in a.start <=> h[s] \in c.start
    BY <1>4, <2>1, <2>2, <2>4, <2>5
  <2>7. (<<>> \in Beyond(a, s) <=> s \in a.final) /\ (<<>> \in Beyond(c, h[s]) <=> h[s] \in c.final)
    BY BeyondLetter
  <2> QED
    BY <1>1, <2>6, <2>7
<1>7. ASSUME NEW s \in states(a), NEW t \in states(a), NEW x \in Int
      PROVE  <<s, x, t>> \in a.arcs <=> <<h[s], x, h[t]>> \in c.arcs
  <2>1. <<s, x, t>> \in a.arcs => <<h[s], x, h[t]>> \in c.arcs
    BY <1>1, SameArcs
  <2>2. <<h[s], x, h[t]>> \in c.arcs => <<s, x, t>> \in a.arcs
    BY <1>1, SameArcs
  <2> QED
    BY <2>1, <2>2
<1>8. Renamed(a, c, h)
  BY <1>2, <1>4, <1>5, <1>6, <1>7 DEF Renamed
<1> QED
  BY <1>8

-----------------------------------------------------------------------------
(***************************************************************************)
(* The numbering goes through the states one by one and depends on their   *)
(* names in nothing: under other names it lists the same states in the     *)
(* same order. So canonical_numbering() takes minimal machines with the    *)
(* same words to one and the same machine.                                 *)
(***************************************************************************)

(* Letters in order, and at most one item ahead of another with each.        *)
Numberable(X, S, ahead) ==
    /\ X \in SUBSET Int /\ IsFiniteSet(X)
    /\ ahead \in [S \X X -> SUBSET S]
    /\ \A p \in S \X X : \A u, v \in ahead[p] : u = v

(* Where the numbering ends, and its steps.                                  *)
Ended(S) == {at \in Places(S) : at.i > Len(at.seq)}
Steps(X, S, ahead) ==
    [at \in Places(S) |-> IF at \in Ended(S) THEN at
                          ELSE [seq |-> MetOn(at.seq, at.seq[at.i], X, ahead), i |-> at.i + 1]]
Begun(first) == [seq |-> <<first>>, i |-> 1]

(* A place in the numbering.                                                 *)
LEMMA PlacesAreTyped ==
    ASSUME NEW S, NEW at \in Places(S)
    PROVE  /\ at.seq \in Seq(S) /\ at.i \in Nat /\ at.i >= 1 /\ Len(at.seq) \in Nat
           /\ at = [seq |-> at.seq, i |-> at.i]
           /\ at \notin Ended(S) => at.i \in 1 .. Len(at.seq) /\ at.seq[at.i] \in S
<1>1. at.seq \in Seq(S) /\ at.i \in Nat \ {0} /\ at = [seq |-> at.seq, i |-> at.i]
  BY DEF Places
<1>2. Len(at.seq) \in Nat
  BY <1>1, LenProperties
<1>3. at \notin Ended(S) => at.i \in 1 .. Len(at.seq)
  BY <1>1, <1>2 DEF Ended
<1>4. at \notin Ended(S) => at.seq[at.i] \in S
  BY <1>1, <1>3, ElementOfSeq
<1> QED
  BY <1>1, <1>2, <1>3, <1>4

(* A step of the numbering.                                                  *)
Stepped(at, to, X, ahead) ==
    /\ to.i = at.i + 1
    /\ Len(at.seq) <= Len(to.seq)
    /\ \A j \in 1 .. Len(at.seq) : to.seq[j] = at.seq[j]
    /\ Once(at.seq) => Once(to.seq)
    /\ \A x \in X : ahead[<<at.seq[at.i], x>>] \subseteq ToSet(to.seq)
    /\ ToSet(at.seq) \subseteq ToSet(to.seq)

(* A step lists one item more as visited, keeps the list and adds what       *)
(* lies ahead.                                                               *)
LEMMA StepMeets ==
    ASSUME NEW X, NEW S, NEW ahead, Numberable(X, S, ahead),
           NEW at \in Places(S), at \notin Ended(S)
    PROVE  LET to == Steps(X, S, ahead)[at]
           IN  /\ to \in Places(S) /\ Stepped(at, to, X, ahead)
               /\ to = [seq |-> MetOn(at.seq, at.seq[at.i], X, ahead), i |-> at.i + 1]
<1> DEFINE met == MetOn(at.seq, at.seq[at.i], X, ahead)
           to == Steps(X, S, ahead)[at]
<1>1. at.seq \in Seq(S) /\ at.seq[at.i] \in S /\ at.i \in Nat
  BY PlacesAreTyped
<1>2. /\ met \in Seq(S) /\ Len(at.seq) <= Len(met)
      /\ \A j \in 1 .. Len(at.seq) : met[j] = at.seq[j]
      /\ Once(at.seq) => Once(met)
      /\ \A x \in X : ahead[<<at.seq[at.i], x>>] \subseteq ToSet(met)
      /\ ToSet(at.seq) \subseteq ToSet(met)
  BY <1>1, MetOnce DEF Numberable
<1>3. to = [seq |-> met, i |-> at.i + 1]
  BY DEF Steps
<1> HIDE DEF met, to
<1>4. to \in Places(S) /\ to.seq = met /\ to.i = at.i + 1
  BY <1>1, <1>2, <1>3 DEF Places
<1>5. Stepped(at, to, X, ahead)
  BY <1>2, <1>4 DEF Stepped
<1> QED
  BY <1>3, <1>4, <1>5 DEF met, to

(* The numbering is the recursion that takes these steps until it ends.      *)
LEMMA NumberedSettles ==
    ASSUME NEW X, NEW S, NEW ahead, Numberable(X, S, ahead), NEW first
    PROVE  /\ Ended(S) \in SUBSET Places(S)
           /\ Steps(X, S, ahead) \in [Places(S) -> Places(S)]
           /\ \E f : /\ Settles(f, Places(S), Ended(S), Steps(X, S, ahead))
                     /\ Numbered(first, X, S, ahead) = f[Begun(first)].seq
<1> DEFINE D == Places(S)
           Stop == Ended(S)
           To(at) == [seq |-> MetOn(at.seq, at.seq[at.i], X, ahead), i |-> at.i + 1]
           R(f) == f = [at \in D |-> IF at.i > Len(at.seq) THEN at ELSE f[To(at)]]
           from == CHOOSE f : R(f)
           next == Steps(X, S, ahead)
<1>1. Numbered(first, X, S, ahead) = from[Begun(first)].seq
  BY DEF Numbered, Places, MetOn, FreshOn, NewOn, Begun
<1>2. ASSUME NEW at \in D PROVE next[at] \in D
  <2>1. CASE at \in Stop
    BY <2>1 DEF Steps
  <2>2. CASE at \notin Stop
    BY <2>2, StepMeets
  <2> QED
    BY <2>1, <2>2
<1>3. next \in [D -> D] /\ Stop \in SUBSET D
  <2>1. next = [at \in D |-> next[at]]
    BY DEF Steps
  <2>2. Stop \in SUBSET D
    BY DEF Ended
  <2> HIDE DEF next, D, Stop
  <2> QED
    BY <1>2, <2>1, <2>2
<1>4. ASSUME NEW f, NEW at \in D
      PROVE  (IF at \in Stop THEN at ELSE f[next[at]]) = IF at.i > Len(at.seq) THEN at ELSE f[To(at)]
  <2>1. at \notin Stop => next[at] = To(at)
    BY DEF Steps
  <2>2. at \in Stop <=> at.i > Len(at.seq)
    BY DEF Ended
  <2> HIDE DEF To, next, D, Stop
  <2> QED
    BY <2>1, <2>2
<1> HIDE DEF To, next, D, Stop
<1>5. PICK f : Settles(f, D, Stop, next)
  BY <1>3, StoppingRecursion
<1>6. R(f)
  BY <1>4, <1>5 DEF Settles
<1>7. R(from)
  <2> HIDE DEF R
  <2> QED
    BY <1>6
<1> HIDE DEF from
<1>8. Settles(from, D, Stop, next)
  BY <1>4, <1>7 DEF Settles
<1> QED
  BY <1>1, <1>3, <1>8 DEF D, Stop, next

(* It ends, since a list without repetition is not longer than there are     *)
(* states.                                                                   *)
LEMMA NumberedStops ==
    ASSUME NEW X, NEW S, NEW ahead, Numberable(X, S, ahead), IsFiniteSet(S), NEW first \in S
    PROVE  LET Kept == {at \in Places(S) : Onward(at, first, X, ahead)}
               next == Steps(X, S, ahead)
           IN  /\ Begun(first) \in Kept
               /\ \E left \in [Kept -> Nat] :
                     \A at \in Kept : at \notin Ended(S) => next[at] \in Kept /\ left[next[at]] < left[at]
<1> DEFINE D == Places(S)
           Stop == Ended(S)
           next == Steps(X, S, ahead)
           start == Begun(first)
           Kept == {at \in D : Onward(at, first, X, ahead)}
           left == [at \in Kept |-> Cardinality(S) + 1 - at.i]
<1>8. ASSUME NEW at \in Kept
      PROVE  /\ at \in D /\ Len(at.seq) \in Nat /\ Len(at.seq) <= Cardinality(S)
             /\ Cardinality(S) + 1 - at.i \in Nat /\ Cardinality(S) \in Nat
  <2>1. at \in D /\ Once(at.seq) /\ at.i <= Len(at.seq) + 1
    BY DEF Onward
  <2>2. at.seq \in Seq(S) /\ at.i \in Nat /\ Len(at.seq) \in Nat
    BY <2>1, PlacesAreTyped
  <2>3. at.seq \in [1 .. Len(at.seq) -> S]
    BY <2>2, LenProperties
  <2>4. at.seq \in Injection(1 .. Len(at.seq), S)
    BY <2>1, <2>3 DEF Once, Injection, IsInjective
  <2>5. Cardinality(1 .. Len(at.seq)) <= Cardinality(S)
    BY <2>4, FS_Injection
  <2>6. Cardinality(1 .. Len(at.seq)) = Len(at.seq)
    BY <2>2, FS_Interval
  <2>7. Cardinality(S) \in Nat
    BY FS_CardinalityType
  <2>8. Len(at.seq) <= Cardinality(S)
    BY <2>5, <2>6
  <2> HIDE DEF D, Kept
  <2>9. Cardinality(S) + 1 - at.i \in Nat
    BY <2>1, <2>2, <2>7, <2>8
  <2> QED
    BY <2>1, <2>2, <2>7, <2>8, <2>9
<1>9. ASSUME NEW at \in Kept, at \notin Stop PROVE next[at] \in Kept /\ left[next[at]] < left[at]
  <2>1. at \in D /\ Onward(at, first, X, ahead)
    OBVIOUS
  <2> DEFINE to == next[at]
  <2>2. to \in D /\ Stepped(at, to, X, ahead)
    BY <1>9, <2>1, StepMeets
  <2>4. /\ at.i \in Nat /\ at.i >= 1 /\ Len(at.seq) \in Nat /\ at.i \in 1 .. Len(at.seq)
    BY <1>9, <2>1, PlacesAreTyped
  <2> HIDE DEF to, D, Kept, Stop, next
  <2>4a. Len(to.seq) \in Nat
    BY <2>2, PlacesAreTyped DEF D
  <2>5. Len(to.seq) >= 1 /\ to.i <= Len(to.seq) + 1
    BY <2>2, <2>4, <2>4a DEF Stepped
  <2>6. to.seq[1] = first /\ Once(to.seq)
    <3>1. 1 \in 1 .. Len(at.seq)
      BY <2>4
    <3> QED
      BY <2>1, <2>2, <3>1 DEF Onward, Stepped
  <2>7. Ahead(to, X, ahead)
    <3> SUFFICES ASSUME NEW j \in 1 .. to.i - 1, NEW x \in X
                 PROVE  ahead[<<to.seq[j], x>>] \subseteq ToSet(to.seq)
      BY DEF Ahead
    <3>1. j \in 1 .. at.i /\ j \in 1 .. Len(at.seq)
      BY <2>2, <2>4 DEF Stepped
    <3>2. to.seq[j] = at.seq[j]
      BY <2>2, <3>1 DEF Stepped
    <3>3. CASE j = at.i
      BY <2>2, <3>2, <3>3 DEF Stepped
    <3>4. CASE j # at.i
      <4>1. j \in 1 .. at.i - 1
        BY <2>4, <3>1, <3>4
      <4>2. ahead[<<at.seq[j], x>>] \subseteq ToSet(at.seq)
        BY <2>1, <4>1 DEF Onward, Ahead
      <4> QED
        BY <2>2, <3>2, <4>2 DEF Stepped
    <3> QED
      BY <3>3, <3>4
  <2>8. to \in Kept
    BY <2>2, <2>5, <2>6, <2>7 DEF Kept, Onward, Stepped
  <2>9. left[to] < left[at]
    <3>1. left[to] = Cardinality(S) + 1 - to.i /\ left[at] = Cardinality(S) + 1 - at.i
      BY <2>8
    <3>2. Cardinality(S) \in Nat
      BY <1>8
    <3> HIDE DEF left
    <3> QED
      BY <2>2, <2>4, <3>1, <3>2 DEF Stepped
  <2> QED
    BY <2>8, <2>9 DEF to
<1>10. start \in Kept
  <2> DEFINE q == <<first>>
  <2>1. q \in Seq(S) /\ Len(q) = 1 /\ q[1] = first
    OBVIOUS
  <2> HIDE DEF q
  <2>2. start \in D /\ start.seq = q /\ start.i = 1
    BY <2>1 DEF Places, q, Begun
  <2> HIDE DEF start, D
  <2>3. Once(q) /\ Ahead(start, X, ahead)
    <3>1. 1 .. start.i - 1 = {}
      BY <2>2
    <3> QED
      BY <2>1, <3>1 DEF Once, Ahead
  <2> QED
    BY <2>1, <2>2, <2>3 DEF Onward
<1>11. left \in [Kept -> Nat]
  <2> HIDE DEF Kept
  <2> QED
    BY <1>8
<1>12. \A at \in Kept : at \notin Stop => next[at] \in Kept /\ left[next[at]] < left[at]
  BY <1>9
<1> HIDE DEF left
<1> QED
  BY <1>10, <1>11, <1>12

(* What a step adds to the list: the fresh letters' items, in their order.   *)
Adds(K, seq, s, X, ahead) ==
    \E L : /\ L = Ascending(FreshOn(seq, s, X, ahead)) /\ Len(K) = Len(L)
           /\ MetOn(seq, s, X, ahead) = seq \o K
           /\ \A j \in 1 .. Len(K) : L[j] \in X /\ NewOn(seq, s, L[j], ahead) = {K[j]}

(* The items a step adds are one for each fresh letter.                      *)
LEMMA MetItems ==
    ASSUME NEW X, NEW S, NEW ahead, Numberable(X, S, ahead), NEW seq \in Seq(S), NEW s \in S
    PROVE  \E K \in Seq(S) : Adds(K, seq, s, X, ahead)
<1> DEFINE New(x) == NewOn(seq, s, x, ahead)
           F == FreshOn(seq, s, X, ahead)
           L == Ascending(F)
           n == Len(L)
           K == [j \in 1 .. n |-> CHOOSE u \in New(L[j]) : TRUE]
<1>1. F = {x \in X : New(x) # {} /\ \A y \in X : y < x => New(y) # New(x)}
  BY DEF FreshOn
<1>2. ASSUME NEW x \in X
      PROVE  New(x) \subseteq S /\ \A u, v \in New(x) : u = v
  <2>1. <<s, x>> \in S \X X
    OBVIOUS
  <2>2. ahead[<<s, x>>] \subseteq S /\ \A u, v \in ahead[<<s, x>>] : u = v
    BY <2>1 DEF Numberable
  <2> QED
    BY <2>2 DEF NewOn
<1> HIDE DEF New, F
<1>3. F \in SUBSET X /\ F \in SUBSET Int /\ IsFiniteSet(F)
  <2>1. F \in SUBSET X
    BY <1>1
  <2> QED
    BY <2>1, FS_Subset DEF Numberable
<1>4. L \in Seq(F)
  BY <1>3, AscendingNumbers
<1> HIDE DEF L
<1>5. n \in Nat /\ DOMAIN L = 1 .. n
  BY <1>4, LenProperties
<1> HIDE DEF n
<1>6. ASSUME NEW j \in 1 .. n
      PROVE  L[j] \in X /\ K[j] \in S /\ New(L[j]) = {K[j]}
  <2>1. L[j] \in F /\ L[j] \in X
    BY <1>3, <1>4, ElementOfSeq DEF n
  <2>2. New(L[j]) # {}
    BY <1>1, <2>1
  <2>3. K[j] \in New(L[j])
    BY <2>2
  <2> QED
    BY <1>2, <2>1, <2>3
<1>7. K \in Seq(S) /\ Len(K) = n
  <2>1. K \in [1 .. n -> S]
    BY <1>6
  <2> HIDE DEF K
  <2> QED
    BY <1>5, <2>1, FunctionsAreLists
<1>8. MetOn(seq, s, X, ahead) = seq \o K
  <2>1. MetOn(seq, s, X, ahead) = seq \o [j \in DOMAIN L |-> CHOOSE u \in New(L[j]) : TRUE]
    BY DEF MetOn, L, F, New
  <2> QED
    BY <1>5, <2>1
<1> HIDE DEF K
<1>9. Adds(K, seq, s, X, ahead)
  BY <1>6, <1>7, <1>8 DEF n, New, L, F, Adds
<1> QED
  BY <1>7, <1>9

(* What is in the first list or the second is in the list of both.           *)
Joined(r, p, q) ==
    /\ Len(r) = Len(p) + Len(q)
    /\ \A j \in 1 .. Len(p) : r[j] = p[j]
    /\ \A j \in 1 .. Len(q) : r[Len(p) + j] = q[j]
    /\ ToSet(r) = ToSet(p) \cup ToSet(q)

(* Two lists in a row.                                                       *)
LEMMA ItemsOfBoth ==
    ASSUME NEW S, NEW p \in Seq(S), NEW q \in Seq(S)
    PROVE  p \o q \in Seq(S) /\ Joined(p \o q, p, q)
<1> DEFINE r == p \o q
<1>1. /\ r \in Seq(S) /\ Len(r) = Len(p) + Len(q) /\ Len(p) \in Nat /\ Len(q) \in Nat
      /\ \A j \in 1 .. Len(r) : r[j] = IF j <= Len(p) THEN p[j] ELSE q[j - Len(p)]
  BY ConcatProperties, LenProperties
<1>2. DOMAIN r = 1 .. Len(r) /\ DOMAIN p = 1 .. Len(p) /\ DOMAIN q = 1 .. Len(q)
  BY <1>1, LenProperties
<1> HIDE DEF r
<1>3. ASSUME NEW j \in 1 .. Len(p) PROVE r[j] = p[j] /\ j \in 1 .. Len(r)
  BY <1>1
<1>4. ASSUME NEW j \in 1 .. Len(q) PROVE r[Len(p) + j] = q[j] /\ Len(p) + j \in 1 .. Len(r)
  <2>1. Len(p) + j \in 1 .. Len(r) /\ ~ (Len(p) + j <= Len(p)) /\ Len(p) + j - Len(p) = j
    BY <1>1
  <2> QED
    BY <1>1, <2>1
<1>5. ASSUME NEW j \in 1 .. Len(r) PROVE r[j] \in ToSet(p) \cup ToSet(q)
  <2>1. CASE j <= Len(p)
    <3>1. j \in 1 .. Len(p)
      BY <1>1, <2>1
    <3> QED
      BY <1>1, <1>2, <2>1, <3>1 DEF ToSet
  <2>2. CASE ~ (j <= Len(p))
    <3>1. j - Len(p) \in 1 .. Len(q)
      BY <1>1, <2>2
    <3> QED
      BY <1>1, <1>2, <2>2, <3>1 DEF ToSet
  <2> QED
    BY <2>1, <2>2
<1>6. ToSet(r) = ToSet(p) \cup ToSet(q)
  <2>1. \A e \in ToSet(r) : e \in ToSet(p) \cup ToSet(q)
    BY <1>2, <1>5 DEF ToSet
  <2>2. \A e \in ToSet(p) : e \in ToSet(r)
    BY <1>2, <1>3 DEF ToSet
  <2>3. \A e \in ToSet(q) : e \in ToSet(r)
    BY <1>2, <1>4 DEF ToSet
  <2> QED
    BY <2>1, <2>2, <2>3
<1> QED
  BY <1>1, <1>3, <1>4, <1>6 DEF r, Joined

(* What is numbered lies ahead of the first: in every set that has the first *)
(* and with an item what lies ahead of it.                                   *)
LEMMA NumberedWithin ==
    ASSUME NEW X, NEW S, NEW ahead, Numberable(X, S, ahead), IsFiniteSet(S), NEW first \in S,
           NEW U \in SUBSET S, first \in U, \A s \in U, x \in X : ahead[<<s, x>>] \subseteq U
    PROVE  ToSet(Numbered(first, X, S, ahead)) \subseteq U
<1> DEFINE D == Places(S)
           Stop == Ended(S)
           next == Steps(X, S, ahead)
           start == Begun(first)
           Old == {at \in D : Onward(at, first, X, ahead)}
           Kept == {at \in Old : ToSet(at.seq) \subseteq U}
<1>1. /\ Stop \in SUBSET D /\ next \in [D -> D]
      /\ \E f : Settles(f, D, Stop, next) /\ Numbered(first, X, S, ahead) = f[start].seq
  BY NumberedSettles
<1>2. PICK f : Settles(f, D, Stop, next) /\ Numbered(first, X, S, ahead) = f[start].seq
  BY <1>1
<1>3. /\ start \in Old
      /\ \E left \in [Old -> Nat] :
            \A at \in Old : at \notin Stop => next[at] \in Old /\ left[next[at]] < left[at]
  BY NumberedStops
<1>4. PICK left \in [Old -> Nat] :
            \A at \in Old : at \notin Stop => next[at] \in Old /\ left[next[at]] < left[at]
  BY <1>3
<1>5. Kept \in SUBSET D /\ Kept \in SUBSET Old /\ Old \in SUBSET D
  OBVIOUS
<1>6. start \in Kept
  <2> DEFINE q == <<first>>
  <2>1. start.seq = q
    BY DEF Begun
  <2>2. q \in Seq(U) /\ DOMAIN q = {1} /\ q[1] = first
    OBVIOUS
  <2> HIDE DEF q
  <2>3. ToSet(q) = {first}
    BY <2>2 DEF ToSet
  <2> HIDE DEF Old, start
  <2> QED
    BY <1>3, <2>1, <2>3
<1>7. ASSUME NEW at \in D, at \notin Stop, ToSet(at.seq) \subseteq U
      PROVE  ToSet(next[at].seq) \subseteq U
  <2> DEFINE seq == at.seq
             s == at.seq[at.i]
  <2>1. seq \in Seq(S) /\ s \in S /\ at.i \in 1 .. Len(seq)
    BY <1>7, PlacesAreTyped
  <2>2. s \in U
    <3>1. at.i \in DOMAIN seq
      BY <2>1, LenProperties
    <3>2. s \in ToSet(seq)
      BY <3>1 DEF ToSet
    <3> QED
      BY <1>7, <3>2
  <2>3. next[at].seq = MetOn(seq, s, X, ahead)
    <3>1. next[at] = [seq |-> MetOn(seq, s, X, ahead), i |-> at.i + 1]
      BY <1>7, StepMeets
    <3> QED
      BY <3>1
  <2> HIDE DEF seq, s
  <2>4. PICK K \in Seq(S) : Adds(K, seq, s, X, ahead)
    BY <2>1, MetItems
  <2>4a. PICK L : /\ MetOn(seq, s, X, ahead) = seq \o K
                  /\ \A j \in 1 .. Len(K) : L[j] \in X /\ NewOn(seq, s, L[j], ahead) = {K[j]}
    BY <2>4 DEF Adds
  <2>5. ASSUME NEW j \in 1 .. Len(K) PROVE K[j] \in U
    <3>1. L[j] \in X /\ NewOn(seq, s, L[j], ahead) = {K[j]}
      BY <2>4a
    <3>2. ahead[<<s, L[j]>>] \subseteq U
      BY <2>2, <3>1
    <3> QED
      BY <3>1, <3>2 DEF NewOn
  <2>6. ToSet(K) \subseteq U
    <3>1. DOMAIN K = 1 .. Len(K)
      BY LenProperties
    <3> QED
      BY <2>5, <3>1 DEF ToSet
  <2>7. ToSet(seq \o K) = ToSet(seq) \cup ToSet(K)
    BY <2>1, ItemsOfBoth DEF Joined
  <2> QED
    BY <1>7, <2>3, <2>4a, <2>6, <2>7 DEF seq
<1> DEFINE less == [at \in Kept |-> left[at]]
<1>8. \A at \in Kept : at \notin Stop => next[at] \in Kept /\ less[next[at]] < less[at]
  <2> SUFFICES ASSUME NEW at \in Kept, at \notin Stop
               PROVE  next[at] \in Kept /\ less[next[at]] < less[at]
    OBVIOUS
  <2>1. at \in D /\ at \in Old /\ ToSet(at.seq) \subseteq U
    OBVIOUS
  <2> HIDE DEF Stop, next
  <2>2. next[at] \in Old /\ left[next[at]] < left[at]
    BY <1>4, <2>1
  <2>3. ToSet(next[at].seq) \subseteq U
    BY <1>7, <2>1
  <2>4. next[at] \in Kept
    BY <2>2, <2>3
  <2> HIDE DEF Kept
  <2> QED
    BY <2>2, <2>4
<1>9. less \in [Kept -> Nat]
  <2> HIDE DEF Old
  <2> QED
    BY <1>5
<1>10. f[start] \in Kept
  <2> HIDE DEF D, Stop, next, Kept, start, less, Old
  <2>1. \A K \in SUBSET D : \A l \in [K -> Nat] :
          (\A a \in K : a \notin Stop => next[a] \in K /\ l[next[a]] < l[a])
             => \A a \in K : f[a] \in K /\ f[a] \in Stop
    BY <1>1, <1>2, StoppingKeeps
  <2>2. \A a \in Kept : f[a] \in Kept /\ f[a] \in Stop
    BY <1>5, <1>8, <1>9, <2>1
  <2> QED
    BY <1>6, <2>2
<1> QED
  BY <1>2, <1>10

(* h takes what lies ahead in one numbering to what does in another.         *)
Names(h, seq) == [j \in 1 .. Len(seq) |-> h[seq[j]]]
Alongside(h, X, S, ahead, T, beside) ==
    /\ Numberable(X, S, ahead) /\ Numberable(X, T, beside)
    /\ h \in [S -> T] /\ \A s, t \in S : h[s] = h[t] => s = t
    /\ \A s \in S, x \in X : beside[<<h[s], x>>] = {h[u] : u \in ahead[<<s, x>>]}

(* A list and its other names.                                               *)
Named(q, h, seq) ==
    /\ Len(q) = Len(seq)
    /\ \A j \in 1 .. Len(seq) : q[j] = h[seq[j]]
    /\ ToSet(q) = {h[u] : u \in ToSet(seq)}

(* A list under other names is as long, and its items are those names.       *)
LEMMA NamesOfList ==
    ASSUME NEW S, NEW T, NEW h \in [S -> T], NEW seq \in Seq(S)
    PROVE  /\ Names(h, seq) \in Seq(T) /\ Named(Names(h, seq), h, seq)
           /\ ToSet(seq) \subseteq S /\ \A j \in 1 .. Len(seq) : seq[j] \in S
<1> DEFINE q == Names(h, seq)
<1>1. Len(seq) \in Nat /\ DOMAIN seq = 1 .. Len(seq) /\ \A j \in 1 .. Len(seq) : seq[j] \in S
  BY LenProperties, ElementOfSeq
<1>2. q \in [1 .. Len(seq) -> T] /\ \A j \in 1 .. Len(seq) : q[j] = h[seq[j]]
  BY <1>1 DEF Names
<1> HIDE DEF q
<1>3. q \in Seq(T) /\ Len(q) = Len(seq)
  BY <1>1, <1>2, FunctionsAreLists
<1>4. DOMAIN q = 1 .. Len(seq)
  BY <1>2
<1>5. ToSet(q) = {h[u] : u \in ToSet(seq)}
  BY <1>1, <1>2, <1>4 DEF ToSet
<1>6. ToSet(seq) \subseteq S
  BY <1>1 DEF ToSet
<1> QED
  BY <1>1, <1>2, <1>3, <1>5, <1>6 DEF q, Named

(* The same, place by place.                                                 *)
Renames(r, h, q) == Len(r) = Len(q) /\ \A j \in 1 .. Len(q) : r[j] = h[q[j]]

(* Names of lists in a row are the row of their names.                       *)
NamesJoin(h, p, q, r) == Names(h, p) \o r = Names(h, p \o q)

(* Names of two lists in a row.                                              *)
LEMMA NamesOfBoth ==
    ASSUME NEW S, NEW T, NEW h \in [S -> T], NEW p \in Seq(S), NEW q \in Seq(S),
           NEW r \in Seq(T), Renames(r, h, q)
    PROVE  NamesJoin(h, p, q, r)
<1> DEFINE y == Names(h, p)
           z == p \o q
           a == y \o r
           c == Names(h, z)
<1>1. y \in Seq(T) /\ Named(y, h, p)
  BY NamesOfList
<1>2. z \in Seq(S) /\ Joined(z, p, q)
  BY ItemsOfBoth
<1> HIDE DEF y, z
<1>3. a \in Seq(T) /\ Joined(a, y, r)
  BY <1>1, ItemsOfBoth
<1>4. c \in Seq(T) /\ Named(c, h, z)
  BY <1>2, NamesOfList
<1> HIDE DEF a, c
<1> USE DEF Joined, Named, Renames
<1>5. Len(p) \in Nat /\ Len(q) \in Nat /\ Len(a) = Len(c)
  BY <1>1, <1>2, <1>3, <1>4, LenProperties
<1>6. ASSUME NEW j \in 1 .. Len(a) PROVE a[j] = c[j]
  <2>1. j \in 1 .. Len(z) /\ Len(z) = Len(p) + Len(q)
    BY <1>2, <1>4, <1>5
  <2>2. CASE j <= Len(p)
    <3>1. j \in 1 .. Len(p)
      BY <2>1, <2>2, <1>5
    <3>2. a[j] = y[j] /\ c[j] = h[z[j]] /\ y[j] = h[p[j]] /\ z[j] = p[j]
      BY <1>1, <1>2, <1>3, <1>4, <2>1, <3>1
    <3> QED
      BY <3>2
  <2>3. CASE ~ (j <= Len(p))
    <3>1. PICK k \in 1 .. Len(q) : j = Len(p) + k
      <4>1. j - Len(p) \in 1 .. Len(q) /\ j = Len(p) + (j - Len(p))
        BY <1>5, <2>1, <2>3
      <4> QED
        BY <4>1
    <3>2. a[j] = r[k] /\ c[j] = h[z[j]] /\ z[j] = q[k] /\ r[k] = h[q[k]]
      BY <1>1, <1>2, <1>3, <1>4, <2>1, <3>1
    <3> QED
      BY <3>2
  <2> QED
    BY <2>2, <2>3
<1>7. a = c
  BY <1>3, <1>4, <1>5, <1>6, SeqEqual
<1> QED
  BY <1>7 DEF a, c, y, z, NamesJoin

(* A step there is a step here under the other names.                        *)
LEMMA MetAlongside ==
    ASSUME NEW h, NEW X, NEW S, NEW ahead, NEW T, NEW beside,
           Alongside(h, X, S, ahead, T, beside), NEW seq \in Seq(S), NEW s \in S
    PROVE  MetOn(Names(h, seq), h[s], X, beside) = Names(h, MetOn(seq, s, X, ahead))
<1> DEFINE new == Names(h, seq)
           F == FreshOn(seq, s, X, ahead)
           G == FreshOn(new, h[s], X, beside)
<1>1. h \in [S -> T] /\ h[s] \in T /\ \A p, q \in S : h[p] = h[q] => p = q
  BY DEF Alongside
<1>2. new \in Seq(T) /\ ToSet(new) = {h[u] : u \in ToSet(seq)} /\ ToSet(seq) \subseteq S
  BY <1>1, NamesOfList DEF Named
<1> HIDE DEF new
<1>3. ASSUME NEW x \in X
      PROVE  /\ NewOn(seq, s, x, ahead) \subseteq S
             /\ \A u \in S : h[u] \in NewOn(new, h[s], x, beside) <=> u \in NewOn(seq, s, x, ahead)
             /\ \A v \in NewOn(new, h[s], x, beside) : \E u \in NewOn(seq, s, x, ahead) : v = h[u]
  <2>1. ahead[<<s, x>>] \subseteq S
    <3>1. <<s, x>> \in S \X X /\ ahead \in [S \X X -> SUBSET S]
      BY DEF Alongside, Numberable
    <3> QED
      BY <3>1
  <2>2. beside[<<h[s], x>>] = {h[u] : u \in ahead[<<s, x>>]}
    BY DEF Alongside
  <2>3. \A u \in S : h[u] \in beside[<<h[s], x>>] <=> u \in ahead[<<s, x>>]
    BY <1>1, <2>1, <2>2
  <2>4. \A u \in S : h[u] \in ToSet(new) <=> u \in ToSet(seq)
    BY <1>1, <1>2
  <2> QED
    BY <2>1, <2>2, <2>3, <2>4 DEF NewOn
<1>4. ASSUME NEW x \in X, NEW y \in X
      PROVE  /\ NewOn(new, h[s], x, beside) = {} <=> NewOn(seq, s, x, ahead) = {}
             /\ NewOn(new, h[s], y, beside) = NewOn(new, h[s], x, beside)
                   <=> NewOn(seq, s, y, ahead) = NewOn(seq, s, x, ahead)
  <2>1. NewOn(new, h[s], x, beside) = {} <=> NewOn(seq, s, x, ahead) = {}
    BY <1>3
  <2>2. ASSUME NewOn(new, h[s], y, beside) = NewOn(new, h[s], x, beside)
        PROVE  NewOn(seq, s, y, ahead) = NewOn(seq, s, x, ahead)
    <3>1. \A u \in S : u \in NewOn(seq, s, y, ahead) <=> u \in NewOn(seq, s, x, ahead)
      BY <1>3, <2>2
    <3>2. NewOn(seq, s, y, ahead) \subseteq S /\ NewOn(seq, s, x, ahead) \subseteq S
      BY <1>3
    <3> QED
      BY <3>1, <3>2
  <2>3. ASSUME NewOn(seq, s, y, ahead) = NewOn(seq, s, x, ahead)
        PROVE  NewOn(new, h[s], y, beside) = NewOn(new, h[s], x, beside)
    <3>1. \A z \in X : \A v : v \in NewOn(new, h[s], z, beside)
                               <=> \E u \in NewOn(seq, s, z, ahead) : v = h[u]
      BY <1>3
    <3>2. \A v : v \in NewOn(new, h[s], y, beside) <=> v \in NewOn(new, h[s], x, beside)
      BY <2>3, <3>1
    <3> QED
      BY <3>2
  <2> QED
    BY <2>1, <2>2, <2>3
<1>5. F = G
  <2>1. \A x : x \in F <=> x \in X /\ NewOn(seq, s, x, ahead) # {}
                            /\ \A y \in X : y < x => NewOn(seq, s, y, ahead) # NewOn(seq, s, x, ahead)
    BY DEF FreshOn
  <2>2. \A x : x \in G <=> x \in X /\ NewOn(new, h[s], x, beside) # {}
                            /\ \A y \in X : y < x => NewOn(new, h[s], y, beside) # NewOn(new, h[s], x, beside)
    BY DEF FreshOn
  <2> HIDE DEF F, G
  <2>3. \A x : x \in F <=> x \in G
    BY <1>4, <2>1, <2>2
  <2> QED
    BY <2>3
<1>6. PICK K \in Seq(S) : Adds(K, seq, s, X, ahead)
  BY MetItems DEF Alongside
<1>7. PICK M \in Seq(T) : Adds(M, new, h[s], X, beside)
  BY <1>1, <1>2, MetItems DEF Alongside
<1>8. PICK L : /\ L = Ascending(F) /\ Len(K) = Len(L)
               /\ MetOn(seq, s, X, ahead) = seq \o K
               /\ \A j \in 1 .. Len(K) : L[j] \in X /\ NewOn(seq, s, L[j], ahead) = {K[j]}
  BY <1>6 DEF Adds
<1>9. /\ Len(M) = Len(L)
      /\ MetOn(new, h[s], X, beside) = new \o M
      /\ \A j \in 1 .. Len(M) : L[j] \in X /\ NewOn(new, h[s], L[j], beside) = {M[j]}
  BY <1>5, <1>7, <1>8 DEF Adds
<1> HIDE DEF F, G
<1>10. ASSUME NEW j \in 1 .. Len(K) PROVE M[j] = h[K[j]]
  <2>1. L[j] \in X /\ NewOn(seq, s, L[j], ahead) = {K[j]} /\ NewOn(new, h[s], L[j], beside) = {M[j]}
    BY <1>8, <1>9
  <2>2. K[j] \in S
    BY ElementOfSeq
  <2> QED
    BY <1>3, <2>1, <2>2
<1>11. new \o M = Names(h, seq \o K)
  <2>1. Renames(M, h, K)
    BY <1>8, <1>9, <1>10 DEF Renames
  <2>2. h \in [S -> T]
    BY <1>1
  <2>3. NamesJoin(h, seq, K, M)
    BY <2>1, <2>2, NamesOfBoth
  <2> QED
    BY <2>3 DEF new, NamesJoin
<1> QED
  BY <1>8, <1>9, <1>11 DEF new

(* Steps that stay in K and come nearer to their end; steps of two           *)
(* recursions that g takes into each other; results that g takes into each   *)
(* other.                                                                    *)
Descends(K, l, Stop, next) == \A a \in K : a \notin Stop => next[a] \in K /\ l[next[a]] < l[a]
Copies(K, g, Stop, next, Halt, on) ==
    /\ \A a \in K : a \in Stop <=> g[a] \in Halt
    /\ \A a \in K : a \notin Stop => g[next[a]] = on[g[a]]
EndAlike(K, f, e, g) == \A a \in K : f[a] \in K /\ e[g[a]] = g[f[a]]

(* Two recursions that step alike end alike.                                 *)
LEMMA StoppingAgrees ==
    ASSUME NEW S, NEW Stop \in SUBSET S, NEW next \in [S -> S], NEW f, Settles(f, S, Stop, next),
           NEW T, NEW Halt \in SUBSET T, NEW on \in [T -> T], NEW e, Settles(e, T, Halt, on),
           NEW Kept \in SUBSET S, NEW left \in [Kept -> Nat],
           Descends(Kept, left, Stop, next), NEW g \in [Kept -> T], Copies(Kept, g, Stop, next, Halt, on)
    PROVE  EndAlike(Kept, f, e, g)
<1> DEFINE Bad == {a \in Kept : e[g[a]] # g[f[a]]}
           Lefts == {left[a] : a \in Bad}
<1> USE DEF Descends, Copies, EndAlike
<1>0. \A a \in Kept : f[a] \in Kept
  <2>1. \A K \in SUBSET S : \A l \in [K -> Nat] :
          (\A a \in K : a \notin Stop => next[a] \in K /\ l[next[a]] < l[a])
             => \A a \in K : f[a] \in K /\ f[a] \in Stop
    BY StoppingKeeps
  <2> QED
    BY <2>1
<1> SUFFICES ASSUME Bad # {} PROVE FALSE
  BY <1>0
<1>1. Lefts \in SUBSET Nat /\ Lefts # {}
  OBVIOUS
<1>2. PICK n \in Lefts : \A x \in Lefts : n <= x
  <2> HIDE DEF Lefts
  <2> QED
    BY <1>1, LeastOfNaturals
<1>3. PICK a \in Bad : left[a] = n
  BY <1>2
<1>4. a \in Kept /\ a \in S /\ e[g[a]] # g[f[a]] /\ g[a] \in T
  BY <1>3
<1>5. f[a] = IF a \in Stop THEN a ELSE f[next[a]]
  <2> HIDE DEF Bad
  <2> QED
    BY <1>4 DEF Settles
<1>6. e[g[a]] = IF g[a] \in Halt THEN g[a] ELSE e[on[g[a]]]
  <2> HIDE DEF Bad
  <2> QED
    BY <1>4 DEF Settles
<1>7. a \notin Stop /\ g[a] \notin Halt
  BY <1>4, <1>5, <1>6
<1>8. next[a] \in Kept /\ left[next[a]] < left[a]
  BY <1>4, <1>7
<1>9. next[a] \notin Bad
  <2>1. left[next[a]] \in Nat /\ left[a] \in Nat /\ n \in Nat
    BY <1>1, <1>2, <1>4, <1>8
  <2> HIDE DEF Bad
  <2>2. next[a] \in Bad => n <= left[next[a]]
    BY <1>2
  <2> QED
    BY <1>3, <1>8, <2>1, <2>2
<1>10. e[g[next[a]]] = g[f[next[a]]]
  BY <1>8, <1>9
<1> QED
  BY <1>4, <1>5, <1>6, <1>7, <1>10

(* Two numberings alongside each other number alike.                         *)
LEMMA NumberedAlongside ==
    ASSUME NEW h, NEW X, NEW S, NEW ahead, NEW T, NEW beside,
           Alongside(h, X, S, ahead, T, beside), IsFiniteSet(S), NEW first \in S
    PROVE  Numbered(h[first], X, T, beside) = Names(h, Numbered(first, X, S, ahead))
<1> DEFINE D == Places(S)
           Stop == Ended(S)
           next == Steps(X, S, ahead)
           start == Begun(first)
           Kept == {at \in D : Onward(at, first, X, ahead)}
           g == [at \in Kept |-> [seq |-> Names(h, at.seq), i |-> at.i]]
           E == Places(T)
           Halt == Ended(T)
           on == Steps(X, T, beside)
           begin == Begun(h[first])
<1>0. Numberable(X, S, ahead) /\ Numberable(X, T, beside) /\ h \in [S -> T] /\ h[first] \in T
  BY DEF Alongside
<1>1. /\ Stop \in SUBSET D /\ next \in [D -> D]
      /\ \E f : Settles(f, D, Stop, next) /\ Numbered(first, X, S, ahead) = f[start].seq
  BY <1>0, NumberedSettles
<1>2. PICK f : Settles(f, D, Stop, next) /\ Numbered(first, X, S, ahead) = f[start].seq
  BY <1>1
<1>3. /\ start \in Kept
      /\ \E left \in [Kept -> Nat] :
            \A at \in Kept : at \notin Stop => next[at] \in Kept /\ left[next[at]] < left[at]
  BY <1>0, NumberedStops
<1>4. PICK left \in [Kept -> Nat] :
            \A at \in Kept : at \notin Stop => next[at] \in Kept /\ left[next[at]] < left[at]
  BY <1>3
<1>5. /\ Halt \in SUBSET E /\ on \in [E -> E]
      /\ \E e : Settles(e, E, Halt, on) /\ Numbered(h[first], X, T, beside) = e[begin].seq
  BY <1>0, NumberedSettles
<1>6. PICK e : Settles(e, E, Halt, on) /\ Numbered(h[first], X, T, beside) = e[begin].seq
  BY <1>5
<1>7. ASSUME NEW at \in Kept
      PROVE  /\ at \in D /\ g[at] \in E /\ g[at] = [seq |-> Names(h, at.seq), i |-> at.i]
             /\ g[at].seq = Names(h, at.seq) /\ g[at].i = at.i
             /\ at \in Stop <=> g[at] \in Halt
  <2>1. at \in D /\ g[at] = [seq |-> Names(h, at.seq), i |-> at.i]
    OBVIOUS
  <2>2. at.seq \in Seq(S) /\ at.i \in Nat /\ at.i >= 1
    BY <2>1, PlacesAreTyped
  <2>3. Names(h, at.seq) \in Seq(T) /\ Len(Names(h, at.seq)) = Len(at.seq)
    <3>1. h \in [S -> T]
      BY <1>0
    <3>2. Names(h, at.seq) \in Seq(T) /\ Named(Names(h, at.seq), h, at.seq)
      BY <2>2, <3>1, NamesOfList
    <3> QED
      BY <3>2 DEF Named
  <2> HIDE DEF Kept, g
  <2>4. g[at] \in E /\ g[at].seq = Names(h, at.seq) /\ g[at].i = at.i
    <3> DEFINE q == Names(h, at.seq)
    <3> HIDE DEF q
    <3>1. q \in Seq(T) /\ g[at] = [seq |-> q, i |-> at.i]
      BY <2>1, <2>3 DEF q
    <3>2. g[at] \in E /\ g[at].seq = q /\ g[at].i = at.i
      BY <2>2, <3>1 DEF Places
    <3> QED
      BY <3>2 DEF q
  <2>5. at \in Stop <=> g[at] \in Halt
    BY <2>1, <2>3, <2>4 DEF Ended
  <2> QED
    BY <2>1, <2>4, <2>5
<1>8. ASSUME NEW at \in Kept, at \notin Stop
      PROVE  g[next[at]] = on[g[at]]
  <2> DEFINE to == next[at]
             q == at.seq
             s == q[at.i]
  <2>1. at \in D /\ to \in Kept
    BY <1>4, <1>8
  <2>2. to = [seq |-> MetOn(at.seq, at.seq[at.i], X, ahead), i |-> at.i + 1]
    BY <1>0, <1>8, <2>1, StepMeets
  <2>3. g[to] = [seq |-> Names(h, to.seq), i |-> to.i]
    BY <1>7, <2>1
  <2>4. g[at] \in E /\ g[at] \notin Halt /\ g[at].seq = Names(h, at.seq) /\ g[at].i = at.i
    BY <1>7, <1>8
  <2>5. on[g[at]] = [seq |-> MetOn(g[at].seq, g[at].seq[g[at].i], X, beside), i |-> g[at].i + 1]
    BY <1>0, <2>4, StepMeets
  <2>6. q \in Seq(S) /\ at.i \in 1 .. Len(q) /\ s \in S
    BY <1>8, <2>1, PlacesAreTyped
  <2>7. Names(h, q)[at.i] = h[s]
    <3>1. h \in [S -> T]
      BY <1>0
    <3>2. Named(Names(h, q), h, q)
      BY <2>6, <3>1, NamesOfList
    <3> QED
      BY <2>6, <3>2 DEF Named
  <2>8. to.seq = MetOn(q, s, X, ahead) /\ to.i = at.i + 1
    BY <2>2
  <2>9. on[g[at]] = [seq |-> MetOn(Names(h, q), h[s], X, beside), i |-> at.i + 1]
    BY <2>4, <2>5, <2>7
  <2> HIDE DEF q, s, to, Kept, g, on
  <2>9a. Alongside(h, X, S, ahead, T, beside)
    OBVIOUS
  <2>10. MetOn(Names(h, q), h[s], X, beside) = Names(h, MetOn(q, s, X, ahead))
    BY <2>6, MetAlongside
  <2> QED
    BY <2>3, <2>8, <2>9, <2>10 DEF to
<1>9. g[start] = begin
  <2> DEFINE p == <<first>>
             q == <<h[first]>>
  <2>1. p \in Seq(S) /\ Len(p) = 1 /\ p[1] = first /\ q \in Seq(T) /\ Len(q) = 1 /\ q[1] = h[first]
    BY <1>0
  <2>2. start.seq = p /\ start.i = 1 /\ begin = [seq |-> q, i |-> 1]
    BY DEF Begun
  <2> HIDE DEF p, q
  <2>3. Names(h, p) \in Seq(T) /\ Named(Names(h, p), h, p)
    BY <1>0, <2>1, NamesOfList
  <2>4. Names(h, p) = q
    <3> DEFINE r == Names(h, p)
    <3>1. r \in Seq(T) /\ Len(r) = 1 /\ r[1] = h[first]
      BY <2>1, <2>3 DEF Named
    <3> HIDE DEF r
    <3>2. r = q
      BY <2>1, <3>1, SeqEqual
    <3> QED
      BY <3>2 DEF r
  <2>5. g[start] = [seq |-> Names(h, start.seq), i |-> start.i]
    BY <1>3, <1>7
  <2> QED
    BY <2>2, <2>4, <2>5
<1>10. f[start] \in Kept /\ e[g[start]] = g[f[start]]
  <2>1. Kept \in SUBSET D
    OBVIOUS
  <2>2. g \in [Kept -> E]
    <3>1. g = [at \in Kept |-> g[at]]
      OBVIOUS
    <3> HIDE DEF g, Kept
    <3> QED
      BY <1>7, <3>1
  <2>3. \A at \in Kept : at \in Stop <=> g[at] \in Halt
    BY <1>7
  <2>4. \A at \in Kept : at \notin Stop => g[next[at]] = on[g[at]]
    BY <1>8
  <2>4a. Descends(Kept, left, Stop, next)
    BY <1>4 DEF Descends
  <2>4b. Copies(Kept, g, Stop, next, Halt, on)
    BY <2>3, <2>4 DEF Copies
  <2> HIDE DEF D, Stop, next, Kept, start, g, E, Halt, on, begin
  <2>4c. ASSUME NEW l \in [Kept -> Nat], Descends(Kept, l, Stop, next)
         PROVE  EndAlike(Kept, f, e, g)
    <3>1. Stop \in SUBSET D /\ next \in [D -> D] /\ Settles(f, D, Stop, next)
      BY <1>1, <1>2
    <3>2. Halt \in SUBSET E /\ on \in [E -> E] /\ Settles(e, E, Halt, on)
      BY <1>5, <1>6
    <3> QED
      BY <2>1, <2>2, <2>4b, <2>4c, <3>1, <3>2, StoppingAgrees
  <2>5. \A a \in Kept : f[a] \in Kept /\ e[g[a]] = g[f[a]]
    BY <2>4a, <2>4c DEF EndAlike
  <2> QED
    BY <1>3, <2>5
<1>11. g[f[start]].seq = Names(h, f[start].seq)
  BY <1>7, <1>10
<1> QED
  BY <1>2, <1>6, <1>9, <1>10, <1>11

(* The sinks of a deterministic machine, and the list of its states that     *)
(* canonical_numbering() goes by.                                            *)
SinksOf(m) == [p \in states(m) \X labels(m) |-> SinksOn(m, {p[1]}, p[2])]
MetFrom(m, s) == Numbered(s, labels(m), states(m), SinksOf(m))

(* Of a deterministic machine there is at most one sink on a letter.         *)
LEMMA SinksAreNumberable ==
    ASSUME NEW m, Finite(m), Determinate(m)
    PROVE  /\ Numberable(labels(m), states(m), SinksOf(m)) /\ IsFiniteSet(states(m))
           /\ \A s \in states(m), x \in labels(m) : SinksOf(m)[<<s, x>>] = {t[3] : t \in {u \in m.arcs : u[1] = s /\ u[2] = x}}
<1> DEFINE X == labels(m)
           S == states(m)
           ahead == SinksOf(m)
<1>1. X \in SUBSET Int /\ IsFiniteSet(X) /\ IsFiniteSet(S)
  BY FiniteStates
<1>2. ASSUME NEW p \in S \X X
      PROVE  ahead[p] = SinksOn(m, {p[1]}, p[2]) /\ ahead[p] \in SUBSET S /\ \A u, v \in ahead[p] : u = v
  <2>1. ahead[p] = SinksOn(m, {p[1]}, p[2])
    BY DEF SinksOf
  <2>2. SinksOn(m, {p[1]}, p[2]) \in SUBSET S
    BY FiniteSinks
  <2>3. \A u, v \in SinksOn(m, {p[1]}, p[2]) : u = v
    BY DEF SinksOn, Determinate
  <2> QED
    BY <2>1, <2>2, <2>3
<1>3. ahead \in [S \X X -> SUBSET S]
  <2>1. ahead = [p \in S \X X |-> ahead[p]]
    BY DEF SinksOf
  <2> HIDE DEF ahead, S, X
  <2> QED
    BY <1>2, <2>1
<1>4. ASSUME NEW s \in S, NEW x \in X
      PROVE  ahead[<<s, x>>] = {t[3] : t \in {u \in m.arcs : u[1] = s /\ u[2] = x}}
  <2>1. <<s, x>> \in S \X X /\ <<s, x>>[1] = s /\ <<s, x>>[2] = x
    OBVIOUS
  <2>2. ahead[<<s, x>>] = SinksOn(m, {s}, x)
    BY <1>2, <2>1
  <2>3. {u \in m.arcs : u[1] \in {s} /\ u[2] = x} = {u \in m.arcs : u[1] = s /\ u[2] = x}
    OBVIOUS
  <2> QED
    BY <2>2, <2>3 DEF SinksOn
<1> HIDE DEF X, S, ahead
<1>5. Numberable(X, S, ahead)
  BY <1>1, <1>2, <1>3 DEF Numberable
<1> QED
  BY <1>1, <1>4, <1>5 DEF X, S, ahead

(* canonical_numbering() numbers the states as that list has them.           *)
Lists(met, m) ==
    /\ met \in Seq(states(m)) /\ Len(met) >= 1 /\ m.start = {met[1]} /\ Once(met)
    /\ \A t \in m.arcs : t[1] \in ToSet(met) => t[3] \in ToSet(met)
    /\ canonical_numbering(m) = Renumbering(m, met)

(* Of a deterministic machine with a start state there is such a list.       *)
LEMMA CanonicalList ==
    ASSUME NEW m, Finite(m), Determinate(m), NEW s, s \in m.start
    PROVE  m.start = {s} /\ s \in states(m) /\ Lists(MetFrom(m, s), m)
<1> DEFINE s0 == CHOOSE u \in m.start : TRUE
           met == MetFrom(m, s)
           X == labels(m)
           S == states(m)
           ahead == SinksOf(m)
<1>1. m.start = {s} /\ s0 = s
  BY DEF Determinate
<1>2. s \in S
  BY FiniteStates
<1>3. is_deterministic(m)
  BY DeterministicMeans
<1>4. canonical_numbering(m) = Renumbering(m, met)
  <2>1. canonical_numbering(m) = Renumbering(m, MetFrom(m, s0))
    BY <1>3 DEF canonical_numbering, Renumbering, MetFrom, SinksOf
  <2> QED
    BY <1>1, <2>1
<1>5. /\ Numberable(X, S, ahead) /\ IsFiniteSet(S)
      /\ \A u \in S, x \in X : ahead[<<u, x>>] = {t[3] : t \in {v \in m.arcs : v[1] = u /\ v[2] = x}}
  BY SinksAreNumberable
<1>6. /\ met \in Seq(S) /\ Len(met) >= 1 /\ met[1] = s /\ Once(met)
      /\ \A j \in 1 .. Len(met) : \A x \in X : ahead[<<met[j], x>>] \subseteq ToSet(met)
  <2> HIDE DEF X, S, ahead
  <2> DEFINE q == Numbered(s, X, S, ahead)
  <2>1. /\ X \in SUBSET Int /\ IsFiniteSet(X) /\ IsFiniteSet(S)
        /\ ahead \in [S \X X -> SUBSET S] /\ \A p \in S \X X : \A u, v \in ahead[p] : u = v
    BY <1>5 DEF Numberable
  <2>3. /\ q \in Seq(S) /\ Len(q) >= 1 /\ q[1] = s
        /\ Once(q)
        /\ \A j \in 1 .. Len(q) : \A x \in X : ahead[<<q[j], x>>] \subseteq ToSet(q)
    BY <1>2, <2>1, NumberedOnce, Zenon
  <2> HIDE DEF q
  <2> QED
    BY <2>3 DEF q, X, S, ahead, MetFrom
<1> HIDE DEF met
<1>8. ASSUME NEW t \in m.arcs, t[1] \in ToSet(met) PROVE t[3] \in ToSet(met)
  <2>1. t[1] \in S /\ t[2] \in X
    BY FiniteStates
  <2>2. Place(met, t[1]) \in 1 .. Len(met) /\ met[Place(met, t[1])] = t[1]
    BY <1>6, <1>8, PlacesOfItems
  <2>3. ahead[<<t[1], t[2]>>] \subseteq ToSet(met)
    BY <1>6, <2>1, <2>2
  <2>4. ahead[<<t[1], t[2]>>] = {u[3] : u \in {v \in m.arcs : v[1] = t[1] /\ v[2] = t[2]}}
    BY <1>5, <2>1
  <2>5. t \in {v \in m.arcs : v[1] = t[1] /\ v[2] = t[2]}
    OBVIOUS
  <2>6. t[3] \in ahead[<<t[1], t[2]>>]
    BY <2>4, <2>5
  <2> QED
    BY <2>3, <2>6
<1>9. Lists(met, m)
  BY <1>1, <1>4, <1>6, <1>8 DEF Lists
<1> QED
  BY <1>1, <1>2, <1>9 DEF met

(* Renamed machines are numbered alongside each other.                       *)
LEMMA RenamedAlongside ==
    ASSUME NEW a, Usual(a), Determinate(a), NEW c, Usual(c), Determinate(c), NEW h, Renamed(a, c, h)
    PROVE  labels(a) = labels(c) /\ Alongside(h, labels(a), states(a), SinksOf(a), states(c), SinksOf(c))
<1>1. Finite(a) /\ Finite(c)
  BY UsualIsFinite
<1>2. /\ \A t \in a.arcs : t = <<t[1], t[2], t[3]>> /\ t[1] \in states(a) /\ t[2] \in labels(a) /\ t[3] \in states(a)
      /\ labels(a) \subseteq Int
  <2>1. PICK b \in Nat : Bounded(a, b)
    BY DEF Usual
  <2> QED
    BY <2>1, StatesBounded
<1>3. /\ \A t \in c.arcs : t = <<t[1], t[2], t[3]>> /\ t[1] \in states(c) /\ t[2] \in labels(c) /\ t[3] \in states(c)
      /\ labels(c) \subseteq Int
  <2>1. PICK b \in Nat : Bounded(c, b)
    BY DEF Usual
  <2> QED
    BY <2>1, StatesBounded
<1>4. /\ h \in [states(a) -> states(c)] /\ \A s, t \in states(a) : h[s] = h[t] => s = t
      /\ \A u \in states(c) : \E s \in states(a) : h[s] = u
      /\ \A s, t \in states(a), x \in Int : <<s, x, t>> \in a.arcs <=> <<h[s], x, h[t]>> \in c.arcs
  BY DEF Renamed
<1>5. \A x \in labels(a) : x \in labels(c)
  <2> SUFFICES ASSUME NEW t \in a.arcs PROVE t[2] \in labels(c)
    BY DEF labels
  <2>1. t[2] \in Int /\ <<t[1], t[2], t[3]>> \in a.arcs /\ t[1] \in states(a) /\ t[3] \in states(a)
    BY <1>2
  <2>2. <<h[t[1]], t[2], h[t[3]]>> \in c.arcs
    BY <1>4, <2>1
  <2>3. <<h[t[1]], t[2], h[t[3]]>>[2] = t[2]
    OBVIOUS
  <2> QED
    BY <1>3, <2>2, <2>3
<1>6. \A x \in labels(c) : x \in labels(a)
  <2> SUFFICES ASSUME NEW t \in c.arcs PROVE t[2] \in labels(a)
    BY DEF labels
  <2>1. t[2] \in Int /\ <<t[1], t[2], t[3]>> \in c.arcs /\ t[1] \in states(c) /\ t[3] \in states(c)
    BY <1>3
  <2>2. PICK p \in states(a) : h[p] = t[1]
    BY <1>4, <2>1
  <2>3. PICK q \in states(a) : h[q] = t[3]
    BY <1>4, <2>1
  <2>4. <<p, t[2], q>> \in a.arcs
    BY <1>4, <2>1, <2>2, <2>3
  <2>5. <<p, t[2], q>>[2] = t[2]
    OBVIOUS
  <2> QED
    BY <1>2, <2>4, <2>5
<1>7. labels(a) = labels(c)
  BY <1>5, <1>6
<1> DEFINE X == labels(a)
<1>8. /\ Numberable(X, states(a), SinksOf(a))
      /\ \A s \in states(a), x \in X : SinksOf(a)[<<s, x>>] = {t[3] : t \in {u \in a.arcs : u[1] = s /\ u[2] = x}}
  BY <1>1, SinksAreNumberable
<1>9. /\ Numberable(X, states(c), SinksOf(c))
      /\ \A s \in states(c), x \in X : SinksOf(c)[<<s, x>>] = {t[3] : t \in {u \in c.arcs : u[1] = s /\ u[2] = x}}
  BY <1>1, <1>7, SinksAreNumberable
<1>10. ASSUME NEW s \in states(a), NEW x \in X
       PROVE  SinksOf(c)[<<h[s], x>>] = {h[u] : u \in SinksOf(a)[<<s, x>>]}
  <2> DEFINE A == SinksOf(a)[<<s, x>>]
             C == SinksOf(c)[<<h[s], x>>]
  <2>1. h[s] \in states(c) /\ x \in Int
    BY <1>2, <1>4
  <2>2. A = {t[3] : t \in {u \in a.arcs : u[1] = s /\ u[2] = x}}
    BY <1>8
  <2>3. C = {t[3] : t \in {u \in c.arcs : u[1] = h[s] /\ u[2] = x}}
    BY <1>9, <2>1
  <2> HIDE DEF A, C
  <2>4. ASSUME NEW v \in C PROVE \E u \in A : v = h[u]
    <3>1. PICK t \in c.arcs : t[1] = h[s] /\ t[2] = x /\ t[3] = v
      BY <2>3
    <3>2. <<h[s], x, v>> \in c.arcs /\ v \in states(c)
      BY <1>3, <3>1
    <3>3. PICK u \in states(a) : h[u] = v
      BY <1>4, <3>2
    <3>4. <<s, x, u>> \in a.arcs
      BY <1>4, <2>1, <3>2, <3>3
    <3>5. <<s, x, u>>[1] = s /\ <<s, x, u>>[2] = x /\ <<s, x, u>>[3] = u
      OBVIOUS
    <3>6. u \in A
      BY <2>2, <3>4, <3>5
    <3> QED
      BY <3>3, <3>6
  <2>5. ASSUME NEW u \in A PROVE h[u] \in C
    <3>1. PICK t \in a.arcs : t[1] = s /\ t[2] = x /\ t[3] = u
      BY <2>2
    <3>2. <<s, x, u>> \in a.arcs /\ u \in states(a)
      BY <1>2, <3>1
    <3>3. <<h[s], x, h[u]>> \in c.arcs
      BY <1>4, <2>1, <3>2
    <3>4. <<h[s], x, h[u]>>[1] = h[s] /\ <<h[s], x, h[u]>>[2] = x /\ <<h[s], x, h[u]>>[3] = h[u]
      OBVIOUS
    <3> QED
      BY <2>3, <3>3, <3>4
  <2>6. C = {h[u] : u \in A}
    BY <2>4, <2>5
  <2> QED
    BY <2>6 DEF A, C
<1>11. Alongside(h, X, states(a), SinksOf(a), states(c), SinksOf(c))
  BY <1>4, <1>8, <1>9, <1>10 DEF Alongside
<1> QED
  BY <1>7, <1>11

(* The same list under other names gives the same numbers.                   *)
LEMMA PlacesAlike ==
    ASSUME NEW S, NEW T, NEW h \in [S -> T], \A s, t \in S : h[s] = h[t] => s = t,
           NEW met \in Seq(S), Once(met), NEW q \in Seq(T), Named(q, h, met)
    PROVE  \A s \in S : /\ h[s] \in ToSet(q) <=> s \in ToSet(met)
                        /\ s \in ToSet(met) => Place(q, h[s]) = Place(met, s)
<1>0. /\ Len(q) = Len(met) /\ \A j \in 1 .. Len(met) : q[j] = h[met[j]]
      /\ ToSet(q) = {h[u] : u \in ToSet(met)}
  BY DEF Named
<1>1. DOMAIN met = 1 .. Len(met) /\ \A j \in 1 .. Len(met) : met[j] \in S
  BY LenProperties, ElementOfSeq
<1>2. ToSet(met) \subseteq S
  BY <1>1 DEF ToSet
<1>3. \A s \in S : h[s] \in ToSet(q) <=> s \in ToSet(met)
  BY <1>0, <1>2
<1>4. ASSUME NEW s \in ToSet(met) PROVE Place(q, h[s]) = Place(met, s)
  <2> DEFINE i == Place(met, s)
             j == Place(q, h[s])
  <2>1. i \in 1 .. Len(met) /\ met[i] = s
    BY PlacesOfItems
  <2>2. h[s] \in ToSet(q)
    BY <1>0
  <2>3. j \in 1 .. Len(q) /\ q[j] = h[s]
    BY <2>2, PlacesOfItems
  <2> HIDE DEF i, j
  <2>4. h[met[j]] = h[s] /\ met[j] \in S /\ s \in S
    BY <1>0, <1>1, <1>2, <2>3
  <2>5. met[j] = met[i]
    BY <2>1, <2>4
  <2>6. j = i
    BY <1>0, <2>1, <2>3, <2>5 DEF Once
  <2> QED
    BY <2>6 DEF i, j
<1> QED
  BY <1>3, <1>4

(* A machine and its namesake have one canonical numbering.                  *)
LEMMA CanonicalRenamed ==
    ASSUME NEW a, Usual(a), Determinate(a), NEW c, Usual(c), Determinate(c), NEW h, Renamed(a, c, h)
    PROVE  canonical_numbering(a) = canonical_numbering(c)
<1>1. Finite(a) /\ Finite(c)
  BY UsualIsFinite
<1>2. PICK s0 : s0 \in a.start
  BY DEF Determinate
<1>3. a.start = {s0} /\ s0 \in states(a) /\ Lists(MetFrom(a, s0), a)
  BY <1>1, <1>2, CanonicalList
<1>4. /\ h \in [states(a) -> states(c)] /\ \A s, t \in states(a) : h[s] = h[t] => s = t
      /\ \A u \in states(c) : \E s \in states(a) : h[s] = u
      /\ \A s \in states(a) : (s \in a.start <=> h[s] \in c.start) /\ (s \in a.final <=> h[s] \in c.final)
      /\ \A s, t \in states(a), x \in Int : <<s, x, t>> \in a.arcs <=> <<h[s], x, h[t]>> \in c.arcs
  BY DEF Renamed
<1>5. h[s0] \in c.start
  BY <1>3, <1>4
<1>6. Lists(MetFrom(c, h[s0]), c)
  BY <1>1, <1>5, CanonicalList
<1> DEFINE p == MetFrom(a, s0)
           q == MetFrom(c, h[s0])
<1>7. labels(a) = labels(c) /\ Alongside(h, labels(a), states(a), SinksOf(a), states(c), SinksOf(c))
  BY RenamedAlongside
<1>8. q = Names(h, p)
  <2> DEFINE X == labels(a)
             A == SinksOf(a)
             C == SinksOf(c)
             S == states(a)
             T == states(c)
  <2>1. Alongside(h, X, S, A, T, C) /\ IsFiniteSet(S) /\ s0 \in S
    BY <1>1, <1>3, <1>7, FiniteStates
  <2>2. p = Numbered(s0, X, S, A) /\ q = Numbered(h[s0], X, T, C)
    BY <1>7 DEF MetFrom
  <2> HIDE DEF p, q, X, A, C, S, T
  <2>3. Numbered(h[s0], X, T, C) = Names(h, Numbered(s0, X, S, A))
    BY <2>1, NumberedAlongside
  <2> QED
    BY <2>2, <2>3
<1> HIDE DEF p, q
<1>9. p \in Seq(states(a)) /\ Once(p) /\ canonical_numbering(a) = Renumbering(a, p)
      /\ q \in Seq(states(c)) /\ canonical_numbering(c) = Renumbering(c, q)
      /\ \A t \in a.arcs : t[1] \in ToSet(p) => t[3] \in ToSet(p)
  BY <1>3, <1>6 DEF Lists, p, q
<1>10. Named(q, h, p)
  BY <1>4, <1>8, <1>9, NamesOfList
<1>11. \A s \in states(a) : /\ h[s] \in ToSet(q) <=> s \in ToSet(p)
                            /\ s \in ToSet(p) => Place(q, h[s]) = Place(p, s)
  BY <1>4, <1>9, <1>10, PlacesAlike
<1>12. \A t \in a.arcs : t = <<t[1], t[2], t[3]>> /\ t[1] \in states(a) /\ t[2] \in Int /\ t[3] \in states(a)
  <2>1. PICK b \in Nat : Bounded(a, b)
    BY DEF Usual
  <2> QED
    BY <2>1, StatesBounded
<1>13. \A t \in c.arcs : t = <<t[1], t[2], t[3]>> /\ t[1] \in states(c) /\ t[2] \in Int /\ t[3] \in states(c)
  <2>1. PICK b \in Nat : Bounded(c, b)
    BY DEF Usual
  <2> QED
    BY <2>1, StatesBounded
<1>14. a.final \subseteq states(a) /\ c.final \subseteq states(c)
  BY <1>1, FiniteStates
<1> DEFINE F == {Place(p, s) - 1 : s \in a.final \cap ToSet(p)}
           G == {Place(q, s) - 1 : s \in c.final \cap ToSet(q)}
           A == {<<Place(p, t[1]) - 1, t[2], Place(p, t[3]) - 1>> : t \in {u \in a.arcs : u[1] \in ToSet(p)}}
           B == {<<Place(q, t[1]) - 1, t[2], Place(q, t[3]) - 1>> : t \in {u \in c.arcs : u[1] \in ToSet(q)}}
<1>15. F = G
  <2>1. ASSUME NEW s \in a.final \cap ToSet(p) PROVE Place(p, s) - 1 \in G
    <3>1. s \in states(a) /\ h[s] \in c.final \cap ToSet(q) /\ Place(q, h[s]) = Place(p, s)
      BY <1>4, <1>11, <1>14
    <3> QED
      BY <3>1
  <2>2. ASSUME NEW u \in c.final \cap ToSet(q) PROVE Place(q, u) - 1 \in F
    <3>1. PICK s \in states(a) : h[s] = u
      BY <1>4, <1>14
    <3>2. s \in a.final \cap ToSet(p) /\ Place(q, u) = Place(p, s)
      BY <1>4, <1>11, <3>1
    <3> QED
      BY <3>2
  <2> QED
    BY <2>1, <2>2
<1>16. A = B
  <2>1. ASSUME NEW t \in a.arcs, t[1] \in ToSet(p)
        PROVE  <<Place(p, t[1]) - 1, t[2], Place(p, t[3]) - 1>> \in B
    <3> DEFINE u == <<h[t[1]], t[2], h[t[3]]>>
    <3>1. <<t[1], t[2], t[3]>> \in a.arcs /\ t[1] \in states(a) /\ t[2] \in Int /\ t[3] \in states(a)
      BY <1>12
    <3>2. u \in c.arcs
      BY <1>4, <3>1
    <3>3. u[1] = h[t[1]] /\ u[2] = t[2] /\ u[3] = h[t[3]]
      OBVIOUS
    <3> HIDE DEF u
    <3>4. t[3] \in ToSet(p)
      BY <1>9, <2>1
    <3>5. u[1] \in ToSet(q) /\ Place(q, u[1]) = Place(p, t[1]) /\ Place(q, u[3]) = Place(p, t[3])
      BY <1>11, <2>1, <3>1, <3>3, <3>4
    <3> QED
      BY <3>2, <3>3, <3>5
  <2>2. ASSUME NEW u \in c.arcs, u[1] \in ToSet(q)
        PROVE  <<Place(q, u[1]) - 1, u[2], Place(q, u[3]) - 1>> \in A
    <3>1. <<u[1], u[2], u[3]>> \in c.arcs /\ u[1] \in states(c) /\ u[2] \in Int /\ u[3] \in states(c)
      BY <1>13
    <3>2. PICK s \in states(a) : h[s] = u[1]
      BY <1>4, <3>1
    <3>3. PICK v \in states(a) : h[v] = u[3]
      BY <1>4, <3>1
    <3> DEFINE t == <<s, u[2], v>>
    <3>4. t \in a.arcs
      BY <1>4, <3>1, <3>2, <3>3
    <3>5. t[1] = s /\ t[2] = u[2] /\ t[3] = v
      OBVIOUS
    <3> HIDE DEF t
    <3>6. t[1] \in ToSet(p)
      BY <1>11, <2>2, <3>2, <3>5
    <3>7. t[3] \in ToSet(p)
      BY <1>9, <3>4, <3>6
    <3>8. Place(q, u[1]) = Place(p, t[1]) /\ Place(q, u[3]) = Place(p, t[3])
      BY <1>11, <3>2, <3>3, <3>5, <3>6, <3>7
    <3> QED
      BY <3>4, <3>5, <3>6, <3>8
  <2>3. \A e \in A : e \in B
    BY <2>1
  <2>4. \A e \in B : e \in A
    BY <2>2
  <2> HIDE DEF A, B
  <2> QED
    BY <2>3, <2>4
<1>17. Renumbering(a, p) = [start |-> {0}, final |-> F, arcs |-> A]
  BY DEF Renumbering
<1>18. Renumbering(c, q) = [start |-> {0}, final |-> G, arcs |-> B]
  BY DEF Renumbering
<1> HIDE DEF F, G, A, B
<1> QED
  BY <1>9, <1>15, <1>16, <1>17, <1>18

(* A language has one minimal machine but for the names of its states, and   *)
(* canonical_numbering() makes these names the same: numbered, two minimal   *)
(* machines of one language are equal.                                       *)
THEOREM OneCanonicalMachine ==
    ASSUME NEW a, Minimal(a), NEW c, Minimal(c), Accepted(a) = Accepted(c)
    PROVE  canonical_numbering(a) = canonical_numbering(c)
<1>1. PICK h : Renamed(a, c, h)
  BY OneMinimalMachine
<1>2. Usual(a) /\ Determinate(a) /\ Usual(c) /\ Determinate(c)
  BY DEF Minimal
<1> QED
  BY <1>1, <1>2, CanonicalRenamed

-----------------------------------------------------------------------------
(***************************************************************************)
(* Minimising by reversal. The sets of states that subset() makes are      *)
(* reached, each by a word, and if the machine was the reverse of a        *)
(* deterministic one no two have the same words beyond them.               *)
(***************************************************************************)

(* The waves in which states are reached.                                    *)
Waves(m, wave) ==
    /\ wave[0] = m.start
    /\ \A i \in Nat : wave[i + 1] = wave[i] \cup {t[3] : t \in {u \in m.arcs : u[1] \in wave[i]}}
    /\ reachable_states(m) = wave[number_of_states(m)]

(* A machine whose states are bounded is reached in such waves.              *)
LEMMA ReachedInWaves ==
    ASSUME NEW m, NEW b \in Nat, Bounded(m, b)
    PROVE  \E wave : Waves(m, wave)
<1> DEFINE S == SUBSET states(m)
           On(T) == T \cup {t[3] : t \in {u \in m.arcs : u[1] \in T}}
           g == [x \in Nat \X S |-> On(x[2])]
           R(h) == h = [i \in Nat |-> IF i = 0 THEN m.start ELSE On(h[i - 1])]
           wave == CHOOSE h : R(h)
<1>1. m.start \in S /\ g \in [Nat \X S -> S] /\ \A T \in S : On(T) \in S
  <2>1. m.start \in S
    BY StatesBounded
  <2>2. ASSUME NEW T \in S PROVE On(T) \in S
    BY StatesBounded
  <2> HIDE DEF On, S
  <2> QED
    BY <2>1, <2>2
<1>2. \A i \in Nat, T \in S : g[<<i, T>>] = On(T)
  <2> HIDE DEF On, S
  <2> QED
    OBVIOUS
<1> HIDE DEF g, S
<1>3. PICK h \in [Nat -> S] : IsIteration(h, m.start, g)
  BY <1>1, Iterations
<1> HIDE DEF On
<1>4. R(h)
  <2>1. h[0] = m.start /\ \A i \in Nat : h[i + 1] = On(h[i])
    BY <1>2, <1>3 DEF IsIteration
  <2>2. ASSUME NEW i \in Nat PROVE h[i] = IF i = 0 THEN m.start ELSE On(h[i - 1])
    <3>1. CASE i = 0
      BY <2>1, <3>1
    <3>2. CASE i # 0
      <4>1. PICK j \in Nat : i = j + 1 /\ i - 1 = j
        <5>1. i - 1 \in Nat /\ i = (i - 1) + 1
          BY <3>2
        <5> QED
          BY <5>1
      <4> QED
        BY <2>1, <3>2, <4>1
    <3> QED
      BY <3>1, <3>2
  <2> QED
    BY <1>3, <2>2
<1>5. R(wave)
  BY <1>4
<1>6. reachable_states(m) = wave[number_of_states(m)]
  BY DEF reachable_states, On
<1> HIDE DEF wave
<1>7. wave[0] = m.start /\ \A i \in Nat : wave[i + 1] = On(wave[i])
  <2>1. wave[0] = m.start
    BY <1>5
  <2>2. ASSUME NEW i \in Nat PROVE wave[i + 1] = On(wave[i])
    <3>1. i + 1 \in Nat /\ i + 1 # 0 /\ (i + 1) - 1 = i
      OBVIOUS
    <3> QED
      BY <1>5, <3>1
  <2> QED
    BY <2>1, <2>2
<1> HIDE DEF R
<1>8. Waves(m, wave)
  BY <1>6, <1>7 DEF Waves, On
<1> QED
  BY <1>8

(* The states reached are those in every set that arcs do not leave.         *)
LEMMA ReachedWithin ==
    ASSUME NEW m, NEW b \in Nat, Bounded(m, b),
           NEW T, m.start \subseteq T, \A t \in m.arcs : t[1] \in T => t[3] \in T
    PROVE  reachable_states(m) \subseteq T
<1>1. PICK wave : Waves(m, wave)
  BY ReachedInWaves
<1>2. /\ wave[0] = m.start
      /\ \A i \in Nat : wave[i + 1] = wave[i] \cup {t[3] : t \in {u \in m.arcs : u[1] \in wave[i]}}
      /\ reachable_states(m) = wave[number_of_states(m)]
  BY <1>1 DEF Waves
<1> DEFINE Bad == {i \in Nat : ~ (wave[i] \subseteq T)}
<1>3. Bad = {}
  <2> SUFFICES ASSUME Bad # {} PROVE FALSE
    OBVIOUS
  <2>1. PICK j \in Bad : \A x \in Bad : j <= x
    BY LeastOfNaturals
  <2>2. j \in Nat /\ ~ (wave[j] \subseteq T)
    OBVIOUS
  <2>3. j # 0
    BY <1>2, <2>2
  <2>4. PICK i \in Nat : j = i + 1
    <3>1. j - 1 \in Nat /\ j = (j - 1) + 1
      BY <2>2, <2>3
    <3> QED
      BY <3>1
  <2>5. wave[i] \subseteq T
    <3>1. i \notin Bad
      <4> HIDE DEF Bad
      <4> QED
        BY <2>1, <2>4
    <3> QED
      BY <3>1
  <2>6. wave[j] = wave[i] \cup {t[3] : t \in {u \in m.arcs : u[1] \in wave[i]}}
    BY <1>2, <2>4
  <2> QED
    BY <2>2, <2>5, <2>6
<1>4. number_of_states(m) \in Nat
  BY StatesBounded
<1> QED
  BY <1>2, <1>3, <1>4

(* ... and those a word leads to.                                            *)
LEMMA ReachedByWords ==
    ASSUME NEW m, NEW b \in Nat, Bounded(m, b)
    PROVE  \A u : u \in reachable_states(m) <=> \E w \in Seq(Int) : Leads(m, w, u)
<1> DEFINE T == {u \in states(m) : \E w \in Seq(Int) : Leads(m, w, u)}
<1>1. /\ m.start \subseteq states(m)
      /\ \A t \in m.arcs : t = <<t[1], t[2], t[3]>> /\ t[1] \in states(m) /\ t[2] \in labels(m) /\ t[3] \in states(m)
      /\ labels(m) \subseteq Int
  BY StatesBounded
<1>2. m.start \subseteq T
  <2>1. <<>> \in Seq(Int)
    OBVIOUS
  <2> QED
    BY <1>1, <2>1, LeadsAtOnce
<1>3. ASSUME NEW t \in m.arcs, t[1] \in T PROVE t[3] \in T
  <2>1. PICK w \in Seq(Int) : Leads(m, w, t[1])
    BY <1>3
  <2>2. t[2] \in Int /\ t[3] \in states(m) /\ <<t[1], t[2], t[3]>> \in m.arcs
    BY <1>1
  <2>3. Append(w, t[2]) \in Seq(Int)
    BY <2>2
  <2>4. Leads(m, Append(w, t[2]), t[3])
    <3> DEFINE x == t[2]
    <3>1. x \in Int /\ <<t[1], x, t[3]>> \in m.arcs
      BY <2>2
    <3> HIDE DEF x
    <3>2. Leads(m, Append(w, x), t[3])
      BY <2>1, <3>1, LeadsByLetter
    <3> QED
      BY <3>2 DEF x
  <2> QED
    BY <2>2, <2>3, <2>4
<1>4. reachable_states(m) \subseteq T
  <2> HIDE DEF T
  <2> QED
    BY <1>2, <1>3, ReachedWithin
<1>5. ASSUME NEW u, NEW w \in Seq(Int), Leads(m, w, u) PROVE u \in reachable_states(m)
  <2>1. PICK f : f[0] \in m.start /\ f[Len(w)] = u /\ Run(m, f, w, Len(w))
    BY <1>5 DEF Leads, Spells
  <2>2. Len(w) \in Nat
    BY LenProperties
  <2>3. \A i \in 0 .. Len(w) : f[i] \in reachable_states(m)
    BY <2>1, <2>2, RunsAreReached
  <2> QED
    BY <2>1, <2>2, <2>3
<1> QED
  BY <1>4, <1>5

(* Of reachable_fm() every state is reached, and lies ahead what lay ahead.  *)
LEMMA ReachablePartLeads ==
    ASSUME NEW m, NEW b \in Nat, Bounded(m, b)
    PROVE  LET r == reachable_fm(m)
           IN  /\ Bounded(r, b) /\ r.start = m.start
               /\ states(r) = reachable_states(m) /\ reachable_states(m) \subseteq states(m)
               /\ r.final = m.final \cap reachable_states(m)
               /\ \A t : t \in r.arcs <=> t \in m.arcs /\ t[1] \in reachable_states(m)
               /\ \A w \in Seq(Int) : \A u : Leads(r, w, u) <=> Leads(m, w, u)
               /\ \A u \in states(r) : \E w \in Seq(Int) : Leads(r, w, u)
<1> DEFINE r == reachable_fm(m)
           Re == reachable_states(m)
           B == m.final \cap Re
           C == {t \in m.arcs : t[1] \in Re /\ t[3] \in Re}
<1>1. Bounded(r, b)
  BY ReachableLanguage
<1>2. m = [start |-> m.start, final |-> m.final, arcs |-> m.arcs]
  BY DEF Bounded
<1>3. r = [m EXCEPT !.final = B, !.arcs = C]
  BY DEF reachable_fm
<1> HIDE DEF r
<1>4. r.start = m.start /\ r.final = B /\ r.arcs = C
  <2> HIDE DEF B, C
  <2> QED
    BY <1>2, <1>3
<1>5. /\ m.start \subseteq Re /\ Re \subseteq states(m)
      /\ \A t \in m.arcs : t[1] \in Re => t[3] \in Re
  BY ReachedIsClosed
<1>6. \A t : t \in r.arcs <=> t \in m.arcs /\ t[1] \in Re
  BY <1>4, <1>5
<1> HIDE DEF Re, B, C
<1>7. ASSUME NEW w \in Seq(Int), NEW u PROVE Leads(r, w, u) <=> Leads(m, w, u)
  <2> DEFINE T == {v \in Seq(Int) : \A s : Leads(r, v, s) <=> Leads(m, v, s)}
  <2>1. <<>> \in T
    BY <1>4, LeadsAtOnce
  <2>2. ASSUME NEW v \in Seq(Int), NEW x \in Int, v \in T PROVE Append(v, x) \in T
    <3>1. \A s : Leads(r, v, s) <=> Leads(m, v, s)
      BY <2>2
    <3>2. \A s : Leads(r, Append(v, x), s) <=> \E t : Leads(r, v, t) /\ <<t, x, s>> \in r.arcs
      BY LeadsByLetter
    <3>3. \A s : Leads(m, Append(v, x), s) <=> \E t : Leads(m, v, t) /\ <<t, x, s>> \in m.arcs
      BY LeadsByLetter
    <3>4. \A t, s : Leads(m, v, t) => (<<t, x, s>> \in r.arcs <=> <<t, x, s>> \in m.arcs)
      <4>1. \A t : Leads(m, v, t) => t \in Re
        BY ReachedByWords DEF Re
      <4>2. \A t, s : <<t, x, s>>[1] = t
        OBVIOUS
      <4> QED
        BY <1>6, <4>1, <4>2
    <3>5. \A s : Leads(r, Append(v, x), s) <=> Leads(m, Append(v, x), s)
      BY <3>1, <3>2, <3>3, <3>4
    <3>6. Append(v, x) \in Seq(Int)
      OBVIOUS
    <3> QED
      BY <3>5, <3>6
  <2>3. w \in T
    <3> HIDE DEF T
    <3> QED
      BY <2>1, <2>2, WordInduction
  <2> QED
    BY <2>3
<1>8. states(r) = Re
  <2>1. states(r) \subseteq Re
    <3>1. \A t \in r.arcs : t[1] \in Re /\ t[3] \in Re
      BY <1>4 DEF C
    <3>2. r.start \subseteq Re /\ r.final \subseteq Re
      BY <1>4, <1>5 DEF B
    <3> QED
      BY <3>1, <3>2 DEF states
  <2>2. ASSUME NEW u \in Re PROVE u \in states(r)
    <3>1. PICK w \in Seq(Int) : Leads(m, w, u)
      BY ReachedByWords DEF Re
    <3>2. Leads(r, w, u)
      BY <1>7, <3>1
    <3> QED
      BY <1>1, <3>1, <3>2, LeadsToStates
  <2> QED
    BY <2>1, <2>2
<1>9. \A u \in states(r) : \E w \in Seq(Int) : Leads(r, w, u)
  <2>1. \A u \in Re : \E w \in Seq(Int) : Leads(m, w, u)
    BY ReachedByWords DEF Re
  <2> QED
    BY <1>7, <1>8, <2>1
<1> QED
  BY <1>1, <1>4, <1>5, <1>6, <1>7, <1>8, <1>9 DEF r, Re, B

(* c has for states the places in a list of sets of states of t, each once,  *)
(* the first the start states, the others not empty, and all of them reached.*)
SetsOf(c, t, met) ==
    /\ met \in Seq(SUBSET states(t)) /\ Len(met) >= 1 /\ met[1] = t.start /\ Once(met)
    /\ c.start = {0}
    /\ \A y : y \in c.final <=> \E i \in 1 .. Len(met) : y = i - 1 /\ met[i] \cap t.final # {}
    /\ \A e \in c.arcs : \E i, j \in 1 .. Len(met), x \in Int :
          e = <<i - 1, x, j - 1>> /\ met[j] = SinksOn(t, met[i], x)
    /\ \A i \in 1 .. Len(met), x \in Int : SinksOn(t, met[i], x) # {} =>
          \E j \in 1 .. Len(met) : <<i - 1, x, j - 1>> \in c.arcs
    /\ \A i \in 1 .. Len(met) : i = 1 \/ met[i] # {}
    /\ \A i \in 1 .. Len(met) : \E w \in Seq(Int) : Leads(c, w, i - 1)

(* subset() of a machine that is not deterministic is made of such a list.   *)
LEMMA SubsetSets ==
    ASSUME NEW m, Finite(m), NEW b \in Nat, Bounded(m, b), ~ is_deterministic(m)
    PROVE  \E met : SetsOf(subset(m), Trimmed(m), met)
<1> DEFINE t == Trimmed(m)
           X == labels(t)
           On(S, x) == SinksOn(t, S, x)
           ahead == [p \in (SUBSET states(t)) \X labels(t) |-> {On(p[1], p[2])} \ {{}}]
           met == Numbered(t.start, labels(t), SUBSET states(t), ahead)
           c == subset(m)
           n == Len(met)
           P(i, x) == Place(met, On(met[i], x))
<1>1. /\ c.start = {0}
      /\ c.final = {i - 1 : i \in {j \in DOMAIN met : met[j] \cap t.final # {}}}
      /\ c.arcs = {<<p[1] - 1, p[2], P(p[1], p[2]) - 1>> :
                      p \in {q \in (DOMAIN met) \X X : On(met[q[1]], q[2]) # {}}}
  BY DEF subset
<1> HIDE DEF c
<1>2. Finite(t) /\ Bounded(t, b)
  BY FiniteTrimmed, TrimmedAccepts
<1> HIDE DEF t
<1>3. /\ X \in SUBSET Int /\ IsFiniteSet(X)
      /\ IsFiniteSet(SUBSET states(t)) /\ t.start \in SUBSET states(t)
  BY <1>2, FiniteStates, FS_SUBSET
<1>4. \A p \in (SUBSET states(t)) \X X : On(p[1], p[2]) \in SUBSET states(t)
  BY <1>2, FiniteSinks
<1>4a. \A S, x : On(S, x) # {} => x \in X
  BY DEF SinksOn, labels
<1>4b. \A S, x : SinksOn(t, S, x) = On(S, x)
  OBVIOUS
<1> HIDE DEF On
<1>5. /\ ahead \in [(SUBSET states(t)) \X X -> SUBSET (SUBSET states(t))]
      /\ \A p \in (SUBSET states(t)) \X X : \A u, v \in ahead[p] : u = v
      /\ \A S \in SUBSET states(t), x \in X : ahead[<<S, x>>] = {On(S, x)} \ {{}}
  BY <1>4
<1> HIDE DEF ahead
<1> DEFINE S == SUBSET states(t)
           q == Numbered(t.start, X, S, ahead)
<1>5a. /\ Numberable(X, S, ahead) /\ X \in SUBSET Int /\ IsFiniteSet(X)
       /\ IsFiniteSet(S) /\ t.start \in S /\ ahead \in [S \X X -> SUBSET S]
       /\ \A p \in S \X X : \A u, v \in ahead[p] : u = v
  BY <1>3, <1>5 DEF Numberable
<1>6. /\ met \in Seq(SUBSET states(t)) /\ n >= 1 /\ met[1] = t.start /\ Once(met)
      /\ \A j \in 1 .. n : \A x \in X : ahead[<<met[j], x>>] \subseteq ToSet(met)
  <2> HIDE DEF S, X
  <2>3. /\ q \in Seq(S) /\ Len(q) >= 1 /\ q[1] = t.start
        /\ Once(q)
        /\ \A j \in 1 .. Len(q) : \A x \in X : ahead[<<q[j], x>>] \subseteq ToSet(q)
    BY <1>5a, NumberedOnce, Zenon
  <2> HIDE DEF q
  <2> QED
    BY <2>3 DEF q, X, S
<1>6a. ASSUME NEW U \in SUBSET S, t.start \in U, \A s \in U, x \in X : ahead[<<s, x>>] \subseteq U
       PROVE  ToSet(met) \subseteq U
  <2> HIDE DEF S, X
  <2>1. ToSet(q) \subseteq U
    BY <1>5a, <1>6a, NumberedWithin
  <2> QED
    BY <2>1 DEF q, X, S
<1> HIDE DEF met, X, q
<1>7. n \in Nat /\ DOMAIN met = 1 .. n /\ \A i \in 1 .. n : met[i] \in S
  BY <1>6, LenProperties, ElementOfSeq
<1>8. ASSUME NEW i \in 1 .. n, NEW x \in X, On(met[i], x) # {}
      PROVE  P(i, x) \in 1 .. n /\ met[P(i, x)] = On(met[i], x)
  <2>1. On(met[i], x) \in ToSet(met)
    <3>1. met[i] \in SUBSET states(t) /\ ahead[<<met[i], x>>] \subseteq ToSet(met)
      BY <1>6, <1>7
    <3>2. ahead[<<met[i], x>>] = {On(met[i], x)} \ {{}}
      BY <1>5, <3>1
    <3> QED
      BY <1>8, <3>1, <3>2
  <2> QED
    BY <1>6, <2>1, PlacesOfItems
<1>8a. \A i \in 1 .. n : met[i] \in ToSet(met)
  BY <1>7 DEF ToSet
<1> HIDE DEF n, P
<1>9. ASSUME NEW y
      PROVE  y \in c.final <=> \E i \in 1 .. n : y = i - 1 /\ met[i] \cap t.final # {}
  BY <1>1, <1>7
<1>10. ASSUME NEW e \in c.arcs
       PROVE  \E i, j \in 1 .. n, x \in Int :
                 e = <<i - 1, x, j - 1>> /\ met[j] = SinksOn(t, met[i], x)
  <2>1. PICK i \in 1 .. n, x \in X : On(met[i], x) # {} /\ e = <<i - 1, x, P(i, x) - 1>>
    BY <1>1, <1>7
  <2> QED
    BY <1>3, <1>4b, <1>8, <2>1
<1>10a. ASSUME NEW i \in 1 .. n, NEW x \in X, On(met[i], x) # {}
        PROVE  <<i - 1, x, P(i, x) - 1>> \in c.arcs
  <2>2. <<i, x>> \in {p \in (DOMAIN met) \X X : On(met[p[1]], p[2]) # {}}
    BY <1>7, <1>10a
  <2> QED
    BY <1>1, <2>2
<1>11. ASSUME NEW i \in 1 .. n, NEW x \in Int, SinksOn(t, met[i], x) # {}
       PROVE  \E j \in 1 .. n : <<i - 1, x, j - 1>> \in c.arcs
  <2>1. On(met[i], x) # {} /\ x \in X
    BY <1>4a, <1>4b, <1>11
  <2> QED
    BY <1>8, <1>10a, <2>1
<1>12. \A i \in 1 .. n : i = 1 \/ met[i] # {}
  <2> DEFINE U == {s \in S : s = t.start \/ s # {}}
  <2>1. ASSUME NEW s \in U, NEW x \in X PROVE ahead[<<s, x>>] \subseteq U
    <3>1. s \in SUBSET states(t)
      OBVIOUS
    <3>2. ahead[<<s, x>>] = {On(s, x)} \ {{}} /\ ahead[<<s, x>>] \subseteq S
      <4>1. ahead[<<s, x>>] = {On(s, x)} \ {{}}
        BY <1>5, <3>1
      <4>2. <<s, x>> \in S \X X
        OBVIOUS
      <4> HIDE DEF S, U
      <4> QED
        BY <1>5a, <4>1, <4>2
    <3> QED
      BY <3>2
  <2>2. U \in SUBSET S /\ t.start \in U
    BY <1>5a
  <2> HIDE DEF U
  <2>3. ToSet(met) \subseteq U
    BY <1>6a, <2>1, <2>2
  <2> SUFFICES ASSUME NEW i \in 1 .. n, met[i] = {} PROVE i = 1
    OBVIOUS
  <2>4. met[i] \in U
    BY <1>8a, <2>3
  <2>5. met[i] = met[1]
    BY <1>6, <2>4 DEF U
  <2>6. 1 \in 1 .. n
    BY <1>6, <1>7
  <2> QED
    BY <1>6, <2>5, <2>6 DEF Once, n
<1>13. \A i \in 1 .. n : \E w \in Seq(Int) : Leads(c, w, i - 1)
  <2> DEFINE Go(i) == \E w \in Seq(Int) : Leads(c, w, i - 1)
             U == {s \in S : \E i \in 1 .. n : s = met[i] /\ Go(i)}
  <2>1. t.start \in U
    <3>1. <<>> \in Seq(Int) /\ 1 - 1 = 0 /\ 1 \in 1 .. n
      BY <1>6, <1>7
    <3>2. Leads(c, <<>>, 0)
      BY <1>1, LeadsAtOnce
    <3>3. Go(1)
      BY <3>1, <3>2
    <3> HIDE DEF Go
    <3> QED
      BY <1>5a, <1>6, <3>1, <3>3
  <2>2. ASSUME NEW s \in U, NEW x \in X PROVE ahead[<<s, x>>] \subseteq U
    <3> SUFFICES ASSUME NEW u \in ahead[<<s, x>>] PROVE u \in U
      OBVIOUS
    <3>1. PICK i \in 1 .. n : s = met[i] /\ Go(i)
      OBVIOUS
    <3>2. s \in SUBSET states(t)
      OBVIOUS
    <3>3. ahead[<<s, x>>] = {On(s, x)} \ {{}}
      BY <1>5, <3>2
    <3>4. u = On(met[i], x) /\ On(met[i], x) # {}
      BY <3>1, <3>3
    <3> DEFINE j == P(i, x)
    <3>5. j \in 1 .. n /\ met[j] = u /\ <<i - 1, x, j - 1>> \in c.arcs
      BY <1>8, <1>10a, <3>4
    <3> HIDE DEF j
    <3>6. PICK w \in Seq(Int) : Leads(c, w, i - 1)
      BY <3>1
    <3>7. x \in Int
      BY <1>3
    <3>8. Append(w, x) \in Seq(Int) /\ Leads(c, Append(w, x), j - 1)
      <4>1. \A z : Leads(c, Append(w, x), z) <=> \E y : Leads(c, w, y) /\ <<y, x, z>> \in c.arcs
        BY <3>7, LeadsByLetter
      <4>2. \E y : Leads(c, w, y) /\ <<y, x, j - 1>> \in c.arcs
        BY <3>5, <3>6
      <4>3. Leads(c, Append(w, x), j - 1)
        BY <4>1, <4>2
      <4>4. Append(w, x) \in Seq(Int)
        BY <3>7
      <4> QED
        BY <4>3, <4>4
    <3>9. u \in S
      BY <1>7, <3>5
    <3>10. Go(j)
      BY <3>8
    <3> HIDE DEF Go
    <3> QED
      BY <3>5, <3>9, <3>10
  <2>3. U \in SUBSET S
    OBVIOUS
  <2> HIDE DEF U
  <2>4. ToSet(met) \subseteq U
    BY <1>6a, <2>1, <2>2, <2>3
  <2> SUFFICES ASSUME NEW i \in 1 .. n PROVE Go(i)
    OBVIOUS
  <2>5. met[i] \in U
    BY <1>8a, <2>4
  <2>6. PICK j \in 1 .. n : met[i] = met[j] /\ Go(j)
    BY <2>5 DEF U
  <2>7. i = j
    BY <1>6, <2>6 DEF Once, n
  <2> QED
    BY <2>6, <2>7
<1>14. SetsOf(c, t, met)
  BY <1>1, <1>6, <1>9, <1>10, <1>11, <1>12, <1>13 DEF SetsOf, n, S
<1> QED
  BY <1>14 DEF c, t

(* A word read backwards twice is the word.                                  *)
LEMMA ReversedWord ==
    ASSUME NEW w \in Seq(Int)
    PROVE  Reverse(w) \in Seq(Int) /\ Reverse(Reverse(w)) = w
<1> DEFINE n == Len(w)
           v == Reverse(w)
           u == Reverse(v)
<1>1. n \in Nat /\ \A i \in 1 .. n : w[i] \in Int
  BY LenProperties, ElementOfSeq
<1>2. v = [i \in 1 .. n |-> w[(n - i) + 1]]
  BY DEF Reverse
<1>3. \A i \in 1 .. n : (n - i) + 1 \in 1 .. n /\ (n - ((n - i) + 1)) + 1 = i
  BY <1>1
<1> HIDE DEF v
<1>4. v \in [1 .. n -> Int]
  BY <1>1, <1>2, <1>3
<1>5. v \in Seq(Int) /\ Len(v) = n
  BY <1>1, <1>4, FunctionsAreLists
<1>6. u = [i \in 1 .. n |-> v[(n - i) + 1]]
  BY <1>5 DEF Reverse
<1> HIDE DEF u
<1>7. \A i \in 1 .. n : u[i] = w[i]
  BY <1>2, <1>3, <1>6
<1>8. u \in [1 .. n -> Int]
  BY <1>3, <1>4, <1>6
<1>9. u \in Seq(Int) /\ Len(u) = n
  BY <1>1, <1>8, FunctionsAreLists
<1>10. u = w
  BY <1>7, <1>9, SeqEqual
<1> QED
  BY <1>5, <1>10 DEF u, v

(* So is a machine turned round twice the machine.                           *)
LEMMA ReversedTwice ==
    ASSUME NEW m, NEW b \in Nat, Bounded(m, b)
    PROVE  reverse(reverse(m)) = m
<1> DEFINE r == reverse(m)
           A == {<<t[3], t[2], t[1]>> : t \in m.arcs}
           B == {<<t[3], t[2], t[1]>> : t \in A}
<1>1. m = [start |-> m.start, final |-> m.final, arcs |-> m.arcs]
      /\ \A t \in m.arcs : t = <<t[1], t[2], t[3]>>
  BY DEF Bounded
<1>2. r.start = m.final /\ r.final = m.start /\ r.arcs = A
  BY DEF reverse
<1>3. reverse(r) = [start |-> r.final, final |-> r.start, arcs |-> {<<t[3], t[2], t[1]>> : t \in r.arcs}]
  BY DEF reverse
<1> HIDE DEF r
<1>4. reverse(r) = [start |-> m.start, final |-> m.final, arcs |-> B]
  BY <1>2, <1>3
<1>5. B = m.arcs
  <2>1. ASSUME NEW t \in m.arcs PROVE t \in B
    <3> DEFINE u == <<t[3], t[2], t[1]>>
    <3>1. u \in A /\ t = <<u[3], u[2], u[1]>>
      BY <1>1
    <3> HIDE DEF A
    <3> QED
      BY <3>1
  <2>2. ASSUME NEW e \in B PROVE e \in m.arcs
    <3>1. PICK u \in A : e = <<u[3], u[2], u[1]>>
      OBVIOUS
    <3>2. PICK t \in m.arcs : u = <<t[3], t[2], t[1]>>
      OBVIOUS
    <3>3. e = <<t[1], t[2], t[3]>>
      BY <3>1, <3>2
    <3> QED
      BY <1>1, <3>3
  <2> QED
    BY <2>1, <2>2
<1> QED
  BY <1>1, <1>4, <1>5 DEF r

(* The words ahead of a state are those that lead to it backwards.           *)
LEMMA BeyondReverse ==
    ASSUME NEW m, NEW b \in Nat, Bounded(m, b), NEW s \in 0 .. b, NEW v \in Seq(Int)
    PROVE  v \in Beyond(m, s) <=> Leads(reverse(m), Reverse(v), s)
<1> DEFINE q == Beginning(m, s)
           r == reverse(q)
           w == Reverse(v)
<1>1. w \in Seq(Int) /\ Reverse(w) = v
  BY ReversedWord
<1>2. Bounded(q, b)
  BY DEF Bounded, Beginning
<1>3. q.start = {s} /\ q.final = m.final /\ q.arcs = m.arcs
  BY DEF Beginning
<1>4. v \in Beyond(m, s) <=> v \in Accepted(q)
  BY <1>3 DEF Beyond, Accepted, Spells, Run
<1>5. Accepted(r) = {Reverse(x) : x \in Accepted(q)}
  BY <1>2, ReverseLanguage
<1>6. v \in Accepted(q) <=> w \in Accepted(r)
  <2>1. ASSUME NEW x \in Accepted(q), w = Reverse(x) PROVE x = v
    <3>1. x \in Seq(Int)
      BY DEF Accepted
    <3>2. Reverse(Reverse(x)) = x
      BY <3>1, ReversedWord
    <3> QED
      BY <1>1, <2>1, <3>2
  <2> HIDE DEF w, r, q
  <2>2. w \in Accepted(r) => v \in Accepted(q)
    BY <1>5, <2>1
  <2>3. v \in Accepted(q) => w \in Accepted(r)
    BY <1>5 DEF w
  <2> QED
    BY <2>2, <2>3
<1>7. r.start = reverse(m).start /\ r.final = {s} /\ r.arcs = reverse(m).arcs
  BY <1>3 DEF reverse
<1> HIDE DEF r, w, q
<1>8. w \in Accepted(r) <=> Leads(r, w, s)
  BY <1>1, <1>7, AcceptedByLeading
<1>9. Leads(r, w, s) <=> Leads(reverse(m), w, s)
  BY <1>7 DEF Leads, Spells, Run
<1> QED
  BY <1>4, <1>6, <1>8, <1>9 DEF w

(* reachable_fm() changes nothing of what lies ahead of the states it leaves.*)
LEMMA BeyondReached ==
    ASSUME NEW m, NEW b \in Nat, Bounded(m, b), NEW s \in states(reachable_fm(m))
    PROVE  Beyond(reachable_fm(m), s) = Beyond(m, s)
<1> DEFINE r == reachable_fm(m)
           Re == reachable_states(m)
           T == {v \in Seq(Int) : \A u : /\ Spells(r, s, v, u) <=> Spells(m, s, v, u)
                                         /\ Spells(m, s, v, u) => u \in Re}
<1>1. /\ states(r) = Re /\ r.final = m.final \cap Re
      /\ \A t : t \in r.arcs <=> t \in m.arcs /\ t[1] \in Re
  BY ReachablePartLeads
<1>2. \A t \in m.arcs : t[1] \in Re => t[3] \in Re
  BY ReachedIsClosed
<1>3. s \in Re
  BY <1>1
<1> HIDE DEF r, Re
<1>4. <<>> \in T
  <2>1. \A u : (Spells(r, s, <<>>, u) <=> u = s) /\ (Spells(m, s, <<>>, u) <=> u = s)
    BY SpellsAtOnce
  <2>2. <<>> \in Seq(Int)
    OBVIOUS
  <2> QED
    BY <1>3, <2>1, <2>2
<1>5. ASSUME NEW v \in Seq(Int), NEW x \in Int, v \in T PROVE Append(v, x) \in T
  <2>1. \A u : /\ Spells(r, s, v, u) <=> Spells(m, s, v, u)
               /\ Spells(m, s, v, u) => u \in Re
    BY <1>5
  <2>2. \A u : Spells(r, s, Append(v, x), u) <=> \E t : Spells(r, s, v, t) /\ <<t, x, u>> \in r.arcs
    BY SpellsByLetter, Zenon
  <2>3. \A u : Spells(m, s, Append(v, x), u) <=> \E t : Spells(m, s, v, t) /\ <<t, x, u>> \in m.arcs
    BY SpellsByLetter, Zenon
  <2>4. \A t, u : <<t, x, u>> \in r.arcs <=> <<t, x, u>> \in m.arcs /\ t \in Re
    <3>1. \A t, u : <<t, x, u>>[1] = t
      OBVIOUS
    <3> QED
      BY <1>1, <3>1
  <2>5. \A t, u : <<t, x, u>> \in m.arcs /\ t \in Re => u \in Re
    <3>1. \A t, u : <<t, x, u>>[1] = t /\ <<t, x, u>>[3] = u
      OBVIOUS
    <3> QED
      BY <1>2, <3>1
  <2>6. Append(v, x) \in Seq(Int)
    OBVIOUS
  <2>7. \A u : /\ Spells(r, s, Append(v, x), u) <=> Spells(m, s, Append(v, x), u)
               /\ Spells(m, s, Append(v, x), u) => u \in Re
    BY <2>1, <2>2, <2>3, <2>4, <2>5
  <2> QED
    BY <2>6, <2>7
<1>6. Seq(Int) \subseteq T
  <2> HIDE DEF T
  <2> QED
    BY <1>4, <1>5, WordInduction
<1>7. \A v \in Seq(Int) : (\E u \in r.final : Spells(r, s, v, u)) <=> (\E u \in m.final : Spells(m, s, v, u))
  BY <1>1, <1>6
<1> QED
  BY <1>7 DEF Beyond, r

(* Trimmed() neither: and something lies ahead of each.                      *)
LEMMA BeyondTrimmed ==
    ASSUME NEW m, NEW b \in Nat, Bounded(m, b), NEW s \in states(Trimmed(m))
    PROVE  /\ s \in states(m) /\ Beyond(Trimmed(m), s) = Beyond(m, s)
           /\ Beyond(m, s) # {}
<1> DEFINE r1 == reachable_fm(m)
           r2 == reverse(r1)
           r3 == reachable_fm(r2)
           t == reverse(r3)
<1>1. Bounded(r1, b) /\ states(r1) \subseteq states(m)
  BY ReachablePartLeads
<1>2. Bounded(r2, b)
  BY <1>1, ReversedMachine
<1>3. /\ Bounded(r3, b) /\ states(r3) \subseteq states(r2)
      /\ \A w \in Seq(Int) : \A u : Leads(r3, w, u) <=> Leads(r2, w, u)
      /\ \A u \in states(r3) : \E w \in Seq(Int) : Leads(r3, w, u)
  BY <1>2, ReachablePartLeads
<1>4. Bounded(t, b) /\ reverse(t) = r3
  BY <1>3, ReversedMachine, ReversedTwice
<1>5. ASSUME NEW n, Bounded(n, b) PROVE states(reverse(n)) = states(n)
  <2> DEFINE q == reverse(n)
  <2>1. q.start = n.final /\ q.final = n.start /\ \A x, y, z : <<x, y, z>> \in q.arcs <=> <<z, y, x>> \in n.arcs
    BY <1>5, ReversedMachine
  <2>2. Bounded(q, b)
    BY <1>5, ReversedMachine
  <2>3. \A e \in q.arcs : e = <<e[1], e[2], e[3]>>
    BY <2>2, StatesBounded
  <2>4. \A e \in n.arcs : e = <<e[1], e[2], e[3]>>
    BY <1>5, StatesBounded
  <2> HIDE DEF q
  <2>5. ASSUME NEW e \in q.arcs PROVE e[1] \in states(n) /\ e[3] \in states(n)
    <3>1. <<e[3], e[2], e[1]>> \in n.arcs
      BY <2>1, <2>3
    <3>2. <<e[3], e[2], e[1]>>[1] = e[3] /\ <<e[3], e[2], e[1]>>[3] = e[1]
      OBVIOUS
    <3> QED
      BY <1>5, <3>1, <3>2, StatesBounded
  <2>6. ASSUME NEW e \in n.arcs PROVE e[1] \in states(q) /\ e[3] \in states(q)
    <3>1. <<e[3], e[2], e[1]>> \in q.arcs
      BY <2>1, <2>4
    <3>2. <<e[3], e[2], e[1]>>[1] = e[3] /\ <<e[3], e[2], e[1]>>[3] = e[1]
      OBVIOUS
    <3> QED
      BY <2>2, <3>1, <3>2, StatesBounded
  <2>7. q.start \subseteq states(n) /\ q.final \subseteq states(n) /\ n.start \subseteq states(q) /\ n.final \subseteq states(q)
    BY <2>1 DEF states
  <2>8. states(q) \subseteq states(n)
    BY <2>5, <2>7 DEF states
  <2>9. states(n) \subseteq states(q)
    BY <2>6, <2>7 DEF states
  <2> QED
    BY <2>8, <2>9 DEF q
<1>6. s \in states(r3) /\ s \in states(r1)
  <2>1. states(t) = states(r3) /\ states(r2) = states(r1)
    BY <1>1, <1>3, <1>5
  <2>2. s \in states(t)
    BY DEF Trimmed
  <2> QED
    BY <1>3, <2>1, <2>2
<1>7. s \in 0 .. b
  BY <1>1, <1>6, StatesBounded
<1>8. Beyond(r1, s) = Beyond(m, s)
  BY <1>6, BeyondReached
<1> HIDE DEF r1, r3
<1>9. ASSUME NEW v \in Seq(Int) PROVE v \in Beyond(t, s) <=> v \in Beyond(r1, s)
  <2>1. v \in Beyond(t, s) <=> Leads(r3, Reverse(v), s)
    BY <1>4, <1>7, BeyondReverse
  <2>2. v \in Beyond(r1, s) <=> Leads(r2, Reverse(v), s)
    BY <1>1, <1>7, BeyondReverse
  <2> QED
    BY <1>3, <2>1, <2>2, ReversedWord
<1>10. Beyond(t, s) = Beyond(r1, s)
  BY <1>9 DEF Beyond
<1>11. Beyond(t, s) # {}
  <2>1. PICK w \in Seq(Int) : Leads(r3, w, s)
    BY <1>3, <1>6
  <2>2. Reverse(w) \in Seq(Int) /\ Reverse(Reverse(w)) = w
    BY ReversedWord
  <2>3. Reverse(w) \in Beyond(t, s)
    BY <1>4, <1>7, <2>1, <2>2, BeyondReverse
  <2> QED
    BY <2>3
<1>12. Trimmed(m) = t
  BY DEF Trimmed, r1, r3
<1> HIDE DEF t
<1> QED
  BY <1>1, <1>6, <1>8, <1>10, <1>11, <1>12

(* Where a word leads in the machine of sets is the set it leads to.         *)
LEMMA SetsLead ==
    ASSUME NEW t, NEW b \in Nat, Bounded(t, b), NEW c, NEW met, SetsOf(c, t, met), NEW w \in Seq(Int)
    PROVE  \A i \in 1 .. Len(met) : Leads(c, w, i - 1) => met[i] = After(t, w)
<1> DEFINE n == Len(met)
           T == {v \in Seq(Int) : \A y : Leads(c, v, y) =>
                                     \E i \in 1 .. n : y = i - 1 /\ met[i] = After(t, v)}
<1>1. /\ met \in Seq(SUBSET states(t)) /\ n >= 1 /\ met[1] = t.start /\ c.start = {0}
      /\ \A e \in c.arcs : \E i, j \in 1 .. n, x \in Int :
            e = <<i - 1, x, j - 1>> /\ met[j] = SinksOn(t, met[i], x)
  BY DEF SetsOf
<1>2. n \in Nat
  BY <1>1, LenProperties
<1> HIDE DEF n
<1>3. \A i, j \in 1 .. n : i - 1 = j - 1 => i = j
  BY <1>2
<1>4. <<>> \in T
  <2>1. \A y : Leads(c, <<>>, y) <=> y = 0
    BY <1>1, LeadsAtOnce
  <2>2. 1 \in 1 .. n /\ 0 = 1 - 1
    BY <1>1, <1>2
  <2>3. met[1] = After(t, <<>>)
    BY <1>1, AfterNothing
  <2>4. <<>> \in Seq(Int)
    OBVIOUS
  <2> QED
    BY <2>1, <2>2, <2>3, <2>4
<1>5. ASSUME NEW v \in Seq(Int), NEW x \in Int, v \in T PROVE Append(v, x) \in T
  <2> DEFINE z == Append(v, x)
  <2>1. z \in Seq(Int)
    OBVIOUS
  <2>2. After(t, z) = SinksOn(t, After(t, v), x)
    BY AfterLetter
  <2>3. \A u : Leads(c, z, u) <=> \E s : Leads(c, v, s) /\ <<s, x, u>> \in c.arcs
    BY LeadsByLetter
  <2>4. \A y : Leads(c, v, y) => \E i \in 1 .. n : y = i - 1 /\ met[i] = After(t, v)
    BY <1>5
  <2> HIDE DEF z, T
  <2>5. ASSUME NEW y, Leads(c, z, y) PROVE \E i \in 1 .. n : y = i - 1 /\ met[i] = After(t, z)
    <3>1. PICK s : Leads(c, v, s) /\ <<s, x, y>> \in c.arcs
      BY <2>3, <2>5
    <3>2. PICK i \in 1 .. n : s = i - 1 /\ met[i] = After(t, v)
      BY <2>4, <3>1
    <3>3. PICK k \in 1 .. n, j \in 1 .. n, l \in Int :
             <<s, x, y>> = <<k - 1, l, j - 1>> /\ met[j] = SinksOn(t, met[k], l)
      BY <1>1, <3>1
    <3>4. s = k - 1 /\ x = l /\ y = j - 1
      BY <3>3
    <3>5. k = i
      BY <1>3, <3>2, <3>4
    <3> QED
      BY <2>2, <3>2, <3>3, <3>4, <3>5
  <2> QED
    BY <2>1, <2>5 DEF T, z
<1>6. Seq(Int) \subseteq T
  <2> HIDE DEF T
  <2> QED
    BY <1>4, <1>5, WordInduction
<1>7. ASSUME NEW i \in 1 .. n, Leads(c, w, i - 1) PROVE met[i] = After(t, w)
  <2>1. PICK j \in 1 .. n : i - 1 = j - 1 /\ met[j] = After(t, w)
    BY <1>6, <1>7
  <2> QED
    BY <1>3, <2>1
<1> QED
  BY <1>7 DEF n

(* Ahead of a set lies what lies ahead of its states.                        *)
LEMMA BeyondSet ==
    ASSUME NEW t, NEW b \in Nat, Bounded(t, b), NEW c, Usual(c), Determinate(c),
           Accepted(c) = Accepted(t), NEW met, SetsOf(c, t, met), NEW i \in 1 .. Len(met)
    PROVE  \A v \in Seq(Int) : v \in Beyond(c, i - 1) <=> \E s \in met[i] : v \in Beyond(t, s)
<1> SUFFICES ASSUME NEW v \in Seq(Int)
             PROVE  v \in Beyond(c, i - 1) <=> \E s \in met[i] : v \in Beyond(t, s)
  OBVIOUS
<1>1. PICK w \in Seq(Int) : Leads(c, w, i - 1)
  BY DEF SetsOf
<1>2. met[i] = After(t, w)
  BY <1>1, SetsLead
<1>3. v \in Beyond(c, i - 1) <=> w \o v \in Accepted(t)
  BY <1>1, BeyondWord
<1>4. w \o v \in Accepted(t) <=> \E u \in t.start : w \o v \in Beyond(t, u)
  BY AcceptedIsBeyond
<1>5. \A u : w \o v \in Beyond(t, u) <=> \E s : Spells(t, u, w, s) /\ v \in Beyond(t, s)
  BY BeyondLetter
<1>6. w \o v \in Accepted(t) <=> \E s : Leads(t, w, s) /\ v \in Beyond(t, s)
  BY <1>4, <1>5 DEF Leads
<1>7. \A s : Leads(t, w, s) => s \in states(t)
  BY LeadsToStates
<1>8. \A s : s \in met[i] <=> Leads(t, w, s)
  BY <1>2, <1>7 DEF After
<1> QED
  BY <1>3, <1>6, <1>8

(* The states of the machine of sets are the places.                         *)
LEMMA SetsAreStates ==
    ASSUME NEW t, NEW c, NEW met, SetsOf(c, t, met)
    PROVE  \A s \in states(c) : \E i \in 1 .. Len(met) : s = i - 1
<1> DEFINE n == Len(met)
<1>1. /\ met \in Seq(SUBSET states(t)) /\ n >= 1 /\ c.start = {0}
      /\ \A y : y \in c.final <=> \E i \in 1 .. n : y = i - 1 /\ met[i] \cap t.final # {}
      /\ \A e \in c.arcs : \E i, j \in 1 .. n, x \in Int :
            e = <<i - 1, x, j - 1>> /\ met[j] = SinksOn(t, met[i], x)
  BY DEF SetsOf
<1>2. n \in Nat
  BY <1>1, LenProperties
<1> HIDE DEF n
<1>3. \A s \in c.start : \E i \in 1 .. n : s = i - 1
  <2>1. 1 \in 1 .. n /\ 0 = 1 - 1
    BY <1>1, <1>2
  <2> QED
    BY <1>1, <2>1
<1>4. \A s \in c.final : \E i \in 1 .. n : s = i - 1
  BY <1>1
<1>5. ASSUME NEW e \in c.arcs PROVE \E i, j \in 1 .. n : e[1] = i - 1 /\ e[3] = j - 1
  <2>1. PICK i \in 1 .. n, j \in 1 .. n, x \in Int : e = <<i - 1, x, j - 1>>
    BY <1>1
  <2> QED
    BY <2>1
<1>6. \A s \in states(c) : \E i \in 1 .. n : s = i - 1
  BY <1>3, <1>4, <1>5 DEF states
<1> QED
  BY <1>6 DEF n

(* A machine in which every state is reached, something lies ahead of each,  *)
(* and nothing lies ahead of two.                                            *)
Disjoint(m) ==
    /\ Usual(m) /\ m.start # {}
    /\ \A s \in states(m) : \E w \in Seq(Int) : Leads(m, w, s)
    /\ \A s \in states(m) : Beyond(m, s) # {}
    /\ \A s, t \in states(m), v \in Seq(Int) : v \in Beyond(m, s) /\ v \in Beyond(m, t) => s = t

(* Made deterministic it is minimal.                                         *)
LEMMA SubsetIsMinimal ==
    ASSUME NEW m, Disjoint(m)
    PROVE  Minimal(subset(m)) /\ Accepted(subset(m)) = Accepted(m)
<1> DEFINE c == subset(m)
           t == Trimmed(m)
<1>0. Usual(m) /\ Finite(m) /\ m.start # {}
  BY UsualIsFinite DEF Disjoint
<1>1. PICK b \in Nat : Bounded(m, b)
  BY <1>0 DEF Usual
<1>2. Accepted(c) = Accepted(m) /\ \E d \in Nat : Bounded(c, d)
  BY <1>0, <1>1, SubsetLanguage
<1>3. Finite(c) /\ is_deterministic(c)
  BY <1>0, SubsetIsDeterministic
<1>4. Usual(c) /\ Determinate(c)
  BY <1>2, <1>3, DeterministicMeans DEF Usual, Finite
<1>5. CASE is_deterministic(m)
  <2>1. c = m
    BY <1>5 DEF subset
  <2>2. ASSUME NEW s \in states(m), NEW u \in states(m), Beyond(m, s) = Beyond(m, u) PROVE s = u
    <3>1. PICK v : v \in Beyond(m, s)
      BY DEF Disjoint
    <3>2. v \in Seq(Int) /\ v \in Beyond(m, u)
      BY <2>2, <3>1 DEF Beyond
    <3> QED
      BY <3>1, <3>2 DEF Disjoint
  <2>3. Minimal(m)
    BY <1>4, <2>1, <2>2 DEF Minimal, Disjoint
  <2> QED
    BY <2>1, <2>3
<1>6. CASE ~ is_deterministic(m)
  <2>1. PICK met : SetsOf(c, t, met)
    BY <1>0, <1>1, <1>6, SubsetSets
  <2>2. Bounded(t, b) /\ Accepted(t) = Accepted(m)
    BY <1>1, TrimmedAccepts
  <2>3. \A s \in states(t) : s \in states(m) /\ Beyond(t, s) = Beyond(m, s) /\ Beyond(m, s) # {}
    BY <1>1, BeyondTrimmed
  <2> HIDE DEF t, c
  <2> DEFINE n == Len(met)
  <2>4. /\ met \in Seq(SUBSET states(t)) /\ n >= 1 /\ met[1] = t.start /\ Once(met)
        /\ \A i \in 1 .. n : i = 1 \/ met[i] # {}
        /\ \A i \in 1 .. n : \E w \in Seq(Int) : Leads(c, w, i - 1)
    BY <2>1 DEF SetsOf
  <2>5. n \in Nat /\ \A i \in 1 .. n : met[i] \subseteq states(t)
    BY <2>4, LenProperties, ElementOfSeq
  <2>6. \A s \in states(c) : \E i \in 1 .. n : s = i - 1
    BY <2>1, SetsAreStates
  <2>7. \A i \in 1 .. n : \A v \in Seq(Int) : v \in Beyond(c, i - 1) <=> \E s \in met[i] : v \in Beyond(t, s)
    BY <1>2, <1>4, <2>1, <2>2, BeyondSet DEF n
  <2>8. \A i \in 1 .. n : met[i] # {}
    <3>1. t.start # {}
      <4>1. PICK s : s \in m.start
        BY <1>0
      <4>2. s \in states(m)
        BY <1>1, <4>1, StatesBounded
      <4>3. PICK v : v \in Beyond(m, s)
        BY <4>2 DEF Disjoint
      <4>4. v \in Accepted(t)
        BY <2>2, <4>1, <4>3, AcceptedIsBeyond
      <4> QED
        BY <4>4, AcceptedIsBeyond
    <3> QED
      BY <2>4, <3>1
  <2> HIDE DEF n
  <2>9. \A s \in states(c) : \E w \in Seq(Int) : Leads(c, w, s)
    BY <2>4, <2>6
  <2>10. \A s \in states(c) : Beyond(c, s) # {}
    <3> SUFFICES ASSUME NEW i \in 1 .. n PROVE Beyond(c, i - 1) # {}
      BY <2>6
    <3>1. PICK s : s \in met[i]
      BY <2>8
    <3>2. PICK v : v \in Beyond(t, s)
      BY <2>3, <2>5, <3>1
    <3>3. v \in Seq(Int)
      BY <3>2 DEF Beyond
    <3> QED
      BY <2>7, <3>1, <3>2, <3>3
  <2>11. ASSUME NEW i \in 1 .. n, NEW j \in 1 .. n, Beyond(c, i - 1) = Beyond(c, j - 1)
         PROVE  met[i] \subseteq met[j]
    <3> SUFFICES ASSUME NEW s \in met[i] PROVE s \in met[j]
      OBVIOUS
    <3>1. s \in states(t)
      BY <2>5
    <3>2. PICK v : v \in Beyond(t, s)
      BY <2>3, <3>1
    <3>3. v \in Seq(Int)
      BY <3>2 DEF Beyond
    <3>4. v \in Beyond(c, j - 1)
      BY <2>7, <2>11, <3>2, <3>3
    <3>5. PICK u \in met[j] : v \in Beyond(t, u)
      BY <2>7, <3>3, <3>4
    <3>6. u \in states(t)
      BY <2>5
    <3>7. u = s
      BY <2>3, <3>1, <3>2, <3>3, <3>5, <3>6 DEF Disjoint
    <3> QED
      BY <3>7
  <2>12. ASSUME NEW s \in states(c), NEW u \in states(c), Beyond(c, s) = Beyond(c, u) PROVE s = u
    <3>1. PICK i \in 1 .. n : s = i - 1
      BY <2>6
    <3>2. PICK j \in 1 .. n : u = j - 1
      BY <2>6
    <3>3. met[i] = met[j]
      BY <2>11, <2>12, <3>1, <3>2
    <3>4. i = j
      BY <2>4, <3>3 DEF Once, n
    <3> QED
      BY <3>1, <3>2, <3>4
  <2>13. Minimal(c)
    BY <1>4, <2>9, <2>10, <2>12 DEF Minimal
  <2> QED
    BY <1>2, <2>13 DEF c
<1> QED
  BY <1>5, <1>6

(* Made deterministic, a machine has only states that are reached, if it had.*)
LEMMA SubsetIsReached ==
    ASSUME NEW m, Usual(m), \A s \in states(m) : \E w \in Seq(Int) : Leads(m, w, s)
    PROVE  LET c == subset(m)
           IN  /\ Usual(c) /\ Determinate(c) /\ Accepted(c) = Accepted(m)
               /\ \A s \in states(c) : \E w \in Seq(Int) : Leads(c, w, s)
<1> DEFINE c == subset(m)
           t == Trimmed(m)
<1>0. Finite(m)
  BY UsualIsFinite
<1>1. PICK b \in Nat : Bounded(m, b)
  BY DEF Usual
<1>2. Accepted(c) = Accepted(m) /\ \E d \in Nat : Bounded(c, d)
  BY <1>0, <1>1, SubsetLanguage
<1>3. Finite(c) /\ is_deterministic(c)
  BY <1>0, SubsetIsDeterministic
<1>4. Usual(c) /\ Determinate(c)
  BY <1>2, <1>3, DeterministicMeans DEF Usual, Finite
<1>5. CASE is_deterministic(m)
  <2>1. c = m
    BY <1>5 DEF subset
  <2> QED
    BY <1>2, <1>4, <2>1
<1>6. CASE ~ is_deterministic(m)
  <2>1. PICK met : SetsOf(c, t, met)
    BY <1>0, <1>1, <1>6, SubsetSets
  <2> HIDE DEF t, c
  <2> DEFINE n == Len(met)
  <2>4. \A i \in 1 .. n : \E w \in Seq(Int) : Leads(c, w, i - 1)
    BY <2>1 DEF SetsOf
  <2>6. \A s \in states(c) : \E i \in 1 .. n : s = i - 1
    BY <2>1, SetsAreStates
  <2>9. \A s \in states(c) : \E w \in Seq(Int) : Leads(c, w, s)
    BY <2>4, <2>6
  <2> QED
    BY <1>2, <1>4, <2>9 DEF c
<1> QED
  BY <1>5, <1>6

(* One half of minimising by reversal.                                       *)
Half(n) == subset(reachable_fm(reverse(n)))

(* The words of a machine, read backwards.                                   *)
Backwards(n) == {Reverse(w) : w \in Accepted(n)}

(* It is deterministic, has only states that are reached, and reads words    *)
(* backwards.                                                                *)
LEMMA HalfIsReached ==
    ASSUME NEW n, Usual(n)
    PROVE  /\ Usual(Half(n)) /\ Determinate(Half(n)) /\ Accepted(Half(n)) = Backwards(n)
           /\ \A s \in states(Half(n)) : \E w \in Seq(Int) : Leads(Half(n), w, s)
           /\ Usual(reachable_fm(reverse(n)))
<1> DEFINE v == reverse(n)
           r == reachable_fm(v)
<1>1. PICK b \in Nat : Bounded(n, b)
  BY DEF Usual
<1>2. Bounded(v, b) /\ Accepted(v) = Backwards(n)
  BY <1>1, ReverseLanguage DEF Backwards
<1>3. Finite(v)
  BY UsualIsFinite, FiniteReverse
<1>4. Finite(r)
  BY <1>3, FiniteReachable
<1> HIDE DEF v
<1>5. Bounded(r, b) /\ \A s \in states(r) : \E w \in Seq(Int) : Leads(r, w, s)
  BY <1>2, ReachablePartLeads
<1>6. Accepted(r) = Backwards(n)
  BY <1>2, ReachableLanguage
<1> HIDE DEF r
<1>7. Usual(r)
  BY <1>4, <1>5 DEF Usual, Finite
<1> DEFINE c == subset(r)
<1>8. /\ Usual(c) /\ Determinate(c) /\ Accepted(c) = Accepted(r)
      /\ \A s \in states(c) : \E w \in Seq(Int) : Leads(c, w, s)
  BY <1>5, <1>7, SubsetIsReached
<1> HIDE DEF c
<1> QED
  BY <1>6, <1>7, <1>8 DEF Half, c, r, v

(* Of a deterministic machine whose states are all reached it is minimal:    *)
(* a state's words ahead, read backwards, lead to that state alone.          *)
LEMMA HalfIsMinimal ==
    ASSUME NEW n, Usual(n), Determinate(n), Accepted(n) # {},
           \A s \in states(n) : \E w \in Seq(Int) : Leads(n, w, s)
    PROVE  Minimal(Half(n))
<1> DEFINE v == reverse(n)
           r == reachable_fm(v)
<1>1. PICK b \in Nat : Bounded(n, b)
  BY DEF Usual
<1>2. Bounded(v, b) /\ reverse(v) = n /\ v.start = n.final
  BY <1>1, ReversedMachine, ReversedTwice
<1>3. Usual(r)
  BY HalfIsReached
<1> HIDE DEF v
<1>4. /\ Bounded(r, b) /\ r.start = v.start /\ states(r) \subseteq states(v)
      /\ \A s \in states(r) : \E w \in Seq(Int) : Leads(r, w, s)
  BY <1>2, ReachablePartLeads
<1>5. \A s \in states(r) : Beyond(r, s) = Beyond(v, s)
  BY <1>2, BeyondReached
<1> HIDE DEF r
<1>6. ASSUME NEW s \in states(r), NEW w \in Seq(Int)
      PROVE  w \in Beyond(r, s) <=> Leads(n, Reverse(w), s)
  <2>1. s \in 0 .. b
    BY <1>4, StatesBounded
  <2>2. w \in Beyond(v, s) <=> Leads(n, Reverse(w), s)
    BY <1>2, <2>1, BeyondReverse
  <2> QED
    BY <1>5, <2>2
<1>7. r.start # {}
  <2>1. PICK w : w \in Accepted(n)
    OBVIOUS
  <2> QED
    BY <1>2, <1>4, <2>1 DEF Accepted
<1>8. states(v) \subseteq states(n)
  <2>1. v.start = n.final /\ v.final = n.start /\ \A x, y, z : <<x, y, z>> \in v.arcs <=> <<z, y, x>> \in n.arcs
    BY <1>1, ReversedMachine DEF v
  <2>2. \A e \in v.arcs : e = <<e[1], e[2], e[3]>>
    BY <1>2, StatesBounded
  <2>3. ASSUME NEW e \in v.arcs PROVE e[1] \in states(n) /\ e[3] \in states(n)
    <3>1. <<e[3], e[2], e[1]>> \in n.arcs
      BY <2>1, <2>2
    <3>2. <<e[3], e[2], e[1]>>[1] = e[3] /\ <<e[3], e[2], e[1]>>[3] = e[1]
      OBVIOUS
    <3> QED
      BY <1>1, <3>1, <3>2, StatesBounded
  <2> QED
    BY <2>1, <2>3 DEF states
<1>9. ASSUME NEW s \in states(r) PROVE Beyond(r, s) # {}
  <2>1. s \in states(n)
    BY <1>4, <1>8
  <2>2. PICK w \in Seq(Int) : Leads(n, w, s)
    BY <2>1
  <2>3. Reverse(w) \in Seq(Int) /\ Reverse(Reverse(w)) = w
    BY ReversedWord
  <2>4. Reverse(w) \in Beyond(r, s)
    BY <1>6, <2>2, <2>3
  <2> QED
    BY <2>4
<1>10. ASSUME NEW s \in states(r), NEW u \in states(r), NEW w \in Seq(Int),
              w \in Beyond(r, s), w \in Beyond(r, u)
       PROVE  s = u
  <2>1. Leads(n, Reverse(w), s) /\ Leads(n, Reverse(w), u) /\ Reverse(w) \in Seq(Int)
    BY <1>6, <1>10, ReversedWord
  <2> QED
    BY <1>1, <2>1, LeadsToOne
<1>11. Disjoint(r)
  BY <1>3, <1>4, <1>7, <1>9, <1>10 DEF Disjoint
<1>12. Minimal(subset(r))
  BY <1>11, SubsetIsMinimal
<1> QED
  BY <1>12 DEF Half, r, v

(* fmminrev's way of minimising, reversing and making deterministic twice:   *)
(* a minimal machine of the same language.                                   *)
THEOREM ReversalMinimises ==
    ASSUME NEW m, Usual(m), Accepted(m) # {}
    PROVE  Minimal(ByReversal(m)) /\ Accepted(ByReversal(m)) = Accepted(m)
<1> DEFINE n == Half(m)
           c == Half(n)
<1>1. /\ Usual(n) /\ Determinate(n) /\ Accepted(n) = Backwards(m)
      /\ \A s \in states(n) : \E w \in Seq(Int) : Leads(n, w, s)
  BY HalfIsReached
<1>2. Accepted(n) # {}
  BY <1>1 DEF Backwards
<1> HIDE DEF n
<1>3. Accepted(c) = Backwards(n)
  BY <1>1, HalfIsReached
<1>4. Minimal(c)
  BY <1>1, <1>2, HalfIsMinimal
<1>5. Backwards(n) = Accepted(m)
  <2>1. \A w \in Accepted(m) : w \in Seq(Int) /\ Reverse(Reverse(w)) = w
    BY ReversedWord DEF Accepted
  <2>2. Backwards(n) = {Reverse(v) : v \in {Reverse(w) : w \in Accepted(m)}}
    BY <1>1 DEF Backwards
  <2> QED
    BY <2>1, <2>2
<1>6. ByReversal(m) = c
  BY DEF ByReversal, Half, n
<1> QED
  BY <1>3, <1>4, <1>5, <1>6

-----------------------------------------------------------------------------
(***************************************************************************)
(* Hopcroft's algorithm, as min_by_partition() and Hopminimize() have it:  *)
(* what one split makes of the lists.                                      *)
(***************************************************************************)

(* The items of a list, backwards.                                           *)
LEMMA ReverseItems ==
    ASSUME NEW S, NEW p \in Seq(S)
    PROVE  Reverse(p) \in Seq(S) /\ Len(Reverse(p)) = Len(p) /\ ToSet(Reverse(p)) = ToSet(p)
<1> DEFINE n == Len(p)
           v == Reverse(p)
<1>1. n \in Nat /\ DOMAIN p = 1 .. n /\ \A i \in 1 .. n : p[i] \in S
  BY LenProperties, ElementOfSeq
<1>2. v = [i \in 1 .. n |-> p[(n - i) + 1]]
  BY DEF Reverse
<1>3. \A i \in 1 .. n : (n - i) + 1 \in 1 .. n /\ (n - ((n - i) + 1)) + 1 = i
  BY <1>1
<1> HIDE DEF v, n
<1>4. v \in [1 .. n -> S] /\ \A i \in 1 .. n : v[i] = p[(n - i) + 1]
  BY <1>1, <1>2, <1>3
<1>5. v \in Seq(S) /\ Len(v) = n
  BY <1>1, <1>4, FunctionsAreLists
<1>6. DOMAIN v = 1 .. n
  BY <1>4
<1>7. \A e \in ToSet(v) : e \in ToSet(p)
  BY <1>1, <1>3, <1>4, <1>6 DEF ToSet
<1>8. ASSUME NEW i \in 1 .. n PROVE p[i] \in ToSet(v)
  <2>1. (n - i) + 1 \in 1 .. n /\ v[(n - i) + 1] = p[i]
    <3> DEFINE k == (n - i) + 1
    <3>1. k \in 1 .. n /\ (n - k) + 1 = i
      BY <1>3
    <3> HIDE DEF k
    <3>2. v[k] = p[(n - k) + 1]
      BY <1>4, <3>1
    <3> QED
      BY <3>1, <3>2 DEF k
  <2> QED
    BY <1>6, <2>1 DEF ToSet
<1>9. ToSet(v) = ToSet(p)
  BY <1>1, <1>7, <1>8 DEF ToSet
<1> QED
  BY <1>5, <1>9 DEF n, v

(* The numbers up to one, and those up to the one before.                    *)
LEMMA NumbersToNext ==
    ASSUME NEW j \in Nat, j >= 1
    PROVE  1 .. j = (1 .. j - 1) \cup {j}
<1>1. \A i : i \in 1 .. j <=> i \in 1 .. j - 1 \/ i = j
  OBVIOUS
<1> QED
  BY <1>1

(* The items of lists put in a row.                                          *)
LEMMA FlattenedItems ==
    ASSUME NEW S, NEW n \in Nat, NEW ss \in [1 .. n -> Seq(S)]
    PROVE  FlattenSeq(ss) \in Seq(S) /\ ToSet(FlattenSeq(ss)) = UNION {ToSet(ss[i]) : i \in 1 .. n}
<1>1. ss \in Seq(Seq(S)) /\ Len(ss) = n
  <2> DEFINE Q == Seq(S)
  <2>1. ss \in [1 .. n -> Q]
    OBVIOUS
  <2> HIDE DEF Q
  <2>2. ss \in Seq(Q) /\ Len(ss) = n
    BY <2>1, FunctionsAreLists
  <2> QED
    BY <2>2 DEF Q
<1>2. CASE n = 0
  <2>1. FlattenSeq(ss) = ss /\ ss = <<>>
    <3>1. FlattenSeq(ss) = ss
      BY <1>1, <1>2 DEF FlattenSeq
    <3>2. ss = <<>>
      BY <1>1, <1>2, EmptySeq
    <3> QED
      BY <3>1, <3>2
  <2>2. ToSet(<<>>) = {} /\ 1 .. n = {} /\ <<>> \in Seq(S)
    BY <1>2 DEF ToSet
  <2> QED
    BY <2>1, <2>2
<1>3. CASE n # 0
  <2> DEFINE Q == Seq(S)
             Item(i) == IF i \in 1 .. n THEN ss[i] ELSE <<>>
             g == [x \in Nat \X Q |-> x[2] \o Item(x[1] + 1)]
             R(h) == h = [i \in 1 .. n |-> IF i = 1 THEN ss[i] ELSE h[i - 1] \o ss[i]]
             flat == CHOOSE h : R(h)
  <2>1. FlattenSeq(ss) = flat[n]
    BY <1>1, <1>3 DEF FlattenSeq
  <2>2. g \in [Nat \X Q -> Q] /\ <<>> \in Q /\ \A i \in Nat, q \in Q : g[<<i, q>>] = q \o Item(i + 1)
    <3>1. \A i \in Nat : Item(i) \in Q
      OBVIOUS
    <3>2. \A p \in Q, q \in Q : p \o q \in Q
      OBVIOUS
    <3>3. <<>> \in Q
      OBVIOUS
    <3> HIDE DEF Q, Item
    <3>4. \A x \in Nat \X Q : x[2] \o Item(x[1] + 1) \in Q
      BY <3>1, <3>2
    <3> QED
      BY <3>3, <3>4
  <2> HIDE DEF g
  <2>3. PICK f \in [Nat -> Q] : IsIteration(f, <<>>, g)
    <3> HIDE DEF Q
    <3> QED
      BY <2>2, Iterations
  <2>4. f[0] = <<>> /\ \A i \in Nat : f[i + 1] = f[i] \o Item(i + 1)
    <3> HIDE DEF Item, Q
    <3> QED
      BY <2>2, <2>3 DEF IsIteration
  <2> DEFINE h0 == [i \in 1 .. n |-> f[i]]
  <2>5. R(h0)
    <3>1. ASSUME NEW i \in 1 .. n PROVE h0[i] = IF i = 1 THEN ss[i] ELSE h0[i - 1] \o ss[i]
      <4>1. f[i] = f[i - 1] \o ss[i]
        <5>1. PICK j \in Nat : i = j + 1 /\ j = i - 1
          <6>1. i - 1 \in Nat /\ i = (i - 1) + 1
            OBVIOUS
          <6> QED
            BY <6>1
        <5>2. f[j + 1] = f[j] \o Item(j + 1) /\ Item(i) = ss[i]
          BY <2>4
        <5> QED
          BY <5>1, <5>2
      <4>2. CASE i = 1
        <5>1. ss[i] \in Seq(S)
          OBVIOUS
        <5>2. <<>> \o ss[i] = ss[i]
          BY <5>1, ConcatEmptySeq
        <5>3. f[i] = <<>> \o ss[i]
          <6>1. i - 1 = 0
            BY <4>2
          <6>2. f[0] = <<>>
            BY <2>4
          <6> QED
            BY <4>1, <6>1, <6>2
        <5>4. h0[i] = f[i] /\ f[i] = ss[i]
          BY <5>2, <5>3
        <5> QED
          BY <4>2, <5>4
      <4>3. CASE i # 1
        <5>1. i - 1 \in 1 .. n
          BY <4>3
        <5>2. h0[i - 1] = f[i - 1]
          BY <5>1
        <5> QED
          BY <4>1, <4>3, <5>2
      <4> QED
        BY <4>2, <4>3
    <3> QED
      BY <3>1
  <2>6. R(flat)
    <3> HIDE DEF R, h0
    <3> QED
      BY <2>5
  <2> HIDE DEF flat
  <2>7. \A i \in 1 .. n : flat[i] = IF i = 1 THEN ss[i] ELSE flat[i - 1] \o ss[i]
    BY <2>6
  <2> DEFINE Is(i) == flat[i] \in Seq(S) /\ ToSet(flat[i]) = UNION {ToSet(ss[k]) : k \in 1 .. i}
             Bad == {i \in 1 .. n : ~ Is(i)}
  <2>8. Bad = {}
    <3> SUFFICES ASSUME Bad # {} PROVE FALSE
      OBVIOUS
    <3>1. PICK j \in Bad : \A x \in Bad : j <= x
      <4>1. Bad \in SUBSET Nat
        OBVIOUS
      <4> HIDE DEF Bad
      <4> QED
        BY <4>1, LeastOfNaturals
    <3>2. j \in 1 .. n /\ ~ Is(j)
      OBVIOUS
    <3>3. ss[j] \in Seq(S)
      BY <3>2
    <3>a. \A i \in 1 .. n : i < j => Is(i)
      <4>1. \A i \in 1 .. n : ~ Is(i) => i \in Bad
        OBVIOUS
      <4> HIDE DEF Bad, Is
      <4> QED
        BY <3>1, <3>2, <4>1
    <3>b. n \in Nat /\ j \in 1 .. n
      BY <3>2
    <3> HIDE DEF Bad
    <3>4. CASE j = 1
      <4>1. flat[j] = ss[j]
        BY <2>7, <3>2, <3>4
      <4>2. 1 .. j = {j}
        BY <3>4
      <4>3. ToSet(flat[j]) = UNION {ToSet(ss[k]) : k \in 1 .. j}
        BY <4>1, <4>2
      <4> QED
        BY <3>2, <3>3, <4>1, <4>3
    <3>5. CASE j # 1
      <4>1. j - 1 \in 1 .. n /\ j - 1 < j
        BY <3>5, <3>b
      <4>3. Is(j - 1)
        <5> HIDE DEF Is
        <5> QED
          BY <3>a, <4>1
      <4>4. flat[j] = flat[j - 1] \o ss[j]
        BY <2>7, <3>2, <3>5
      <4> DEFINE p == flat[j - 1]
                 P == ToSet(p)
                 F(k) == ToSet(ss[k])
      <4>5. p \in Seq(S) /\ P = UNION {F(k) : k \in 1 .. j - 1}
        BY <4>3
      <4>6. flat[j] \in Seq(S) /\ ToSet(flat[j]) = P \cup F(j)
        <5>1. p \o ss[j] \in Seq(S) /\ Joined(p \o ss[j], p, ss[j])
          BY <3>3, <4>5, ItemsOfBoth
        <5> QED
          BY <4>4, <5>1 DEF Joined
      <4>7. 1 .. j = (1 .. j - 1) \cup {j}
        <5>1. j \in Nat /\ j >= 1
          BY <3>b
        <5> QED
          BY <5>1, NumbersToNext, Zenon
      <4>8. ToSet(flat[j]) = UNION {F(k) : k \in 1 .. j}
        <5> HIDE DEF F, P, p
        <5> QED
          BY <4>5, <4>6, <4>7
      <4> QED
        BY <3>2, <4>6, <4>8
    <3> QED
      BY <3>4, <3>5
  <2>b. n \in 1 .. n
    BY <1>3
  <2>9. Is(n)
    <3>1. ~ Is(n) => n \in Bad
      BY <2>b
    <3> HIDE DEF Is
    <3> QED
      BY <2>8, <3>1
  <2> QED
    BY <2>1, <2>9
<1> QED
  BY <1>2, <1>3

(* The items of a list that are in a set.                                    *)
LEMMA OnlyItems ==
    ASSUME NEW S, NEW p \in Seq(S), NEW B
    PROVE  Only(p, B) \in Seq(S) /\ ToSet(Only(p, B)) = ToSet(p) \cap B
<1> DEFINE n == Len(p)
           ss == [k \in DOMAIN p |-> IF p[k] \in B THEN <<p[k]>> ELSE <<>>]
<1>1. n \in Nat /\ DOMAIN p = 1 .. n /\ \A i \in 1 .. n : p[i] \in S
  BY LenProperties, ElementOfSeq
<1>2. ASSUME NEW i \in 1 .. n PROVE ss[i] \in Seq(S) /\ ToSet(ss[i]) = {p[i]} \cap B
  <2>1. CASE p[i] \in B
    <3> DEFINE q == <<p[i]>>
    <3>1. q \in Seq(S) /\ DOMAIN q = {1} /\ q[1] = p[i] /\ ss[i] = q
      BY <1>1, <2>1
    <3> HIDE DEF q, ss
    <3>2. ToSet(q) = {p[i]}
      BY <3>1 DEF ToSet
    <3> QED
      BY <2>1, <3>1, <3>2
  <2>2. CASE p[i] \notin B
    <3>1. ss[i] = <<>> /\ <<>> \in Seq(S) /\ ToSet(<<>>) = {}
      BY <1>1, <2>2 DEF ToSet
    <3> QED
      BY <2>2, <3>1
  <2> QED
    BY <2>1, <2>2
<1>3. ss \in [1 .. n -> Seq(S)]
  <2>1. ss = [i \in 1 .. n |-> ss[i]]
    BY <1>1
  <2> HIDE DEF ss
  <2> QED
    BY <1>2, <2>1
<1>4. Only(p, B) = FlattenSeq(ss)
  BY DEF Only
<1> HIDE DEF ss, n
<1>5. FlattenSeq(ss) \in Seq(S) /\ ToSet(FlattenSeq(ss)) = UNION {ToSet(ss[i]) : i \in 1 .. n}
  BY <1>1, <1>3, FlattenedItems
<1>6. UNION {ToSet(ss[i]) : i \in 1 .. n} = ToSet(p) \cap B
  <2>1. ToSet(p) = {p[i] : i \in 1 .. n}
    BY <1>1 DEF ToSet
  <2> QED
    BY <1>2, <2>1
<1> QED
  BY <1>4, <1>5, <1>6

(* A set of numbers in order, as a list.                                     *)
LEMMA AscendingItems ==
    ASSUME NEW S, NEW T \in SUBSET S, T \in SUBSET Int, IsFiniteSet(T)
    PROVE  Ascending(T) \in Seq(S) /\ ToSet(Ascending(T)) = T /\ Once(Ascending(T))
<1> DEFINE q == Ascending(T)
<1>1. /\ q \in Seq(T) /\ Len(q) = Cardinality(T)
      /\ \A i, j \in 1 .. Len(q) : q[i] = q[j] => i = j
      /\ \A s \in T : \E i \in 1 .. Len(q) : q[i] = s
  BY AscendingNumbers
<1> HIDE DEF q
<1>2. DOMAIN q = 1 .. Len(q) /\ Len(q) \in Nat /\ \A i \in 1 .. Len(q) : q[i] \in T
  BY <1>1, LenProperties, ElementOfSeq
<1>3. ToSet(q) = T
  <2>1. ToSet(q) = {q[i] : i \in 1 .. Len(q)}
    BY <1>2 DEF ToSet
  <2>2. \A s \in T : s \in {q[i] : i \in 1 .. Len(q)}
    BY <1>1
  <2>3. \A s \in {q[i] : i \in 1 .. Len(q)} : s \in T
    BY <1>2
  <2> QED
    BY <2>1, <2>2, <2>3
<1>4. \A i \in 1 .. Len(q) : q[i] \in S
  BY <1>2
<1>a. q \in [1 .. Len(q) -> S]
  BY <1>1, <1>2, <1>4
<1>5. q \in Seq(S)
  BY <1>2, <1>a, FunctionsAreLists
<1>6. Once(q)
  BY <1>1 DEF Once
<1> QED
  BY <1>3, <1>5, <1>6 DEF q

(* The states from which a letter leads into a set, as the list the code     *)
(* collects, and as a set.                                                   *)
Into(c, S, x) ==
    FlattenSeq([k \in DOMAIN S |-> Ascending({t[1] : t \in {u \in c.arcs : u[2] = x /\ u[3] = S[k]}})])
Pre(c, B, x) == {s \in states(c) : \E u \in B : <<s, x, u>> \in c.arcs}

(* The list and the set have the same states.                                *)
LEMMA IntoIsPre ==
    ASSUME NEW c, NEW b \in Nat, Bounded(c, b), NEW S \in Seq(states(c)), NEW x
    PROVE  Into(c, S, x) \in Seq(states(c)) /\ ToSet(Into(c, S, x)) = Pre(c, ToSet(S), x)
<1> DEFINE Q == states(c)
           n == Len(S)
           T(k) == {t[1] : t \in {u \in c.arcs : u[2] = x /\ u[3] = S[k]}}
           ss == [k \in DOMAIN S |-> Ascending(T(k))]
<1>1. n \in Nat /\ DOMAIN S = 1 .. n /\ \A k \in 1 .. n : S[k] \in Q
  BY LenProperties, ElementOfSeq
<1>2. Q \subseteq Int /\ IsFiniteSet(Q) /\ \A t \in c.arcs : t = <<t[1], t[2], t[3]>> /\ t[1] \in Q
  <2>1. 0 .. b \subseteq Int
    OBVIOUS
  <2> QED
    BY <2>1, StatesBounded
<1>3. \A k : \A s : s \in T(k) <=> s \in Q /\ <<s, x, S[k]>> \in c.arcs
  BY <1>2
<1>4. ASSUME NEW k \in 1 .. n PROVE Ascending(T(k)) \in Seq(Q) /\ ToSet(Ascending(T(k))) = T(k)
  <2>1. T(k) \in SUBSET Q
    BY <1>3
  <2>2. T(k) \in SUBSET Int /\ IsFiniteSet(T(k))
    BY <1>2, <2>1, FS_Subset
  <2> HIDE DEF T, Q
  <2> QED
    BY <2>1, <2>2, AscendingItems
<1> HIDE DEF T
<1>5. ss \in [1 .. n -> Seq(Q)] /\ \A k \in 1 .. n : ss[k] = Ascending(T(k))
  BY <1>1, <1>4
<1>6. Into(c, S, x) = FlattenSeq(ss)
  BY DEF Into, T
<1> HIDE DEF ss, Q
<1>7. FlattenSeq(ss) \in Seq(Q) /\ ToSet(FlattenSeq(ss)) = UNION {ToSet(ss[k]) : k \in 1 .. n}
  <2>1. n \in Nat /\ ss \in [1 .. n -> Seq(Q)]
    BY <1>1, <1>5
  <2> HIDE DEF n
  <2> QED
    BY <2>1, FlattenedItems
<1>8. \A s : s \in ToSet(FlattenSeq(ss)) <=> \E k \in 1 .. n : s \in T(k)
  <2>1. \A k \in 1 .. n : ToSet(ss[k]) = T(k)
    BY <1>4, <1>5
  <2> QED
    BY <1>7, <2>1
<1>9. ToSet(S) = {S[k] : k \in 1 .. n}
  BY <1>1 DEF ToSet
<1>10. \A s : s \in Pre(c, ToSet(S), x) <=> s \in Q /\ \E k \in 1 .. n : <<s, x, S[k]>> \in c.arcs
  BY <1>9 DEF Pre, Q
<1>11. ToSet(FlattenSeq(ss)) = Pre(c, ToSet(S), x)
  BY <1>3, <1>8, <1>10
<1> QED
  BY <1>6, <1>7, <1>11 DEF Q

(* A list is empty if it has no items.                                       *)
LEMMA NoItems ==
    ASSUME NEW S, NEW p \in Seq(S)
    PROVE  p = <<>> <=> ToSet(p) = {}
<1>1. Len(p) \in Nat /\ DOMAIN p = 1 .. Len(p)
  BY LenProperties
<1>2. p = <<>> <=> Len(p) = 0
  BY EmptySeq
<1>3. Len(p) = 0 <=> 1 .. Len(p) = {}
  <2>1. \A n \in Nat : n # 0 => 1 \in 1 .. n
    OBVIOUS
  <2>2. 1 .. 0 = {}
    OBVIOUS
  <2> QED
    BY <1>1, <2>1, <2>2
<1>4. ToSet(p) = {} <=> DOMAIN p = {}
  BY DEF ToSet
<1>5. ToSet(p) = {} <=> 1 .. Len(p) = {}
  <2>1. DOMAIN p = 1 .. Len(p)
    BY <1>1
  <2> QED
    BY <1>4, <2>1
<1>6. ToSet(p) = {} <=> Len(p) = 0
  BY <1>3, <1>5
<1> QED
  BY <1>2, <1>6

(* What SplitWith() makes of the states it has collected.                    *)
Leaving(h, before, i) == Only(before, ToSet(h.lists[i]))
Staying(h, before, i) == Only(h.lists[i], ToSet(h.lists[i]) \ ToSet(before))
PartedBy(h, before) == {i \in DOMAIN h.lists : Leaving(h, before, i) # <<>> /\ Staying(h, before, i) # <<>>}
FirstOf(h, before, i) == Min({k \in DOMAIN before : before[k] \in ToSet(h.lists[i])})
OrderOf(h, before) ==
    LET firsts == Ascending({FirstOf(h, before, i) : i \in PartedBy(h, before)})
    IN  [k \in DOMAIN firsts |-> CHOOSE i \in PartedBy(h, before) : FirstOf(h, before, i) = firsts[k]]
KeptIn(h, before, i) ==
    IF Len(Staying(h, before, i)) < Len(Leaving(h, before, i))
    THEN Reverse(Leaving(h, before, i)) ELSE Staying(h, before, i)
MovedFrom(h, before, i) ==
    IF Len(Staying(h, before, i)) < Len(Leaving(h, before, i))
    THEN Staying(h, before, i) ELSE Reverse(Leaving(h, before, i))
SplitBy(h, before, parted, order) ==
    [lists    |-> [i \in DOMAIN h.lists |-> IF i \in parted THEN KeptIn(h, before, i) ELSE h.lists[i]]
                  \o [k \in DOMAIN order |-> MovedFrom(h, before, order[k])],
     waiting  |-> Enqueued(h, Len(order)),
     children |-> [i \in DOMAIN h.lists |->
                      IF i \in parted /\ i > 2 THEN Append(h.children[i], Len(h.lists) + Place(order, i))
                                               ELSE h.children[i]]
                  \o [k \in DOMAIN order |-> <<>>]]

(* It is SplitWith(), with its local definitions named.                      *)
LEMMA SplitByThem ==
    ASSUME NEW c, NEW h, NEW S, NEW x
    PROVE  LET before == Into(c, S, x)
           IN  SplitWith(c, h, S, x) = SplitBy(h, before, PartedBy(h, before), OrderOf(h, before))
BY DEF SplitWith, SplitBy, PartedBy, OrderOf, KeptIn, MovedFrom, Leaving, Staying, FirstOf, Into

(* The lists a partition keeps, and the states of each.                      *)
Class(h, i) == ToSet(h.lists[i])

(* What the lists are as data.                                               *)
Listed(Q, h) ==
    /\ h.lists \in Seq(Seq(Q)) /\ Len(h.lists) >= 2
    /\ h.children \in Seq(Seq(Nat)) /\ Len(h.children) = Len(h.lists)
    /\ h.waiting \in Seq(Nat)

(* No state is on two lists.                                                 *)
Apart(h) == \A i, k \in 1 .. Len(h.lists) : \A s : s \in Class(h, i) /\ s \in Class(h, k) => i = k

(* A list that is parted: what stays, and what was met before, one kept and  *)
(* the other moved.                                                          *)
Halves(K, M, L, P) ==
    \/ K = L \cap P /\ M = L \ P
    \/ K = L \ P /\ M = L \cap P

(* A list is parted when some of it was met and some not, and then the two   *)
(* halves are what SplitWith() keeps and moves.                              *)
LEMMA PartsOfList ==
    ASSUME NEW Q, NEW h, Listed(Q, h), NEW before \in Seq(Q), NEW i \in 1 .. Len(h.lists)
    PROVE  /\ i \in PartedBy(h, before) <=> /\ Class(h, i) \cap ToSet(before) # {}
                                            /\ Class(h, i) \ ToSet(before) # {}
           /\ KeptIn(h, before, i) \in Seq(Q) /\ MovedFrom(h, before, i) \in Seq(Q)
           /\ Halves(ToSet(KeptIn(h, before, i)), ToSet(MovedFrom(h, before, i)), Class(h, i), ToSet(before))
<1> DEFINE l == h.lists[i]
           L == Leaving(h, before, i)
           T == Staying(h, before, i)
           P == ToSet(before)
<1>1. l \in Seq(Q) /\ DOMAIN h.lists = 1 .. Len(h.lists)
  <2> DEFINE R == Seq(Q)
  <2>1. h.lists \in Seq(R)
    BY DEF Listed
  <2> HIDE DEF R
  <2>2. h.lists[i] \in R /\ DOMAIN h.lists = 1 .. Len(h.lists)
    BY <2>1, ElementOfSeq, LenProperties
  <2> QED
    BY <2>2 DEF R
<1>2. L \in Seq(Q) /\ ToSet(L) = P \cap Class(h, i)
  BY OnlyItems DEF Leaving, Class
<1>3. T \in Seq(Q) /\ ToSet(T) = ToSet(l) \cap (ToSet(l) \ P)
  BY <1>1, OnlyItems DEF Staying
<1>4. Reverse(L) \in Seq(Q) /\ ToSet(Reverse(L)) = ToSet(L)
  BY <1>2, ReverseItems
<1>5. (L = <<>> <=> ToSet(L) = {}) /\ (T = <<>> <=> ToSet(T) = {})
  BY <1>2, <1>3, NoItems
<1>6. ToSet(T) = Class(h, i) \ P /\ ToSet(L) = Class(h, i) \cap P
  BY <1>2, <1>3 DEF Class
<1>7. i \in PartedBy(h, before) <=> L # <<>> /\ T # <<>>
  BY <1>1 DEF PartedBy
<1>8. \/ KeptIn(h, before, i) = Reverse(L) /\ MovedFrom(h, before, i) = T
      \/ KeptIn(h, before, i) = T /\ MovedFrom(h, before, i) = Reverse(L)
  BY DEF KeptIn, MovedFrom
<1> HIDE DEF L, T, P, l
<1>9. Halves(ToSet(KeptIn(h, before, i)), ToSet(MovedFrom(h, before, i)), Class(h, i), P)
  BY <1>4, <1>6, <1>8 DEF Halves
<1> QED
  BY <1>3, <1>4, <1>5, <1>6, <1>7, <1>8, <1>9 DEF P

(* The parted lists in the order in which they are met: each once.           *)
InOrder(order, parted) == order \in Seq(parted) /\ Once(order) /\ ToSet(order) = parted

(* The order of first meeting lists them all.                                *)
LEMMA PartedInOrder ==
    ASSUME NEW Q, NEW h, Listed(Q, h), Apart(h), NEW before \in Seq(Q)
    PROVE  /\ PartedBy(h, before) \subseteq 1 .. Len(h.lists)
           /\ InOrder(OrderOf(h, before), PartedBy(h, before))
<1> DEFINE parted == PartedBy(h, before)
           m == Len(before)
           Meets(i) == {k \in DOMAIN before : before[k] \in Class(h, i)}
           First(i) == FirstOf(h, before, i)
           F == {First(i) : i \in parted}
           firsts == Ascending(F)
           order == OrderOf(h, before)
<1>1. parted \subseteq 1 .. Len(h.lists)
  <2> DEFINE R == Seq(Q)
  <2>1. h.lists \in Seq(R)
    BY DEF Listed
  <2> HIDE DEF R
  <2>2. DOMAIN h.lists = 1 .. Len(h.lists)
    BY <2>1, LenProperties
  <2> QED
    BY <2>2 DEF PartedBy
<1>2. m \in Nat /\ DOMAIN before = 1 .. m
  BY LenProperties
<1>3. ASSUME NEW i \in parted PROVE First(i) \in 1 .. m /\ before[First(i)] \in Class(h, i)
  <2>1. Class(h, i) \cap ToSet(before) # {}
    BY <1>1, PartsOfList
  <2>2. Meets(i) # {}
    BY <2>1 DEF ToSet
  <2>3. Meets(i) \in SUBSET (1 .. m) /\ Meets(i) \in SUBSET Nat
    BY <1>2
  <2>4. First(i) = Min(Meets(i))
    BY DEF FirstOf, Class
  <2> HIDE DEF Meets
  <2>5. \E x \in Meets(i) : \A y \in Meets(i) : x <= y
    BY <2>2, <2>3, LeastOfNaturals
  <2>6. Min(Meets(i)) \in Meets(i)
    BY <2>5 DEF Min
  <2> QED
    BY <2>3, <2>4, <2>6 DEF Meets
<1> HIDE DEF First
<1>4. \A i, k \in parted : First(i) = First(k) => i = k
  <2> SUFFICES ASSUME NEW i \in parted, NEW k \in parted, First(i) = First(k) PROVE i = k
    OBVIOUS
  <2>1. before[First(i)] \in Class(h, i) /\ before[First(i)] \in Class(h, k)
    BY <1>3
  <2> QED
    BY <1>1, <2>1 DEF Apart
<1>5. F \in SUBSET (1 .. m) /\ F \in SUBSET Int /\ IsFiniteSet(F)
  <2>1. F \in SUBSET (1 .. m)
    BY <1>3
  <2>2. IsFiniteSet(1 .. m) /\ 1 .. m \subseteq Int
    BY <1>2, FS_Interval
  <2> HIDE DEF F
  <2> QED
    BY <2>1, <2>2, FS_Subset
<1> HIDE DEF F
<1>6. firsts \in Seq(F) /\ ToSet(firsts) = F /\ Once(firsts)
  BY <1>5, AscendingItems
<1> HIDE DEF firsts
<1>7. Len(firsts) \in Nat /\ DOMAIN firsts = 1 .. Len(firsts) /\ \A k \in 1 .. Len(firsts) : firsts[k] \in F
  BY <1>6, LenProperties, ElementOfSeq
<1>8. order = [k \in DOMAIN firsts |-> CHOOSE i \in parted : First(i) = firsts[k]]
  BY DEF OrderOf, firsts, F, First
<1> HIDE DEF order, parted
<1>9. ASSUME NEW k \in 1 .. Len(firsts) PROVE order[k] \in parted /\ First(order[k]) = firsts[k]
  <2>1. \E i \in parted : First(i) = firsts[k]
    BY <1>7 DEF F
  <2>2. order[k] = CHOOSE i \in parted : First(i) = firsts[k]
    BY <1>7, <1>8
  <2> QED
    BY <2>1, <2>2
<1>10. order \in [1 .. Len(firsts) -> parted]
  BY <1>7, <1>8, <1>9
<1>11. order \in Seq(parted) /\ Len(order) = Len(firsts)
  BY <1>7, <1>10, FunctionsAreLists
<1>12. Once(order)
  <2> SUFFICES ASSUME NEW j \in 1 .. Len(firsts), NEW k \in 1 .. Len(firsts), order[j] = order[k] PROVE j = k
    BY <1>11 DEF Once
  <2>1. firsts[j] = firsts[k]
    BY <1>9
  <2> QED
    BY <1>6, <2>1 DEF Once
<1>13. ToSet(order) = parted
  <2>1. DOMAIN order = 1 .. Len(firsts)
    BY <1>10
  <2>2. \A i \in ToSet(order) : i \in parted
    BY <1>9, <2>1 DEF ToSet
  <2>3. ASSUME NEW i \in parted PROVE i \in ToSet(order)
    <3>1. First(i) \in ToSet(firsts)
      BY <1>6 DEF F
    <3>2. PICK k \in 1 .. Len(firsts) : firsts[k] = First(i)
      BY <1>7, <3>1 DEF ToSet
    <3>3. order[k] = i
      BY <1>4, <1>9, <3>2
    <3> QED
      BY <2>1, <3>3 DEF ToSet
  <2> QED
    BY <2>2, <2>3
<1> QED
  BY <1>1, <1>11, <1>12, <1>13 DEF order, parted, InOrder

(* A split of the lists h into the lists g: a list not parted by P, the      *)
(* lists split off from one, and the lists there are now and were not.       *)
Whole(L, P) == L \subseteq P \/ L \cap P = {}
Offspring(h, i) == ToSet(h.children[i])
NewLists(h, g) == {k \in 1 .. Len(g.lists) : k > Len(h.lists)}

(* par tells from which list each comes, and those there before come from    *)
(* themselves.                                                               *)
Parents(h, g, par) ==
    /\ Len(h.lists) <= Len(g.lists)
    /\ par \in [1 .. Len(g.lists) -> 1 .. Len(h.lists)]
    /\ \A i \in 1 .. Len(h.lists) : par[i] = i

(* The lists that come from a list have its states and no others.            *)
Refines(h, g, par) ==
    /\ \A k \in 1 .. Len(g.lists) : Class(g, k) \subseteq Class(h, par[k])
    /\ \A i \in 1 .. Len(h.lists) : \A s \in Class(h, i) :
          \E k \in 1 .. Len(g.lists) : par[k] = i /\ s \in Class(g, k)

(* No list is parted by P any more, what comes from one list is told apart   *)
(* by it, and no list is emptied.                                            *)
Divided(h, g, par, P) ==
    /\ \A k \in 1 .. Len(g.lists) : Whole(Class(g, k), P)
    /\ \A j, k \in 1 .. Len(g.lists) : j # k /\ par[j] = par[k] =>
          \A s \in Class(g, j), t \in Class(g, k) : s \in P <=> t \notin P
    /\ \A k \in NewLists(h, g) : Class(g, k) # {}
    /\ \A i \in 1 .. Len(h.lists) : Class(h, i) # {} => Class(g, i) # {}

(* The new lists are children of those they come from, unless these are      *)
(* the first two, and wait behind those that waited.                         *)
Grown(h, g, par) ==
    /\ \A i \in 1 .. Len(h.lists) :
          Offspring(g, i) = Offspring(h, i) \cup {k \in NewLists(h, g) : i > 2 /\ par[k] = i}
    /\ \A k \in NewLists(h, g) : Offspring(g, k) = {}
    /\ g.waiting = h.waiting \o [k \in 1 .. Len(g.lists) - Len(h.lists) |-> Len(h.lists) + k]
Split(Q, h, g, P, par) ==
    Listed(Q, g) /\ Parents(h, g, par) /\ Refines(h, g, par) /\ Divided(h, g, par, P) /\ Grown(h, g, par)

(* The lists after a split: those kept, and behind them those moved.         *)
NewClasses(h, g, before, parted, order) ==
    /\ Len(g.lists) = Len(h.lists) + Len(order)
    /\ \A i \in 1 .. Len(h.lists) :
          g.lists[i] = IF i \in parted THEN KeptIn(h, before, i) ELSE h.lists[i]
    /\ \A k \in 1 .. Len(order) : g.lists[Len(h.lists) + k] = MovedFrom(h, before, order[k])

(* And who is whose child, and what waits.                                   *)
NewFamily(h, g, parted, order) ==
    /\ Len(g.children) = Len(h.lists) + Len(order)
    /\ \A i \in 1 .. Len(h.lists) :
          g.children[i] = IF i \in parted /\ i > 2
                          THEN Append(h.children[i], Len(h.lists) + Place(order, i)) ELSE h.children[i]
    /\ \A k \in 1 .. Len(order) : g.children[Len(h.lists) + k] = <<>>
    /\ g.waiting = h.waiting \o [k \in 1 .. Len(order) |-> Len(h.lists) + k]

(* What the types of the lists say of their parts.                           *)
LEMMA ListedMeans ==
    ASSUME NEW Q, NEW h, Listed(Q, h)
    PROVE  /\ Len(h.lists) \in Nat /\ Len(h.lists) >= 2 /\ DOMAIN h.lists = 1 .. Len(h.lists)
           /\ \A i \in 1 .. Len(h.lists) : /\ h.lists[i] \in Seq(Q) /\ h.children[i] \in Seq(Nat)
                                           /\ Class(h, i) \subseteq Q /\ Offspring(h, i) \subseteq Nat
           /\ Len(h.waiting) \in Nat
<1> DEFINE R == Seq(Q)
           N == Seq(Nat)
<1>1. h.lists \in Seq(R) /\ h.children \in Seq(N) /\ Len(h.children) = Len(h.lists) /\ h.waiting \in N
      /\ Len(h.lists) >= 2
  BY DEF Listed
<1>2. Len(h.waiting) \in Nat
  BY <1>1, LenProperties
<1> HIDE DEF R, N
<1>3. Len(h.lists) \in Nat /\ DOMAIN h.lists = 1 .. Len(h.lists)
  BY <1>1, LenProperties
<1>4. \A i \in 1 .. Len(h.lists) : h.lists[i] \in R /\ h.children[i] \in N
  BY <1>1, ElementOfSeq
<1>5. ASSUME NEW p \in R PROVE ToSet(p) \subseteq Q
  <2>1. DOMAIN p = 1 .. Len(p) /\ \A i \in 1 .. Len(p) : p[i] \in Q
    BY <1>5, LenProperties, ElementOfSeq DEF R
  <2> QED
    BY <2>1 DEF ToSet
<1>6. ASSUME NEW p \in N PROVE ToSet(p) \subseteq Nat
  <2>1. DOMAIN p = 1 .. Len(p) /\ \A i \in 1 .. Len(p) : p[i] \in Nat
    BY <1>6, LenProperties, ElementOfSeq DEF N
  <2> QED
    BY <2>1 DEF ToSet
<1> QED
  BY <1>1, <1>2, <1>3, <1>4, <1>5, <1>6 DEF Class, Offspring, R, N

(* SplitWith() makes such lists.                                             *)
LEMMA SplitLists ==
    ASSUME NEW Q, NEW h, Listed(Q, h), NEW before \in Seq(Q),
           NEW parted, parted = PartedBy(h, before), NEW order, InOrder(order, parted),
           parted \subseteq 1 .. Len(h.lists)
    PROVE  LET g == SplitBy(h, before, parted, order)
           IN  Listed(Q, g) /\ NewClasses(h, g, before, parted, order) /\ NewFamily(h, g, parted, order)
<1> DEFINE R == Seq(Q)
           N == Seq(Nat)
           n == Len(h.lists)
           m == Len(order)
           g == SplitBy(h, before, parted, order)
           A == [i \in 1 .. n |-> IF i \in parted THEN KeptIn(h, before, i) ELSE h.lists[i]]
           B == [k \in 1 .. m |-> MovedFrom(h, before, order[k])]
           C == [i \in 1 .. n |-> IF i \in parted /\ i > 2 THEN Append(h.children[i], n + Place(order, i))
                                  ELSE h.children[i]]
           D == [k \in 1 .. m |-> <<>>]
           W == [k \in 1 .. m |-> n + k]
<1>1. /\ n \in Nat /\ n >= 2 /\ DOMAIN h.lists = 1 .. n
      /\ \A i \in 1 .. n : h.lists[i] \in R /\ h.children[i] \in N
  BY ListedMeans
<1>2. /\ m \in Nat /\ DOMAIN order = 1 .. m /\ \A k \in 1 .. m : order[k] \in parted
      /\ order \in Seq(parted) /\ ToSet(order) = parted
  <2>1. order \in Seq(parted) /\ ToSet(order) = parted
    BY DEF InOrder
  <2> QED
    BY <2>1, LenProperties, ElementOfSeq
<1>3. \A i \in parted : Place(order, i) \in 1 .. m
  BY <1>2, PlacesOfItems
<1>4. g = [lists |-> A \o B, waiting |-> h.waiting \o W, children |-> C \o D]
  BY <1>1, <1>2 DEF SplitBy, Enqueued
<1>5. \A i \in 1 .. n : KeptIn(h, before, i) \in R /\ MovedFrom(h, before, i) \in R
  BY PartsOfList
<1>6. \A i \in parted : Append(h.children[i], n + Place(order, i)) \in N
  <2> TAKE i \in parted
  <2>1. h.children[i] \in N
    BY <1>1
  <2>2. n + Place(order, i) \in Nat
    BY <1>1, <1>3
  <2> QED
    BY <2>1, <2>2
<1>7. A \in [1 .. n -> R]
  <2> HIDE DEF R
  <2> QED
    BY <1>1, <1>5
<1>8. B \in [1 .. m -> R]
  <2> HIDE DEF R
  <2> QED
    BY <1>2, <1>5
<1>9. C \in [1 .. n -> N]
  <2> HIDE DEF N
  <2> QED
    BY <1>1, <1>6
<1>10. D \in [1 .. m -> N]
  OBVIOUS
<1>11. W \in [1 .. m -> Nat]
  BY <1>1, <1>2
<1>12. \A i \in 1 .. n : A[i] = IF i \in parted THEN KeptIn(h, before, i) ELSE h.lists[i]
  OBVIOUS
<1>13. \A k \in 1 .. m : B[k] = MovedFrom(h, before, order[k]) /\ D[k] = <<>>
  OBVIOUS
<1>14. \A i \in 1 .. n : C[i] = IF i \in parted /\ i > 2
                                THEN Append(h.children[i], n + Place(order, i)) ELSE h.children[i]
  OBVIOUS
<1>15. h.waiting \in N
  BY DEF Listed
<1> HIDE DEF A, B, C, D, R, g
<1>16. A \in Seq(R) /\ Len(A) = n /\ B \in Seq(R) /\ Len(B) = m
  BY <1>1, <1>2, <1>7, <1>8, FunctionsAreLists
<1>17. C \in Seq(N) /\ Len(C) = n /\ D \in Seq(N) /\ Len(D) = m
  <2> HIDE DEF N
  <2> QED
    BY <1>1, <1>2, <1>9, <1>10, FunctionsAreLists
<1>18. W \in N
  BY <1>2, <1>11, FunctionsAreLists
<1>19. h.waiting \o W \in N
  BY <1>15, <1>18
<1> HIDE DEF N
<1>20. A \o B \in Seq(R) /\ Joined(A \o B, A, B)
  BY <1>16, ItemsOfBoth
<1>21. C \o D \in Seq(N) /\ Joined(C \o D, C, D)
  BY <1>17, ItemsOfBoth
<1>22. g.lists = A \o B /\ g.waiting = h.waiting \o W /\ g.children = C \o D
  BY <1>4
<1>23. /\ Len(g.lists) = n + m
       /\ \A i \in 1 .. n : g.lists[i] = A[i]
       /\ \A k \in 1 .. m : g.lists[n + k] = B[k]
  BY <1>16, <1>20, <1>22 DEF Joined
<1>24. /\ Len(g.children) = n + m
       /\ \A i \in 1 .. n : g.children[i] = C[i]
       /\ \A k \in 1 .. m : g.children[n + k] = D[k]
  BY <1>17, <1>21, <1>22 DEF Joined
<1>25. Listed(Q, g)
  <2>1. n + m >= 2
    BY <1>1, <1>2
  <2> QED
    BY <1>19, <1>20, <1>21, <1>22, <1>23, <1>24, <2>1 DEF Listed, R, N
<1>26. NewClasses(h, g, before, parted, order)
  BY <1>12, <1>13, <1>23 DEF NewClasses
<1>27. NewFamily(h, g, parted, order)
  BY <1>13, <1>14, <1>22, <1>24 DEF NewFamily
<1> QED
  BY <1>25, <1>26, <1>27 DEF g

(* The items of a list with one more.                                        *)
LEMMA AppendedItems ==
    ASSUME NEW S, NEW q \in Seq(S), NEW e \in S
    PROVE  ToSet(Append(q, e)) = ToSet(q) \cup {e}
<1> DEFINE p == Append(q, e)
           n == Len(q)
<1>1. n \in Nat /\ DOMAIN q = 1 .. n
  BY LenProperties
<1>2. /\ p \in Seq(S) /\ Len(p) = n + 1 /\ \A i \in 1 .. n : p[i] = q[i]
      /\ p[n + 1] = e
  BY AppendProperties
<1> HIDE DEF p, n
<1>3. DOMAIN p = 1 .. n + 1
  BY <1>2, LenProperties
<1>4. \A i : i \in 1 .. n + 1 <=> i \in 1 .. n \/ i = n + 1
  BY <1>1
<1>5. \A s : s \in ToSet(p) <=> s \in ToSet(q) \/ s = e
  BY <1>1, <1>2, <1>3, <1>4 DEF ToSet
<1> QED
  BY <1>5 DEF p

(* A split parts lists of a set's predecessors from those of the rest.       *)
LEMMA ClassesAreSplit ==
    ASSUME NEW Q, NEW h, Listed(Q, h), Apart(h), NEW before \in Seq(Q),
           NEW parted, parted = PartedBy(h, before), NEW order, InOrder(order, parted),
           parted \subseteq 1 .. Len(h.lists),
           NEW g, Listed(Q, g), NewClasses(h, g, before, parted, order), NewFamily(h, g, parted, order)
    PROVE  \E par : Split(Q, h, g, ToSet(before), par)
<1> DEFINE n == Len(h.lists)
           m == Len(order)
           n2 == Len(g.lists)
           P == ToSet(before)
           par == [k \in 1 .. n2 |-> IF k <= n THEN k ELSE order[k - n]]
           K(i) == Class(g, i)
           M(k) == Class(g, n + k)
<1>1. /\ n \in Nat /\ n >= 2 /\ DOMAIN h.lists = 1 .. n
      /\ \A i \in 1 .. n : h.lists[i] \in Seq(Q) /\ h.children[i] \in Seq(Nat)
  BY ListedMeans
<1>2. order \in Seq(parted) /\ Once(order) /\ ToSet(order) = parted
  BY DEF InOrder
<1>3. m \in Nat /\ DOMAIN order = 1 .. m /\ \A k \in 1 .. m : order[k] \in parted
  BY <1>2, LenProperties, ElementOfSeq
<1>4. n2 = n + m /\ n2 \in Nat
  BY <1>1, <1>3 DEF NewClasses
<1>5. \A i \in parted : Place(order, i) \in 1 .. m /\ order[Place(order, i)] = i
  BY <1>2, PlacesOfItems
<1>6. \A k : k \in NewLists(h, g) <=> k \in 1 .. n2 /\ k > n
  BY DEF NewLists
<1>7. \A k \in NewLists(h, g) : k - n \in 1 .. m /\ n + (k - n) = k /\ ~ (k <= n)
  <2> HIDE DEF n, m, n2
  <2>1. ASSUME NEW k \in NewLists(h, g)
        PROVE  k - n \in 1 .. m /\ n + (k - n) = k /\ ~ (k <= n)
    <3>1. k \in 1 .. n2 /\ k > n
      BY <1>6, <2>1
    <3> QED
      BY <1>1, <1>3, <1>4, <3>1
  <2> QED
    BY <2>1
<1>8. \A i \in 1 .. n : i \in 1 .. n2 /\ i \notin NewLists(h, g)
  BY <1>1, <1>3, <1>4, <1>6
<1>9. \A k \in 1 .. n2 : k \in 1 .. n \/ k \in NewLists(h, g)
  BY <1>1, <1>3, <1>4, <1>6
<1>10. \A i \in 1 .. n : par[i] = i
  BY <1>1, <1>8
<1>11. \A k \in NewLists(h, g) : par[k] = order[k - n] /\ par[k] \in parted
  BY <1>3, <1>6, <1>7
<1>12. par \in [1 .. n2 -> 1 .. n]
  <2>1. \A k \in 1 .. n2 : par[k] \in 1 .. n
    BY <1>9, <1>10, <1>11
  <2>2. par = [k \in 1 .. n2 |-> par[k]]
    OBVIOUS
  <2> HIDE DEF par
  <2> QED
    BY <2>1, <2>2
<1> HIDE DEF par
<1>13. ASSUME NEW i \in 1 .. n, i \notin parted
       PROVE  K(i) = Class(h, i) /\ Whole(K(i), P)
  <2>1. K(i) = Class(h, i)
    BY <1>13 DEF NewClasses, Class
  <2>2. Class(h, i) \cap P = {} \/ Class(h, i) \ P = {}
    BY <1>13, PartsOfList
  <2> QED
    BY <2>1, <2>2 DEF Whole
<1>14. ASSUME NEW k \in NewLists(h, g)
       PROVE  /\ par[k] \in 1 .. n
              /\ Halves(K(par[k]), K(k), Class(h, par[k]), P)
              /\ Class(h, par[k]) \cap P # {} /\ Class(h, par[k]) \ P # {}
  <2> DEFINE i == par[k]
  <2>1. i \in parted /\ i \in 1 .. n /\ i = order[k - n] /\ k - n \in 1 .. m /\ n + (k - n) = k
    BY <1>7, <1>11
  <2>2. g.lists[i] = KeptIn(h, before, i)
    BY <2>1 DEF NewClasses
  <2>3. g.lists[k] = MovedFrom(h, before, i)
    <3> DEFINE j == k - n
    <3>1. j \in 1 .. m /\ n + j = k /\ i = order[j]
      BY <2>1
    <3> HIDE DEF j, i
    <3>2. g.lists[n + j] = MovedFrom(h, before, order[j])
      BY <3>1 DEF NewClasses
    <3> QED
      BY <3>1, <3>2
  <2> HIDE DEF i
  <2>4. /\ Class(h, i) \cap P # {} /\ Class(h, i) \ P # {}
        /\ Halves(ToSet(KeptIn(h, before, i)), ToSet(MovedFrom(h, before, i)), Class(h, i), P)
    BY <2>1, PartsOfList
  <2>5. Halves(K(i), K(k), Class(h, i), P)
    BY <2>2, <2>3, <2>4 DEF Class
  <2> QED
    BY <2>1, <2>4, <2>5 DEF i
<1>15. ASSUME NEW i \in parted PROVE \E k \in NewLists(h, g) : par[k] = i
  <2> DEFINE k == n + Place(order, i)
  <2>1. k \in 1 .. n2 /\ k > n /\ k - n = Place(order, i)
    BY <1>1, <1>3, <1>4, <1>5
  <2>2. k \in NewLists(h, g)
    BY <1>6, <2>1
  <2>3. par[k] = i
    BY <1>5, <1>11, <2>1, <2>2
  <2> QED
    BY <2>2, <2>3
<1>16. ASSUME NEW j \in NewLists(h, g), NEW k \in NewLists(h, g), par[j] = par[k] PROVE j = k
  <2>1. order[j - n] = order[k - n] /\ j - n \in 1 .. m /\ k - n \in 1 .. m
    BY <1>7, <1>11, <1>16
  <2>2. j - n = k - n
    BY <1>2, <2>1 DEF Once
  <2>3. n + (j - n) = j /\ n + (k - n) = k
    BY <1>7
  <2> QED
    BY <2>2, <2>3
<1> HIDE DEF K, M
<1>17. ASSUME NEW i \in 1 .. n
       PROVE  K(i) \subseteq Class(h, i) /\ Whole(K(i), P) /\ (Class(h, i) # {} => K(i) # {})
  <2>1. CASE i \notin parted
    BY <1>13, <2>1
  <2>2. CASE i \in parted
    <3>1. PICK k \in NewLists(h, g) : par[k] = i
      BY <1>15, <2>2
    <3>2. Halves(K(i), K(k), Class(h, i), P) /\ Class(h, i) \cap P # {} /\ Class(h, i) \ P # {}
      BY <1>14, <3>1
    <3> QED
      BY <3>2 DEF Halves, Whole
  <2> QED
    BY <2>1, <2>2
<1>18. ASSUME NEW k \in NewLists(h, g)
       PROVE  K(k) \subseteq Class(h, par[k]) /\ Whole(K(k), P) /\ K(k) # {}
  BY <1>14 DEF Halves, Whole
<1>19. Parents(h, g, par)
  BY <1>1, <1>3, <1>4, <1>10, <1>12 DEF Parents
<1>20. Refines(h, g, par)
  <2>1. \A k \in 1 .. n2 : K(k) \subseteq Class(h, par[k])
    BY <1>9, <1>10, <1>17, <1>18
  <2>2. ASSUME NEW i \in 1 .. n, NEW s \in Class(h, i) PROVE \E k \in 1 .. n2 : par[k] = i /\ s \in K(k)
    <3>1. CASE i \notin parted
      BY <1>8, <1>10, <1>13, <3>1
    <3>2. CASE i \in parted
      <4>1. PICK k \in NewLists(h, g) : par[k] = i
        BY <1>15, <3>2
      <4>2. Halves(K(i), K(k), Class(h, i), P)
        BY <1>14, <4>1
      <4>3. s \in K(i) \/ s \in K(k)
        BY <4>2 DEF Halves
      <4> QED
        BY <1>6, <1>8, <1>10, <4>1, <4>3
    <3> QED
      BY <3>1, <3>2
  <2> QED
    BY <2>1, <2>2 DEF Refines, K
<1>21. Divided(h, g, par, P)
  <2>1. \A k \in 1 .. n2 : Whole(K(k), P)
    BY <1>9, <1>17, <1>18
  <2>2. ASSUME NEW i \in 1 .. n, NEW k \in NewLists(h, g), par[k] = i, NEW s \in K(i), NEW t \in K(k)
        PROVE  s \in P <=> t \notin P
    <3>1. Halves(K(i), K(k), Class(h, i), P)
      BY <1>14, <2>2
    <3> QED
      BY <3>1 DEF Halves
  <2>3. ASSUME NEW j \in 1 .. n2, NEW k \in 1 .. n2, j # k, par[j] = par[k]
        PROVE  \/ j \in 1 .. n /\ k \in NewLists(h, g) /\ par[k] = j
               \/ k \in 1 .. n /\ j \in NewLists(h, g) /\ par[j] = k
    BY <1>9, <1>10, <1>16, <2>3
  <2>4. \A j, k \in 1 .. n2 : j # k /\ par[j] = par[k] =>
          \A s \in K(j), t \in K(k) : s \in P <=> t \notin P
    BY <2>2, <2>3
  <2>5. \A k \in NewLists(h, g) : K(k) # {}
    BY <1>18
  <2>6. \A i \in 1 .. n : Class(h, i) # {} => K(i) # {}
    BY <1>17
  <2> QED
    BY <2>1, <2>4, <2>5, <2>6 DEF Divided, K
<1>22. Grown(h, g, par)
  <2>1. ASSUME NEW i \in 1 .. n
        PROVE  Offspring(g, i) = Offspring(h, i) \cup {k \in NewLists(h, g) : i > 2 /\ par[k] = i}
    <3>1. CASE i \in parted /\ i > 2
      <4> DEFINE q == h.children[i]
                 new == n + Place(order, i)
      <4>1. g.children[i] = Append(q, new) /\ q \in Seq(Nat)
        BY <1>1, <3>1 DEF NewFamily
      <4>2. new \in NewLists(h, g) /\ par[new] = i
        <5>1. new \in 1 .. n2 /\ new > n /\ new - n = Place(order, i)
          BY <1>1, <1>3, <1>4, <1>5, <3>1
        <5>2. new \in NewLists(h, g)
          BY <1>6, <5>1
        <5> QED
          BY <1>5, <1>11, <3>1, <5>1, <5>2
      <4>3. new \in Nat
        BY <1>1, <1>5, <3>1
      <4> HIDE DEF new, q
      <4>7. ToSet(g.children[i]) = ToSet(q) \cup {new}
        BY <4>1, <4>3, AppendedItems
      <4>8. {k \in NewLists(h, g) : i > 2 /\ par[k] = i} = {new}
        BY <1>16, <3>1, <4>2
      <4> QED
        BY <4>7, <4>8 DEF Offspring, q
    <3>2. CASE ~ (i \in parted /\ i > 2)
      <4>1. g.children[i] = h.children[i]
        BY <3>2 DEF NewFamily
      <4>2. {k \in NewLists(h, g) : i > 2 /\ par[k] = i} = {}
        BY <1>11, <3>2
      <4> QED
        BY <4>1, <4>2 DEF Offspring
    <3> QED
      BY <3>1, <3>2
  <2>2. ASSUME NEW k \in NewLists(h, g) PROVE Offspring(g, k) = {}
    <3> DEFINE j == k - n
    <3>1. j \in 1 .. m /\ n + j = k
      BY <1>7
    <3> HIDE DEF j
    <3>2. g.children[n + j] = <<>>
      BY <3>1 DEF NewFamily
    <3> QED
      BY <3>1, <3>2 DEF Offspring, ToSet
  <2>3. n2 - n = m
    BY <1>1, <1>3, <1>4
  <2>4. g.waiting = h.waiting \o [k \in 1 .. n2 - n |-> n + k]
    BY <2>3 DEF NewFamily
  <2> QED
    BY <2>1, <2>2, <2>4 DEF Grown
<1>23. Split(Q, h, g, P, par)
  BY <1>19, <1>20, <1>21, <1>22 DEF Split
<1> QED
  BY <1>23

(* SplitWith() is such a split.                                              *)
LEMMA SplitWithSplits ==
    ASSUME NEW c, NEW b \in Nat, Bounded(c, b), NEW h, Listed(states(c), h), Apart(h),
           NEW S \in Seq(states(c)), NEW x
    PROVE  \E par : Split(states(c), h, SplitWith(c, h, S, x), Pre(c, ToSet(S), x), par)
<1> DEFINE Q == states(c)
           before == Into(c, S, x)
           parted == PartedBy(h, before)
           order == OrderOf(h, before)
           g == SplitBy(h, before, parted, order)
<1>1. before \in Seq(Q) /\ ToSet(before) = Pre(c, ToSet(S), x)
  BY IntoIsPre
<1>2. SplitWith(c, h, S, x) = g
  BY SplitByThem
<1> HIDE DEF before
<1>3. parted \subseteq 1 .. Len(h.lists) /\ InOrder(order, parted)
  BY <1>1, PartedInOrder
<1>4. parted = PartedBy(h, before)
  OBVIOUS
<1> HIDE DEF parted, order, Q
<1>5. Listed(Q, g) /\ NewClasses(h, g, before, parted, order) /\ NewFamily(h, g, parted, order)
  BY <1>1, <1>3, <1>4, SplitLists DEF Q
<1> HIDE DEF g
<1>6. \E par : Split(Q, h, g, ToSet(before), par)
  BY <1>1, <1>3, <1>4, <1>5, ClassesAreSplit DEF Q
<1> QED
  BY <1>1, <1>2, <1>6 DEF Q

-----------------------------------------------------------------------------
(***************************************************************************)
(* What stays true of the lists, from one split to the next and from one   *)
(* round to the next, until nothing waits.                                 *)
(***************************************************************************)

(* A deterministic machine in which every letter leads on from every state.  *)
Total(c) ==
    /\ Usual(c) /\ Determinate(c)
    /\ \A s \in states(c), x \in labels(c) : \E u \in states(c) : <<s, x, u>> \in c.arcs

(* A word tells the states of two lists apart.                               *)
ToldApart(c, h) ==
    \A i, k \in 1 .. Len(h.lists) : i # k =>
        \A s \in Class(h, i), t \in Class(h, k) : Beyond(c, s) # Beyond(c, t)

(* The lists hold every state once, in agreement with which are final, and   *)
(* tell apart all they separate.                                             *)
Partitions(c, h) ==
    /\ Listed(states(c), h) /\ Apart(h)
    /\ \A s \in states(c) : \E i \in 1 .. Len(h.lists) : s \in Class(h, i)
    /\ \A i \in 1 .. Len(h.lists) : i >= 2 => Class(h, i) # {}
    /\ \A i \in 1 .. Len(h.lists) : Whole(Class(h, i), c.final)
    /\ ToldApart(c, h)

(* States that a letter leads to states told apart are told apart.           *)
LEMMA ToldByLetter ==
    ASSUME NEW c, Total(c), NEW x \in labels(c), NEW s, NEW t, NEW u, NEW v,
           <<s, x, u>> \in c.arcs, <<t, x, v>> \in c.arcs, Beyond(c, u) # Beyond(c, v)
    PROVE  Beyond(c, s) # Beyond(c, t)
<1>1. x \in Int
  BY StatesBounded DEF Total, Usual
<1>2. \A q, e, f : <<q, x, e>> \in c.arcs /\ <<q, x, f>> \in c.arcs => e = f
  <2> SUFFICES ASSUME NEW q, NEW e, NEW f, <<q, x, e>> \in c.arcs, <<q, x, f>> \in c.arcs PROVE e = f
    OBVIOUS
  <2> DEFINE a == <<q, x, e>>
             d == <<q, x, f>>
  <2>1. a[1] = d[1] /\ a[2] = d[2] /\ a[3] = e /\ d[3] = f /\ a \in c.arcs /\ d \in c.arcs
    OBVIOUS
  <2> HIDE DEF a, d
  <2>2. a[3] = d[3]
    BY <2>1 DEF Total, Determinate
  <2> QED
    BY <2>1, <2>2
<1>3. PICK w \in Seq(Int) : ~ (w \in Beyond(c, u) <=> w \in Beyond(c, v))
  <2>1. Beyond(c, u) \subseteq Seq(Int) /\ Beyond(c, v) \subseteq Seq(Int)
    BY DEF Beyond
  <2> QED
    BY <2>1
<1>4. <<x>> \o w \in Beyond(c, s) <=> w \in Beyond(c, u)
  <2>1. <<x>> \o w \in Beyond(c, s) <=> \E q : <<s, x, q>> \in c.arcs /\ w \in Beyond(c, q)
    BY <1>1, BeyondLetter
  <2> QED
    BY <1>2, <2>1
<1>5. <<x>> \o w \in Beyond(c, t) <=> w \in Beyond(c, v)
  <2>1. <<x>> \o w \in Beyond(c, t) <=> \E q : <<t, x, q>> \in c.arcs /\ w \in Beyond(c, q)
    BY <1>1, BeyondLetter
  <2> QED
    BY <1>2, <2>1
<1> QED
  BY <1>3, <1>4, <1>5

(* A split with a set that parts no list leaves a partition.                 *)
LEMMA SplitKeeps ==
    ASSUME NEW c, Total(c), NEW h, Partitions(c, h),
           NEW B, \A i \in 1 .. Len(h.lists) : Whole(Class(h, i), B),
           NEW x \in labels(c), NEW g, NEW par, Split(states(c), h, g, Pre(c, B, x), par)
    PROVE  Partitions(c, g)
<1> DEFINE Q == states(c)
           n == Len(h.lists)
           n2 == Len(g.lists)
           P == Pre(c, B, x)
<1>1. /\ Listed(Q, g) /\ Parents(h, g, par) /\ Refines(h, g, par) /\ Divided(h, g, par, P)
  BY DEF Split
<1>2. n \in Nat /\ n >= 2 /\ \A i \in 1 .. n : Class(h, i) \subseteq Q
  BY ListedMeans DEF Partitions
<1>3. n2 \in Nat /\ n2 >= 2 /\ \A i \in 1 .. n2 : Class(g, i) \subseteq Q
  BY <1>1, ListedMeans
<1>4. \A k \in 1 .. n2 : par[k] \in 1 .. n /\ Class(g, k) \subseteq Class(h, par[k])
  BY <1>1 DEF Parents, Refines
<1>5. Apart(g)
  <2> SUFFICES ASSUME NEW i \in 1 .. n2, NEW k \in 1 .. n2, NEW s, s \in Class(g, i), s \in Class(g, k), i # k
               PROVE  FALSE
    BY DEF Apart
  <2>1. s \in Class(h, par[i]) /\ s \in Class(h, par[k])
    BY <1>4
  <2>2. par[i] = par[k]
    BY <1>4, <2>1 DEF Partitions, Apart
  <2> QED
    BY <1>1, <2>2 DEF Divided
<1>6. \A s \in Q : \E i \in 1 .. n2 : s \in Class(g, i)
  <2> TAKE s \in Q
  <2>1. PICK i \in 1 .. n : s \in Class(h, i)
    BY DEF Partitions
  <2> QED
    BY <1>1, <2>1 DEF Refines
<1>7. \A i \in 1 .. n2 : i >= 2 => Class(g, i) # {}
  <2> TAKE i \in 1 .. n2
  <2>1. CASE i \in NewLists(h, g)
    BY <1>1, <2>1 DEF Divided
  <2>2. CASE i \notin NewLists(h, g)
    <3>1. i \in 1 .. n
      BY <1>2, <2>2 DEF NewLists
    <3>2. i >= 2 => Class(h, i) # {}
      BY <3>1 DEF Partitions
    <3> QED
      BY <1>1, <3>1, <3>2 DEF Divided
  <2> QED
    BY <2>1, <2>2
<1>8. \A i \in 1 .. n2 : Whole(Class(g, i), c.final)
  <2> TAKE i \in 1 .. n2
  <2>1. Whole(Class(h, par[i]), c.final)
    BY <1>4 DEF Partitions
  <2> QED
    BY <1>4, <2>1 DEF Whole
<1>9. ASSUME NEW s \in P, NEW t \in Q, t \notin P PROVE Beyond(c, s) # Beyond(c, t)
  <2>1. PICK u \in B : <<s, x, u>> \in c.arcs
    BY DEF Pre
  <2>2. PICK v \in Q : <<t, x, v>> \in c.arcs
    BY DEF Total
  <2>3. v \notin B
    BY <1>9, <2>2 DEF Pre
  <2>4. u \in Q
    <3> DEFINE a == <<s, x, u>>
    <3>1. a \in c.arcs /\ a[3] = u
      BY <2>1
    <3> HIDE DEF a
    <3>2. a[3] \in Q
      BY <3>1, StatesBounded DEF Total, Usual
    <3> QED
      BY <3>1, <3>2
  <2>5. PICK i \in 1 .. n : u \in Class(h, i)
    BY <2>4 DEF Partitions
  <2>6. PICK k \in 1 .. n : v \in Class(h, k)
    BY DEF Partitions
  <2>7. i # k
    BY <2>1, <2>3, <2>5, <2>6 DEF Whole
  <2>8. Beyond(c, u) # Beyond(c, v)
    BY <2>5, <2>6, <2>7 DEF Partitions, ToldApart
  <2> QED
    BY <2>1, <2>2, <2>8, ToldByLetter
<1>10. ToldApart(c, g)
  <2> SUFFICES ASSUME NEW i \in 1 .. n2, NEW k \in 1 .. n2, i # k, NEW s \in Class(g, i), NEW t \in Class(g, k)
               PROVE  Beyond(c, s) # Beyond(c, t)
    BY DEF ToldApart
  <2>1. s \in Class(h, par[i]) /\ t \in Class(h, par[k]) /\ s \in Q /\ t \in Q
    BY <1>3, <1>4
  <2>2. CASE par[i] # par[k]
    BY <1>4, <2>1, <2>2 DEF Partitions, ToldApart
  <2>3. CASE par[i] = par[k]
    <3>1. s \in P <=> t \notin P
      BY <1>1, <2>3 DEF Divided
    <3> QED
      BY <1>9, <2>1, <3>1
  <2> QED
    BY <2>2, <2>3
<1> QED
  BY <1>1, <1>5, <1>6, <1>7, <1>8, <1>10 DEF Partitions

(* B has all of one list and nothing of the other.                           *)
Parting(L, K, B) ==
    \/ L \subseteq B /\ K \cap B = {}
    \/ K \subseteq B /\ L \cap B = {}

(* The sets to split with: the states that are not final, and those of the   *)
(* lists behind the first two.                                               *)
Splitters(c, h, o) == {states(c) \ c.final} \cup {o[j] : j \in {k \in 1 .. Len(h.lists) : k >= 3}}

(* What was to be split with: o[i] is a list with all that was split off     *)
(* from it.                                                                  *)
Unions(h, o) ==
    \A i \in 1 .. Len(h.lists) : \A s :
        s \in o[i] <=> s \in Class(h, i) \/ \E k \in Offspring(h, i) : s \in o[k]

(* Children are younger, no list is parted by such a set, and any two        *)
(* lists are parted from each other by one.                                  *)
Family(c, h, o) ==
    /\ Unions(h, o)
    /\ \A i \in 1 .. Len(h.lists) : \A k \in Offspring(h, i) : k \in 1 .. Len(h.lists) /\ k > i
    /\ \A i \in 1 .. Len(h.lists) : i <= 2 => Offspring(h, i) = {}
    /\ \A i, j \in 1 .. Len(h.lists) : Whole(Class(h, i), o[j])
    /\ \A i, k \in 1 .. Len(h.lists) : i # k =>
          \E B \in Splitters(c, h, o) : Parting(Class(h, i), Class(h, k), B)

(* The sets stay as they were.                                               *)
Older(h, o, p) == \A j \in 3 .. Len(h.lists) : p[j] = o[j]

(* A split leaves those sets as they were, and adds the new lists to them.   *)
LEMMA SplitFamily ==
    ASSUME NEW c, NEW h, Partitions(c, h), NEW o, Family(c, h, o), NEW P,
           NEW g, Apart(g), NEW par, Split(states(c), h, g, P, par)
    PROVE  \E p : Family(c, g, p) /\ Older(h, o, p)
<1> DEFINE n == Len(h.lists)
           n2 == Len(g.lists)
           p == [j \in 1 .. n2 |-> IF j \in 3 .. n THEN o[j] ELSE Class(g, j)]
<1>1. /\ Listed(states(c), g) /\ Parents(h, g, par) /\ Refines(h, g, par) /\ Divided(h, g, par, P)
      /\ Grown(h, g, par)
  BY DEF Split
<1>2. n \in Nat /\ n >= 2
  BY ListedMeans DEF Partitions
<1>3. n2 \in Nat /\ n <= n2
  BY <1>1, ListedMeans DEF Parents
<1>4. \A k \in 1 .. n2 : par[k] \in 1 .. n /\ Class(g, k) \subseteq Class(h, par[k])
  BY <1>1 DEF Parents, Refines
<1>5. \A i \in 1 .. n : i \in 1 .. n2 /\ par[i] = i /\ i \notin NewLists(h, g)
  BY <1>1, <1>2, <1>3 DEF Parents, NewLists
<1>6. \A k \in 1 .. n2 : k \in 1 .. n \/ k \in NewLists(h, g)
  BY <1>2, <1>3 DEF NewLists
<1>7. \A k \in NewLists(h, g) : k \in 1 .. n2 /\ k > n /\ k >= 3 /\ k \notin 3 .. n
  BY <1>2, <1>3 DEF NewLists
<1>8. /\ \A j \in 3 .. n : j \in 1 .. n2 /\ j \in 1 .. n /\ j >= 3 /\ p[j] = o[j]
      /\ \A j \in 1 .. n2 : j \in 3 .. n \/ p[j] = Class(g, j)
  BY <1>2, <1>3
<1>9. \A k \in NewLists(h, g) : p[k] = Class(g, k)
  BY <1>7
<1>10. \A i \in 1 .. n : i \in 3 .. n \/ i <= 2
  BY <1>2
<1>11. \A i \in 1 .. n : i <= 2 => p[i] = Class(g, i)
  BY <1>2, <1>3
<1> HIDE DEF p
<1>12. \A i \in 1 .. n : Offspring(g, i) = Offspring(h, i) \cup {k \in NewLists(h, g) : i > 2 /\ par[k] = i}
  BY <1>1 DEF Grown
<1>13. \A k \in NewLists(h, g) : Offspring(g, k) = {}
  BY <1>1 DEF Grown
<1>14. \A i \in 1 .. n : i <= 2 => Offspring(g, i) = {}
  <2> TAKE i \in 1 .. n
  <2> HAVE i <= 2
  <2>1. ~ (i > 2) /\ Offspring(h, i) = {}
    BY <1>2 DEF Family
  <2> QED
    BY <1>12, <2>1
<1>15. ASSUME NEW i \in 1 .. n2, NEW k \in Offspring(g, i) PROVE k \in 1 .. n2 /\ k > i
  <2>1. i \in 1 .. n
    BY <1>6, <1>13
  <2>2. CASE k \in Offspring(h, i)
    BY <1>5, <2>1, <2>2 DEF Family
  <2>3. CASE k \in NewLists(h, g)
    BY <1>2, <1>3, <1>7, <2>1, <2>3
  <2> QED
    BY <1>12, <2>1, <2>2, <2>3
<1>16. \A i \in 1 .. n2 : i <= 2 => Offspring(g, i) = {}
  BY <1>6, <1>13, <1>14
<1>17. ASSUME NEW i \in 3 .. n, NEW s
       PROVE  s \in p[i] <=> s \in Class(g, i) \/ \E k \in Offspring(g, i) : s \in p[k]
  <2>1. i \in 1 .. n /\ i > 2 /\ p[i] = o[i] /\ i \in Int
    BY <1>8
  <2>2. s \in o[i] <=> s \in Class(h, i) \/ \E k \in Offspring(h, i) : s \in o[k]
    BY <2>1 DEF Family, Unions
  <2>3. s \in Class(h, i) <=> s \in Class(g, i) \/ \E k \in NewLists(h, g) : par[k] = i /\ s \in Class(g, k)
    <3>1. s \in Class(h, i) => \E k \in 1 .. n2 : par[k] = i /\ s \in Class(g, k)
      BY <1>1, <2>1 DEF Refines
    <3>2. Class(g, i) \subseteq Class(h, i)
      BY <1>4, <1>5, <2>1
    <3>3. \A k \in NewLists(h, g) : par[k] = i => Class(g, k) \subseteq Class(h, i)
      BY <1>4, <1>7
    <3>4. \A k \in 1 .. n2 : par[k] = i => k = i \/ k \in NewLists(h, g)
      BY <1>5, <1>6
    <3> QED
      BY <3>1, <3>2, <3>3, <3>4
  <2>4. \A k \in Offspring(h, i) : k \in 3 .. n
    <3> TAKE k \in Offspring(h, i)
    <3>1. k \in 1 .. n /\ k > i
      BY <2>1 DEF Family
    <3>2. k > 2
      BY <2>1, <3>1
    <3> QED
      BY <1>10, <3>1, <3>2
  <2>5. \A k \in Offspring(h, i) : p[k] = o[k]
    BY <1>8, <2>4
  <2>6. \A k : k \in Offspring(g, i) <=> k \in Offspring(h, i) \/ (k \in NewLists(h, g) /\ par[k] = i)
    BY <1>12, <2>1
  <2>7. (\E k \in Offspring(g, i) : s \in p[k]) <=>
            \/ \E k \in Offspring(h, i) : s \in o[k]
            \/ \E k \in NewLists(h, g) : par[k] = i /\ s \in Class(g, k)
    BY <1>9, <2>5, <2>6
  <2> QED
    BY <2>1, <2>2, <2>3, <2>7
<1>18. Unions(g, p)
  <2> SUFFICES ASSUME NEW i \in 1 .. n2, NEW s
               PROVE  s \in p[i] <=> s \in Class(g, i) \/ \E k \in Offspring(g, i) : s \in p[k]
    BY DEF Unions
  <2>1. CASE i \in 3 .. n
    BY <1>17, <2>1
  <2>2. CASE i \notin 3 .. n
    <3>1. Offspring(g, i) = {}
      BY <1>6, <1>10, <1>13, <1>14, <2>2
    <3>2. p[i] = Class(g, i)
      BY <1>8, <2>2
    <3> QED
      BY <3>1, <3>2
  <2> QED
    BY <2>1, <2>2
<1>19. ASSUME NEW i \in 1 .. n2, NEW j \in 1 .. n2 PROVE Whole(Class(g, i), p[j])
  <2>1. CASE j \in 3 .. n
    <3>1. Whole(Class(h, par[i]), o[j])
      BY <1>4, <1>8, <2>1 DEF Family
    <3> QED
      BY <1>4, <1>8, <2>1, <3>1 DEF Whole
  <2>2. CASE j \notin 3 .. n
    <3>1. p[j] = Class(g, j)
      BY <1>8, <2>2
    <3>2. i = j \/ Class(g, i) \cap Class(g, j) = {}
      BY DEF Apart
    <3> QED
      BY <3>1, <3>2 DEF Whole
  <2> QED
    BY <2>1, <2>2
<1>20. \A B \in Splitters(c, h, o) : B \in Splitters(c, g, p)
  <2> TAKE B \in Splitters(c, h, o)
  <2>1. CASE B = states(c) \ c.final
    BY <2>1 DEF Splitters
  <2>2. CASE B # states(c) \ c.final
    <3>1. PICK j \in 1 .. n : j >= 3 /\ B = o[j]
      BY <2>2 DEF Splitters
    <3>2. j \in 3 .. n
      BY <1>2, <3>1
    <3>3. B = p[j] /\ j \in 1 .. n2
      BY <1>8, <3>1, <3>2
    <3> QED
      BY <3>1, <3>3 DEF Splitters
  <2> QED
    BY <2>1, <2>2
<1>21. \A k \in NewLists(h, g) : Class(g, k) \in Splitters(c, g, p)
  BY <1>7, <1>9 DEF Splitters
<1>22. ASSUME NEW i \in 1 .. n2, NEW k \in 1 .. n2, i # k
       PROVE  \E B \in Splitters(c, g, p) : Parting(Class(g, i), Class(g, k), B)
  <2>1. CASE par[i] # par[k]
    <3>1. PICK B \in Splitters(c, h, o) : Parting(Class(h, par[i]), Class(h, par[k]), B)
      BY <1>4, <2>1 DEF Family
    <3>2. Parting(Class(g, i), Class(g, k), B)
      BY <1>4, <3>1 DEF Parting
    <3> QED
      BY <1>20, <3>1, <3>2
  <2>2. CASE par[i] = par[k]
    <3>1. Class(g, i) \cap Class(g, k) = {}
      BY <1>22 DEF Apart
    <3>2. i \in NewLists(h, g) \/ k \in NewLists(h, g)
      BY <1>5, <1>6, <1>22, <2>2
    <3>3. Parting(Class(g, i), Class(g, k), Class(g, i)) /\ Parting(Class(g, i), Class(g, k), Class(g, k))
      BY <3>1 DEF Parting
    <3> QED
      BY <1>21, <3>2, <3>3
  <2> QED
    BY <2>1, <2>2
<1>23. Family(c, g, p)
  BY <1>15, <1>16, <1>18, <1>19, <1>22 DEF Family
<1>24. Older(h, o, p)
  BY <1>8 DEF Older
<1> QED
  BY <1>23, <1>24

(* The numbers behind a, as the list that waits.                             *)
Following(a, n) == [k \in 1 .. n - a |-> a + k]

(* What follows a, and then what follows n.                                  *)
LEMMA FollowingJoined ==
    ASSUME NEW a \in Nat, NEW n \in Nat, NEW n2 \in Nat, a <= n, n <= n2
    PROVE  /\ Following(a, n) \in Seq(Nat) /\ Len(Following(a, n)) = n - a
           /\ Following(a, n) \o Following(n, n2) = Following(a, n2)
<1>1. \A d, e \in Nat : d <= e => /\ e - d \in Nat /\ Following(d, e) \in [1 .. e - d -> Nat]
                                  /\ \A k \in 1 .. e - d : Following(d, e)[k] = d + k
  BY DEF Following
<1>2. \A d, e \in Nat : d <= e => Following(d, e) \in Seq(Nat) /\ Len(Following(d, e)) = e - d
  BY <1>1, FunctionsAreLists
<1> DEFINE v == Following(a, n)
           w == Following(n, n2)
           r == Following(a, n2)
<1>3. /\ v \in Seq(Nat) /\ Len(v) = n - a /\ \A k \in 1 .. n - a : v[k] = a + k
      /\ w \in Seq(Nat) /\ Len(w) = n2 - n /\ \A k \in 1 .. n2 - n : w[k] = n + k
      /\ r \in Seq(Nat) /\ Len(r) = n2 - a /\ \A k \in 1 .. n2 - a : r[k] = a + k
  <2>0. a <= n2
    OBVIOUS
  <2>1. v \in Seq(Nat) /\ Len(v) = n - a /\ \A k \in 1 .. n - a : v[k] = a + k
    BY <1>1, <1>2
  <2>2. w \in Seq(Nat) /\ Len(w) = n2 - n /\ \A k \in 1 .. n2 - n : w[k] = n + k
    BY <1>1, <1>2
  <2>3. r \in Seq(Nat) /\ Len(r) = n2 - a /\ \A k \in 1 .. n2 - a : r[k] = a + k
    BY <1>1, <1>2, <2>0
  <2> QED
    BY <2>1, <2>2, <2>3
<1> HIDE DEF v, w, r
<1>4. v \o w \in Seq(Nat) /\ Joined(v \o w, v, w)
  BY <1>3, ItemsOfBoth
<1>5. Len(v \o w) = Len(r)
  <2>1. (n - a) + (n2 - n) = n2 - a
    OBVIOUS
  <2>2. Len(v \o w) = Len(v) + Len(w)
    BY <1>4 DEF Joined
  <2> QED
    BY <1>3, <2>1, <2>2
<1>6. ASSUME NEW k \in 1 .. n2 - a PROVE (v \o w)[k] = r[k]
  <2>1. CASE k \in 1 .. n - a
    BY <1>3, <1>4, <2>1 DEF Joined
  <2>2. CASE k \notin 1 .. n - a
    <3> DEFINE j == k - (n - a)
    <3>1. j \in 1 .. n2 - n /\ (n - a) + j = k /\ n + j = a + k
      BY <2>2
    <3> HIDE DEF j
    <3>2. (v \o w)[Len(v) + j] = w[j]
      BY <1>3, <1>4, <3>1 DEF Joined
    <3> QED
      BY <1>3, <3>1, <3>2
  <2> QED
    BY <2>1, <2>2
<1>7. v \o w = r
  <2>1. Len(r) = n2 - a
    BY <1>3
  <2>2. \A k \in 1 .. Len(v \o w) : (v \o w)[k] = r[k]
    BY <1>5, <1>6, <2>1
  <2> QED
    BY <1>3, <1>4, <1>5, <2>2, SeqEqual
<1> QED
  BY <1>3, <1>7 DEF v, w, r

(* No list is parted by the states from which a letter leads into B.         *)
Steady(c, h, B, x) == \A i \in 1 .. Len(h.lists) : Whole(Class(h, i), Pre(c, B, x))

(* The first q were split with on every letter.                              *)
Settled(c, h, o, q) ==
    /\ q >= 1 => \A x \in labels(c) : Steady(c, h, states(c) \ c.final, x)
    /\ \A j \in 3 .. Len(h.lists) : j <= q => \A x \in labels(c) : Steady(c, h, o[j], x)

(* Amid a round: the list p is being split with, as the set B, and the       *)
(* letters Y are done.                                                       *)
During(c, h, o, p, B, Y) ==
    /\ Partitions(c, h) /\ Family(c, h, o)
    /\ p \in 1 .. Len(h.lists) /\ h.waiting = Following(p, Len(h.lists))
    /\ Settled(c, h, o, p - 1)
    /\ \A i \in 1 .. Len(h.lists) : Whole(Class(h, i), B)
    /\ \A x \in Y : Steady(c, h, B, x)
    /\ p = 1 => B = states(c) \ c.final
    /\ p >= 3 => B = o[p]

(* Splitting with one more letter.                                           *)
LEMMA SplitStep ==
    ASSUME NEW c, Total(c), NEW h, NEW o, NEW p, NEW S \in Seq(states(c)), NEW Y,
           During(c, h, o, p, ToSet(S), Y), NEW x \in labels(c)
    PROVE  \E q : During(c, SplitWith(c, h, S, x), q, p, ToSet(S), Y \cup {x})
<1> DEFINE Q == states(c)
           g == SplitWith(c, h, S, x)
           B == ToSet(S)
           n == Len(h.lists)
           n2 == Len(g.lists)
<1>1. PICK b \in Nat : Bounded(c, b)
  BY DEF Total, Usual
<1>2. Partitions(c, h) /\ Family(c, h, o) /\ Listed(Q, h) /\ Apart(h)
  BY DEF During, Partitions
<1>3. PICK par : Split(Q, h, g, Pre(c, B, x), par)
  BY <1>1, <1>2, SplitWithSplits
<1> HIDE DEF g
<1>4. Partitions(c, g)
  <2>1. \A i \in 1 .. n : Whole(Class(h, i), B)
    BY DEF During
  <2> QED
    BY <1>2, <1>3, <2>1, SplitKeeps
<1>5. PICK q : Family(c, g, q) /\ Older(h, o, q)
  <2>1. Apart(g)
    BY <1>4 DEF Partitions
  <2> HIDE DEF B
  <2> QED
    BY <1>2, <1>3, <2>1, SplitFamily
<1>6. /\ Listed(Q, g) /\ Parents(h, g, par) /\ Refines(h, g, par) /\ Divided(h, g, par, Pre(c, B, x))
      /\ Grown(h, g, par)
  BY <1>3 DEF Split
<1>7. n \in Nat /\ n >= 2 /\ n2 \in Nat /\ n <= n2
  <2>1. n \in Nat /\ n >= 2
    BY <1>2, ListedMeans
  <2>2. n2 \in Nat
    BY <1>6, ListedMeans
  <2> QED
    BY <1>6, <2>1, <2>2 DEF Parents
<1>8. \A k \in 1 .. n2 : par[k] \in 1 .. n /\ Class(g, k) \subseteq Class(h, par[k])
  BY <1>6 DEF Parents, Refines
<1>9. ASSUME NEW W, \A i \in 1 .. n : Whole(Class(h, i), W)
      PROVE  \A i \in 1 .. n2 : Whole(Class(g, i), W)
  <2> TAKE i \in 1 .. n2
  <2>1. Whole(Class(h, par[i]), W)
    BY <1>8, <1>9
  <2> QED
    BY <1>8, <2>1 DEF Whole
<1>10. \A W, y : Steady(c, h, W, y) => Steady(c, g, W, y)
  BY <1>9 DEF Steady
<1>11. p \in 1 .. n /\ p \in 1 .. n2
  BY <1>7 DEF During
<1>12. \A j \in 3 .. n2 : j <= p => j \in 3 .. n /\ q[j] = o[j]
  BY <1>5, <1>7, <1>11 DEF Older
<1>13. g.waiting = Following(p, n2)
  <2>1. g.waiting = h.waiting \o Following(n, n2)
    BY <1>6 DEF Grown, Following
  <2>2. h.waiting = Following(p, n)
    BY DEF During
  <2>3. Following(p, n) \o Following(n, n2) = Following(p, n2)
    <3>1. p \in Nat /\ p <= n
      BY <1>7, <1>11
    <3> HIDE DEF n, n2
    <3> QED
      BY <1>7, <3>1, FollowingJoined
  <2> QED
    BY <2>1, <2>2, <2>3
<1>14. Settled(c, g, q, p - 1)
  <2>1. p - 1 >= 1 => \A y \in labels(c) : Steady(c, g, Q \ c.final, y)
    BY <1>10 DEF During, Settled
  <2>2. ASSUME NEW j \in 3 .. n2, j <= p - 1, NEW y \in labels(c) PROVE Steady(c, g, q[j], y)
    <3>1. j <= p
      BY <1>11, <2>2
    <3>2. j \in 3 .. n /\ q[j] = o[j]
      BY <1>12, <3>1
    <3>3. Steady(c, h, o[j], y)
      BY <2>2, <3>2 DEF During, Settled
    <3> QED
      BY <1>10, <3>2, <3>3
  <2> QED
    BY <2>1, <2>2 DEF Settled
<1>15. \A i \in 1 .. n2 : Whole(Class(g, i), B)
  BY <1>9 DEF During
<1>16. \A y \in Y \cup {x} : Steady(c, g, B, y)
  <2>1. Steady(c, g, B, x)
    BY <1>6 DEF Divided, Steady
  <2> QED
    BY <1>10, <2>1 DEF During
<1>17. (p = 1 => B = Q \ c.final) /\ (p >= 3 => B = q[p])
  <2>1. p >= 3 => p \in 3 .. n2 /\ p <= p
    BY <1>11
  <2> HIDE DEF B
  <2>2. p >= 3 => q[p] = o[p]
    BY <1>12, <2>1
  <2> QED
    BY <2>2 DEF During, B
<1>18. During(c, g, q, p, B, Y \cup {x})
  BY <1>4, <1>5, <1>11, <1>13, <1>14, <1>15, <1>16, <1>17 DEF During
<1> QED
  BY <1>18 DEF g

(* What holds of 0, and of a number if of the one before, holds of all.      *)
LEMMA NumberInduction ==
    ASSUME NEW T, 0 \in T, \A d \in Nat : d \in T => d + 1 \in T
    PROVE  Nat \subseteq T
<1> DEFINE Bad == {d \in Nat : d \notin T}
<1> SUFFICES ASSUME Bad # {} PROVE FALSE
  OBVIOUS
<1>1. Bad \in SUBSET Nat /\ \A d : d \in Bad <=> d \in Nat /\ d \notin T
  OBVIOUS
<1> HIDE DEF Bad
<1>2. PICK d \in Bad : \A e \in Bad : d <= e
  BY <1>1, LeastOfNaturals
<1>3. d \in Nat /\ d \notin T
  BY <1>1
<1>4. d # 0
  BY <1>3
<1>5. d - 1 \in Nat /\ (d - 1) + 1 = d /\ ~ (d <= d - 1)
  BY <1>3, <1>4
<1>6. d - 1 \in T
  BY <1>1, <1>2, <1>5
<1> DEFINE e == d - 1
<1>7. e \in Nat /\ e \in T /\ e + 1 = d
  BY <1>5, <1>6
<1> HIDE DEF e
<1> QED
  BY <1>3, <1>7

(* Lists taken for the items of a list, in a row.                            *)
Rows(f, q) == FlattenSeq([k \in DOMAIN q |-> f[q[k]]])
InRows(r, f, q) == \A t : t \in ToSet(r) <=> \E s \in ToSet(q) : t \in ToSet(f[s])

(* The items of the rows are the items of the lists they are made of.        *)
LEMMA FlattenedBy ==
    ASSUME NEW S, NEW T, NEW f \in [S -> Seq(T)], NEW q \in Seq(S)
    PROVE  Rows(f, q) \in Seq(T) /\ InRows(Rows(f, q), f, q)
<1> DEFINE n == Len(q)
           R == Seq(T)
           ss == [k \in DOMAIN q |-> f[q[k]]]
           r == FlattenSeq(ss)
<1>1. n \in Nat /\ DOMAIN q = 1 .. n /\ \A k \in 1 .. n : q[k] \in S
  BY LenProperties, ElementOfSeq
<1>2. ss \in [1 .. n -> R] /\ \A k \in 1 .. n : ss[k] = f[q[k]]
  <2> HIDE DEF R
  <2>1. \A s \in S : f[s] \in R
    BY DEF R
  <2> QED
    BY <1>1, <2>1
<1>3. ToSet(q) = {q[k] : k \in 1 .. n}
  BY <1>1 DEF ToSet
<1> HIDE DEF ss
<1>4. r \in R /\ ToSet(r) = UNION {ToSet(ss[k]) : k \in 1 .. n}
  BY <1>1, <1>2, FlattenedItems
<1> HIDE DEF r, R, n
<1>5. ASSUME NEW t PROVE t \in ToSet(r) <=> \E s \in ToSet(q) : t \in ToSet(f[s])
  <2>1. t \in ToSet(r) <=> \E k \in 1 .. n : t \in ToSet(ss[k])
    BY <1>4
  <2>2. t \in ToSet(r) <=> \E k \in 1 .. n : t \in ToSet(f[q[k]])
    BY <1>2, <2>1
  <2> QED
    BY <1>3, <2>2
<1>6. InRows(r, f, q)
  BY <1>5 DEF InRows
<1> QED
  BY <1>4, <1>6 DEF r, R, ss, Rows

(* Gathered() takes up a list and all that was split off from it.            *)
LEMMA GatheredItems ==
    ASSUME NEW Q, NEW h, Listed(Q, h), NEW o, Unions(h, o),
           \A i \in 1 .. Len(h.lists) : \A k \in Offspring(h, i) : k \in 1 .. Len(h.lists) /\ k > i,
           NEW i \in 1 .. Len(h.lists)
    PROVE  Gathered(h, i) \in Seq(Q) /\ \A s : s \in ToSet(Gathered(h, i)) <=> s \in o[i]
<1> DEFINE n == Len(h.lists)
           I == 1 .. n
           J == Seq(I)
           Next1(q) == FlattenSeq([k \in DOMAIN q |-> h.children[q[k]]])
           g == [y \in Nat \X J |-> Next1(y[2])]
           Is(l) == l = [d \in Nat |-> IF d = 0 THEN <<i>> ELSE Next1(l[d - 1])]
           level == CHOOSE l : Is(l)
           family == FlattenSeq([d \in 1 .. n |-> level[d - 1]])
           all == FlattenSeq([k \in DOMAIN family |-> h.lists[family[k]]])
<1>1. n \in Nat /\ n >= 2 /\ DOMAIN h.lists = I
  BY ListedMeans
<1>2. h.lists \in [I -> Seq(Q)]
  <2> DEFINE R == Seq(Q)
  <2>1. h.lists \in Seq(R)
    BY DEF Listed
  <2> HIDE DEF R
  <2>2. h.lists \in [1 .. Len(h.lists) -> R]
    BY <2>1, LenProperties, ElementOfSeq
  <2> QED
    BY <2>2 DEF R
<1>3. h.children \in [I -> J]
  <2> DEFINE N == Seq(Nat)
  <2>1. h.children \in Seq(N) /\ Len(h.children) = n
    BY DEF Listed
  <2> HIDE DEF N
  <2>2. h.children \in [I -> N]
    BY <2>1, LenProperties, ElementOfSeq
  <2>3. ASSUME NEW k \in I PROVE h.children[k] \in J
    <3> DEFINE p == h.children[k]
    <3>1. p \in Seq(Nat) /\ Offspring(h, k) = ToSet(p)
      BY <2>2 DEF N, Offspring
    <3>2. Len(p) \in Nat /\ DOMAIN p = 1 .. Len(p)
      BY <3>1, LenProperties
    <3>3. \A e \in 1 .. Len(p) : p[e] \in I
      BY <3>1, <3>2 DEF ToSet
    <3>4. p = [e \in 1 .. Len(p) |-> p[e]]
      BY <3>1, <3>2
    <3> HIDE DEF p, I
    <3>5. p \in [1 .. Len(p) -> I]
      BY <3>3, <3>4
    <3> QED
      BY <3>2, <3>5, FunctionsAreLists DEF p
  <2> HIDE DEF J
  <2> QED
    BY <2>2, <2>3
<1>4. <<i>> \in J /\ ToSet(<<i>>) = {i}
  BY DEF ToSet
<1>5. ASSUME NEW q \in J
      PROVE  Next1(q) \in J /\ \A t : t \in ToSet(Next1(q)) <=> \E k \in ToSet(q) : t \in Offspring(h, k)
  <2> DEFINE f == h.children
  <2>1. f \in [I -> Seq(I)]
    BY <1>3
  <2>2. Next1(q) = Rows(f, q)
    BY DEF Rows
  <2>a. q \in Seq(I)
    OBVIOUS
  <2> HIDE DEF I, f, Next1
  <2>b. Rows(f, q) \in Seq(I) /\ InRows(Rows(f, q), f, q)
    BY <2>1, <2>a, FlattenedBy
  <2>3. Next1(q) \in Seq(I) /\ InRows(Next1(q), f, q)
    BY <2>2, <2>b
  <2> QED
    BY <2>3 DEF f, InRows, Offspring
<1> HIDE DEF Next1, J
<1>6. g \in [Nat \X J -> J] /\ \A d \in Nat, q \in J : g[<<d, q>>] = Next1(q)
  <2>1. \A y \in Nat \X J : y[2] \in J /\ Next1(y[2]) \in J
    BY <1>5
  <2> QED
    BY <2>1
<1> HIDE DEF g
<1>7. PICK f \in [Nat -> J] : IsIteration(f, <<i>>, g)
  BY <1>4, <1>6, Iterations
<1>8. f[0] = <<i>> /\ \A d \in Nat : f[d + 1] = Next1(f[d])
  BY <1>6, <1>7 DEF IsIteration
<1>9. Is(f)
  <2>1. ASSUME NEW d \in Nat PROVE f[d] = IF d = 0 THEN <<i>> ELSE Next1(f[d - 1])
    <3>1. CASE d = 0
      BY <1>8, <3>1
    <3>2. CASE d # 0
      <4>1. d - 1 \in Nat /\ (d - 1) + 1 = d
        BY <3>2
      <4> DEFINE e == d - 1
      <4>2. f[e + 1] = Next1(f[e])
        <5> HIDE DEF e
        <5> QED
          BY <1>8, <4>1 DEF e
      <4> QED
        BY <3>2, <4>1, <4>2
    <3> QED
      BY <3>1, <3>2
  <2>2. f = [d \in Nat |-> f[d]]
    BY <1>7
  <2> QED
    BY <2>1, <2>2
<1>10. Is(level)
  <2> HIDE DEF Is
  <2> QED
    BY <1>9
<1>11. Gathered(h, i) = Reverse(all)
  BY DEF Gathered, Next1
<1> HIDE DEF level
<1>12. level[0] = <<i>> /\ \A d \in Nat : level[d + 1] = Next1(level[d])
  <2>1. \A d \in Nat : level[d] = IF d = 0 THEN <<i>> ELSE Next1(level[d - 1])
    BY <1>10
  <2>2. \A d \in Nat : d + 1 \in Nat /\ d + 1 # 0 /\ (d + 1) - 1 = d
    OBVIOUS
  <2> HIDE DEF Is
  <2>3. ASSUME NEW d \in Nat PROVE level[d + 1] = Next1(level[d])
    <3> DEFINE e == d + 1
    <3>1. e \in Nat /\ e # 0 /\ e - 1 = d
      BY <2>2
    <3> HIDE DEF e
    <3>2. level[e] = Next1(level[e - 1])
      BY <2>1, <3>1
    <3> QED
      BY <3>1, <3>2 DEF e
  <2> QED
    BY <2>1, <2>3
<1> HIDE DEF Is
<1> DEFINE Lv(d) == ToSet(level[d])
           Down(d) == level[d] \in J /\ \A k \in Lv(d) : k \in I /\ k >= i + d /\ \A s : s \in o[k] => s \in o[i]
           Seen(d, s) == \E e \in 0 .. d - 1 : \E k \in Lv(e) : s \in Class(h, k)
           Up(d) == \A s \in o[i] : Seen(d, s) \/ \E k \in Lv(d) : s \in o[k]
<1>13. \A d \in Nat : level[d] \in J => \A t : t \in Lv(d + 1) <=> \E k \in Lv(d) : t \in Offspring(h, k)
  BY <1>5, <1>12
<1>14. Down(0) /\ Up(0)
  <2>1. Lv(0) = {i} /\ level[0] \in J
    BY <1>4, <1>12
  <2>2. i \in Nat /\ i >= i + 0
    BY <1>1
  <2> HIDE DEF I
  <2> QED
    BY <2>1, <2>2 DEF I
<1>15. ASSUME NEW d \in Nat, Down(d) PROVE Down(d + 1)
  <2>1. level[d + 1] \in J
    BY <1>5, <1>12, <1>15
  <2>2. ASSUME NEW t \in Lv(d + 1) PROVE t \in I /\ t >= i + (d + 1) /\ \A s : s \in o[t] => s \in o[i]
    <3>1. PICK k \in Lv(d) : t \in Offspring(h, k)
      BY <1>13, <1>15
    <3>2. k \in I /\ k >= i + d /\ \A s : s \in o[k] => s \in o[i]
      BY <1>15
    <3>3. t \in I /\ t > k
      BY <3>1, <3>2
    <3>4. \A s : s \in o[t] => s \in o[k]
      BY <3>1, <3>2 DEF Unions
    <3>5. t >= i + (d + 1)
      <4>1. t \in Int /\ k \in Int /\ i \in Int
        BY <3>2, <3>3
      <4> QED
        BY <3>2, <3>3, <4>1
    <3> QED
      BY <3>2, <3>3, <3>4, <3>5
  <2> QED
    BY <2>1, <2>2
<1> HIDE DEF Lv, I
<1>16. ASSUME NEW d \in Nat, Down(d), Up(d) PROVE Up(d + 1)
  <2> SUFFICES ASSUME NEW s \in o[i], ~ Seen(d + 1, s) PROVE \E k \in Lv(d + 1) : s \in o[k]
    OBVIOUS
  <2>1. \A e \in 0 .. d - 1 : e \in 0 .. (d + 1) - 1
    OBVIOUS
  <2>2. d \in 0 .. (d + 1) - 1
    OBVIOUS
  <2>3. ~ Seen(d, s) /\ \A k \in Lv(d) : s \notin Class(h, k)
    BY <2>1, <2>2
  <2> HIDE DEF Seen
  <2>4. PICK k \in Lv(d) : s \in o[k]
    BY <1>16, <2>3
  <2>5. k \in I
    BY <1>16
  <2>6. PICK t \in Offspring(h, k) : s \in o[t]
    BY <2>3, <2>4, <2>5 DEF Unions, I
  <2>7. t \in Lv(d + 1)
    BY <1>13, <1>16, <2>6
  <2> QED
    BY <2>6, <2>7
<1> HIDE DEF Down, Up
<1>17. \A d \in Nat : Down(d) /\ Up(d)
  <2> DEFINE Both == {d \in Nat : Down(d) /\ Up(d)}
  <2>1. 0 \in Both
    BY <1>14
  <2>2. \A d \in Nat : d \in Both => d + 1 \in Both
    BY <1>15, <1>16
  <2>3. Nat \subseteq Both
    <3> HIDE DEF Both
    <3> QED
      BY <2>1, <2>2, NumberInduction
  <2> QED
    BY <2>3
<1>18. \A d \in 1 .. n : level[d - 1] \in J
  <2>1. \A d \in 1 .. n : d - 1 \in Nat
    BY <1>1
  <2> QED
    BY <1>17, <2>1 DEF Down
<1>19. /\ family \in Seq(I)
       /\ \A k : k \in ToSet(family) <=> \E d \in 1 .. n : k \in Lv(d - 1)
  <2> DEFINE ss == [d \in 1 .. n |-> level[d - 1]]
  <2>1. ss \in [1 .. n -> Seq(I)] /\ \A d \in 1 .. n : ss[d] = level[d - 1]
    BY <1>18 DEF J
  <2> HIDE DEF ss, n
  <2>a. ss \in [1 .. n -> Seq(I)] 
    BY <2>1
  <2>b. n \in Nat
    BY <1>1 DEF n
  <2>2. FlattenSeq(ss) \in Seq(I) /\ ToSet(FlattenSeq(ss)) = UNION {ToSet(ss[d]) : d \in 1 .. n}
    BY <2>a, <2>b, FlattenedItems
  <2>3. \A k : k \in ToSet(FlattenSeq(ss)) <=> \E d \in 1 .. n : k \in ToSet(ss[d])
    BY <2>2
  <2> QED
    BY <2>1, <2>2, <2>3 DEF Lv, ss
<1> HIDE DEF family
<1>20. all \in Seq(Q) /\ \A s : s \in ToSet(all) <=> \E k \in ToSet(family) : s \in ToSet(h.lists[k])
  <2> DEFINE l == h.lists
  <2>1. l \in [I -> Seq(Q)]
    BY <1>2
  <2>a. all = Rows(l, family)
    BY DEF Rows
  <2>b. family \in Seq(I)
    BY <1>19
  <2> HIDE DEF l, all
  <2>c. Rows(l, family) \in Seq(Q) /\ InRows(Rows(l, family), l, family)
    BY <2>1, <2>b, FlattenedBy
  <2>2. all \in Seq(Q) /\ InRows(all, l, family)
    BY <2>a, <2>c
  <2> QED
    BY <2>2 DEF l, InRows
<1> HIDE DEF all
<1>21. Reverse(all) \in Seq(Q) /\ ToSet(Reverse(all)) = ToSet(all)
  BY <1>20, ReverseItems
<1>22. \A s : s \in ToSet(all) <=> \E d \in 1 .. n : \E k \in Lv(d - 1) : s \in Class(h, k)
  BY <1>19, <1>20 DEF Class
<1>23. ASSUME NEW s, s \in ToSet(all) PROVE s \in o[i]
  <2>1. PICK d \in 1 .. n : \E k \in Lv(d - 1) : s \in Class(h, k)
    BY <1>22, <1>23
  <2>2. PICK k \in Lv(d - 1) : s \in Class(h, k)
    BY <2>1
  <2>3. d - 1 \in Nat
    BY <1>1
  <2>4. k \in I /\ \A t : t \in o[k] => t \in o[i]
    BY <1>17, <2>3 DEF Down
  <2>5. s \in o[k]
    BY <2>2, <2>4 DEF Unions, I
  <2> QED
    BY <2>4, <2>5
<1>24. ASSUME NEW s, s \in o[i] PROVE s \in ToSet(all)
  <2>1. Lv(n) = {}
    <3> SUFFICES ASSUME NEW k \in Lv(n) PROVE FALSE
      OBVIOUS
    <3>1. k \in I /\ k >= i + n
      BY <1>1, <1>17 DEF Down
    <3>2. k <= n /\ i >= 1 /\ k \in Int /\ i \in Int
      BY <3>1 DEF I
    <3> QED
      BY <1>1, <3>1, <3>2
  <2>2. Seen(n, s)
    BY <1>1, <1>17, <1>24, <2>1 DEF Up
  <2>3. PICK e \in 0 .. n - 1 : \E k \in Lv(e) : s \in Class(h, k)
    BY <2>2 DEF Seen
  <2> DEFINE d == e + 1
  <2>4. d \in 1 .. n /\ d - 1 = e
    BY <1>1
  <2> HIDE DEF d
  <2> QED
    BY <1>22, <2>3, <2>4
<1> QED
  BY <1>11, <1>21, <1>23, <1>24

(* A split leaves lists that have nothing in common.                         *)
LEMMA SplitStaysApart ==
    ASSUME NEW Q, NEW h, Apart(h), NEW P, NEW g, NEW par, Split(Q, h, g, P, par)
    PROVE  Apart(g)
<1>1. Parents(h, g, par) /\ Refines(h, g, par) /\ Divided(h, g, par, P)
  BY DEF Split
<1>2. \A k \in 1 .. Len(g.lists) : par[k] \in 1 .. Len(h.lists) /\ Class(g, k) \subseteq Class(h, par[k])
  BY <1>1 DEF Parents, Refines
<1> SUFFICES ASSUME NEW i \in 1 .. Len(g.lists), NEW k \in 1 .. Len(g.lists), NEW s,
                    s \in Class(g, i), s \in Class(g, k), i # k
             PROVE  FALSE
  BY DEF Apart
<1>3. s \in Class(h, par[i]) /\ s \in Class(h, par[k])
  BY <1>2
<1>4. par[i] = par[k]
  BY <1>2, <1>3 DEF Apart
<1> QED
  BY <1>1, <1>4 DEF Divided

(* The records a partition is made of, and those whose lists are apart.      *)
Kinds(Q) == [lists : Seq(Seq(Q)), waiting : Seq(Nat), children : Seq(Seq(Nat))]
Sorts(Q) == {h \in Kinds(Q) : Listed(Q, h) /\ Apart(h)}

(* SplitWith() goes from one of them to another.                             *)
LEMMA SplitStaysListed ==
    ASSUME NEW c, NEW b \in Nat, Bounded(c, b), NEW h \in Sorts(states(c)), NEW S \in Seq(states(c)), NEW x
    PROVE  SplitWith(c, h, S, x) \in Sorts(states(c))
<1> DEFINE Q == states(c)
           g == SplitWith(c, h, S, x)
<1>1. Listed(Q, h) /\ Apart(h)
  BY DEF Sorts
<1>2. PICK par : Split(Q, h, g, Pre(c, ToSet(S), x), par)
  BY <1>1, SplitWithSplits
<1>3. g = [lists |-> g.lists, waiting |-> g.waiting, children |-> g.children]
  <2> DEFINE before == Into(c, S, x)
             a == SplitBy(h, before, PartedBy(h, before), OrderOf(h, before))
  <2>1. g = a
    BY SplitByThem
  <2> HIDE DEF before, g
  <2>2. a = [lists |-> a.lists, waiting |-> a.waiting, children |-> a.children]
    BY DEF SplitBy
  <2> HIDE DEF a
  <2> QED
    BY <2>1, <2>2
<1> HIDE DEF g
<1>4. Listed(Q, g)
  BY <1>2 DEF Split
<1>5. Apart(g)
  BY <1>1, <1>2, SplitStaysApart
<1>6. g.lists \in Seq(Seq(Q)) /\ g.waiting \in Seq(Nat) /\ g.children \in Seq(Seq(Nat))
  BY <1>4 DEF Listed
<1>7. g \in Kinds(Q)
  BY <1>3, <1>6 DEF Kinds
<1> QED
  BY <1>4, <1>5, <1>7 DEF Sorts, g

(* Between two rounds: p lists have been split with.                         *)
Between(c, h, o, p) ==
    /\ h \in Kinds(states(c)) /\ Partitions(c, h) /\ Family(c, h, o)
    /\ p \in 0 .. Len(h.lists) /\ h.waiting = Following(p, Len(h.lists))
    /\ Settled(c, h, o, p)
    /\ p = 0 => Class(h, 1) = states(c) \ c.final

(* The first that waits, and those behind it.                                *)
LEMMA HeadAndTail ==
    ASSUME NEW p \in Nat, NEW n \in Nat, p < n
    PROVE  /\ Head(Following(p, n)) = p + 1 /\ Tail(Following(p, n)) = Following(p + 1, n)
           /\ Tail(Following(p, n)) \in Seq(Nat)
<1> DEFINE v == Following(p, n)
           w == Following(p + 1, n)
<1>1. /\ v \in Seq(Nat) /\ Len(v) = n - p /\ v = [k \in 1 .. n - p |-> p + k]
      /\ w \in Seq(Nat) /\ Len(w) = n - (p + 1) /\ w = [k \in 1 .. n - (p + 1) |-> (p + 1) + k]
  <2>1. p + 1 \in Nat /\ p + 1 <= n /\ p <= n /\ n <= n
    OBVIOUS
  <2>2. v \in Seq(Nat) /\ Len(v) = n - p
    BY <2>1, FollowingJoined
  <2>3. w \in Seq(Nat) /\ Len(w) = n - (p + 1)
    BY <2>1, FollowingJoined
  <2> QED
    BY <2>2, <2>3 DEF Following
<1>2. n - p >= 1 /\ 1 \in 1 .. n - p /\ n - p \in Nat /\ n - (p + 1) = (n - p) - 1
  OBVIOUS
<1>3. \A k \in 1 .. n - (p + 1) : k + 1 \in 1 .. n - p /\ p + (k + 1) = (p + 1) + k
  OBVIOUS
<1>4. v[1] = p + 1 /\ \A k \in 1 .. n - (p + 1) : v[k + 1] = w[k]
  <2>1. v[1] = p + 1
    BY <1>1, <1>2
  <2>2. ASSUME NEW k \in 1 .. n - (p + 1) PROVE v[k + 1] = w[k]
    <3> DEFINE j == k + 1
    <3>1. j \in 1 .. n - p /\ p + j = (p + 1) + k
      BY <1>3
    <3> HIDE DEF j, v, w
    <3>2. v[j] = p + j /\ w[k] = (p + 1) + k
      BY <1>1, <3>1
    <3> QED
      BY <3>1, <3>2 DEF j
  <2> QED
    BY <2>1, <2>2
<1> HIDE DEF v, w
<1>5. v # <<>>
  BY <1>1, <1>2, EmptySeq
<1>6. Head(v) = v[1]
  BY <1>1
<1>7. Tail(v) \in Seq(Nat) /\ Len(Tail(v)) = Len(v) - 1 /\ \A k \in 1 .. Len(Tail(v)) : Tail(v)[k] = v[k + 1]
  BY <1>1, <1>5, HeadTailProperties
<1>8. Len(Tail(v)) = Len(w)
  BY <1>1, <1>2, <1>7
<1>9. \A k \in 1 .. Len(Tail(v)) : Tail(v)[k] = w[k]
  BY <1>1, <1>4, <1>7, <1>8
<1>10. Tail(v) = w
  BY <1>1, <1>7, <1>8, <1>9, SeqEqual
<1> QED
  BY <1>4, <1>6, <1>7, <1>10 DEF v, w

(* A round begins with the next list and all split off from it.              *)
LEMMA RoundBegins ==
    ASSUME NEW c, Total(c), NEW h, NEW o, NEW p, Between(c, h, o, p), h.waiting # <<>>
    PROVE  LET S == Gathered(h, Head(h.waiting))
               a == [h EXCEPT !.waiting = Tail(@)]
           IN  /\ S \in Seq(states(c)) /\ During(c, a, o, p + 1, ToSet(S), {})
               /\ a \in Sorts(states(c))
<1> DEFINE Q == states(c)
           n == Len(h.lists)
           S == Gathered(h, Head(h.waiting))
           B == ToSet(S)
           a == [h EXCEPT !.waiting = Tail(@)]
<1>1. /\ h \in Kinds(Q) /\ Partitions(c, h) /\ Family(c, h, o) /\ Listed(Q, h) /\ Apart(h)
      /\ Unions(h, o)
  BY DEF Between, Partitions, Family
<1>2. n \in Nat /\ n >= 2
  BY <1>1, ListedMeans
<1>3. p \in 0 .. n /\ h.waiting = Following(p, n) /\ p \in Nat
  BY <1>2 DEF Between
<1>4. p < n
  <2>1. h.waiting \in Seq(Nat) /\ Len(h.waiting) = n - p
    <3>1. p <= n /\ n <= n
      BY <1>2, <1>3
    <3> HIDE DEF n
    <3> QED
      BY <1>2, <1>3, <3>1, FollowingJoined
  <2>2. Len(h.waiting) # 0
    BY <2>1, EmptySeq
  <2> QED
    BY <1>2, <1>3, <2>1, <2>2
<1>5. /\ Head(h.waiting) = p + 1 /\ Tail(h.waiting) = Following(p + 1, n)
      /\ Tail(h.waiting) \in Seq(Nat)
  <2> HIDE DEF n
  <2> QED
    BY <1>2, <1>3, <1>4, HeadAndTail
<1>6. /\ a \in Kinds(Q) /\ a.lists = h.lists /\ a.children = h.children
      /\ a.waiting = Following(p + 1, n)
  BY <1>1, <1>5 DEF Kinds
<1> HIDE DEF a
<1>7. p + 1 \in 1 .. n
  BY <1>2, <1>3, <1>4
<1>8. S \in Seq(Q) /\ \A s : s \in B <=> s \in o[p + 1]
  <2> DEFINE i == p + 1
  <2>1. i \in 1 .. Len(h.lists) /\ S = Gathered(h, i)
    BY <1>5, <1>7
  <2>2. \A e \in 1 .. Len(h.lists) : \A k \in Offspring(h, e) : k \in 1 .. Len(h.lists) /\ k > e
    BY <1>1 DEF Family
  <2> HIDE DEF S, i
  <2>3. Gathered(h, i) \in Seq(Q) /\ \A s : s \in ToSet(Gathered(h, i)) <=> s \in o[i]
    BY <1>1, <2>1, <2>2, GatheredItems
  <2> QED
    BY <2>1, <2>3 DEF i
<1> HIDE DEF S
<1>9. \A i : Class(a, i) = Class(h, i) /\ Offspring(a, i) = Offspring(h, i)
  BY <1>6 DEF Class, Offspring
<1>10. Partitions(c, a)
  <2>1. Listed(Q, a)
    BY <1>1, <1>5, <1>6 DEF Listed
  <2> QED
    BY <1>1, <1>6, <1>9, <2>1 DEF Partitions, Apart, ToldApart
<1>11. Family(c, a, o)
  <2>1. Splitters(c, a, o) = Splitters(c, h, o)
    BY <1>6 DEF Splitters
  <2>2. Unions(a, o)
    BY <1>1, <1>6, <1>9 DEF Unions
  <2> QED
    BY <1>1, <1>6, <1>9, <2>1, <2>2 DEF Family
<1>12. \A W, x : Steady(c, h, W, x) => Steady(c, a, W, x)
  BY <1>6, <1>9 DEF Steady
<1>13. Settled(c, a, o, (p + 1) - 1)
  <2>1. (p + 1) - 1 = p
    BY <1>3
  <2>2. Settled(c, h, o, p)
    BY DEF Between
  <2>3. Settled(c, a, o, p)
    BY <1>6, <1>12, <2>2 DEF Settled
  <2> QED
    BY <2>1, <2>3
<1>14. B = o[p + 1]
  <2> DEFINE C == o[p + 1]
  <2> HIDE DEF C, B
  <2>1. \A s : s \in B <=> s \in C
    BY <1>8 DEF C, B
  <2>2. B = C
    BY <2>1
  <2> QED
    BY <2>2 DEF C
<1>15. \A i \in 1 .. Len(a.lists) : Whole(Class(a, i), B)
  BY <1>1, <1>6, <1>7, <1>9, <1>14 DEF Family
<1>16. p + 1 = 1 => B = Q \ c.final
  <2> HAVE p + 1 = 1
  <2>1. p = 0 /\ Class(h, 1) = Q \ c.final
    BY <1>3 DEF Between
  <2>2. 1 \in 1 .. n /\ Offspring(h, 1) = {}
    BY <1>1, <1>2 DEF Family
  <2>3. \A s : s \in o[1] <=> s \in Class(h, 1)
    BY <1>1, <2>2 DEF Unions
  <2> HIDE DEF B
  <2> QED
    BY <1>8, <2>1, <2>3 DEF B
<1>17. During(c, a, o, p + 1, B, {})
  BY <1>6, <1>7, <1>10, <1>11, <1>13, <1>14, <1>15, <1>16 DEF During
<1>18. a \in Sorts(Q)
  BY <1>6, <1>10 DEF Sorts, Partitions
<1> QED
  BY <1>8, <1>17, <1>18 DEF S, a

(* A round splits with every letter.                                         *)
LEMMA RoundSplits ==
    ASSUME NEW c, Total(c), NEW h, NEW o, NEW p, Between(c, h, o, p), h.waiting # <<>>
    PROVE  /\ SplitWithNext(c, h) \in Sorts(states(c))
           /\ \E B, q : During(c, SplitWithNext(c, h), q, p + 1, B, labels(c))
<1> DEFINE Q == states(c)
           H == Sorts(Q)
           S == Gathered(h, Head(h.waiting))
           B == ToSet(S)
           a == [h EXCEPT !.waiting = Tail(@)]
           X == Ascending(labels(c))
           m == Len(X)
           Step(k, e) == SplitWith(c, e, S, X[k])
           g == [y \in Nat \X H |-> Step(y[1] + 1, y[2])]
           Is(l) == l = [k \in Nat |-> IF k = 0 THEN a ELSE Step(k, l[k - 1])]
           after == CHOOSE l : Is(l)
<1>1. PICK b \in Nat : Bounded(c, b)
  BY DEF Total, Usual
<1>2. S \in Seq(Q) /\ During(c, a, o, p + 1, B, {}) /\ a \in H
  BY RoundBegins
<1>3. labels(c) \in SUBSET Int /\ IsFiniteSet(labels(c))
  <2>1. Finite(c)
    BY UsualIsFinite DEF Total
  <2> QED
    BY <2>1, FiniteStates
<1>4. X \in Seq(labels(c)) /\ ToSet(X) = labels(c)
  <2> DEFINE T == labels(c)
  <2>1. T \in SUBSET T /\ T \in SUBSET Int /\ IsFiniteSet(T)
    BY <1>3
  <2> HIDE DEF T
  <2>2. Ascending(T) \in Seq(T) /\ ToSet(Ascending(T)) = T
    BY <2>1, AscendingItems
  <2> QED
    BY <2>2 DEF T
<1>5. SplitWithNext(c, h) = after[m]
  BY DEF SplitWithNext
<1> HIDE DEF S, a, X
<1>6. ASSUME NEW e \in H, NEW k PROVE Step(k, e) \in H
  BY <1>1, <1>2, SplitStaysListed
<1>7. m \in Nat /\ DOMAIN X = 1 .. m /\ \A k \in 1 .. m : X[k] \in labels(c)
  BY <1>4, LenProperties, ElementOfSeq
<1> HIDE DEF H, m
<1>8. ASSUME NEW k \in 1 .. m, NEW e, NEW q, NEW Y, During(c, e, q, p + 1, B, Y)
      PROVE  \E r : During(c, Step(k, e), r, p + 1, B, Y \cup {X[k]})
  <2>1. X[k] \in labels(c)
    BY <1>7
  <2>2. S \in Seq(Q)
    BY <1>2
  <2> DEFINE x == X[k]
             u == p + 1
  <2>3. x \in labels(c) /\ During(c, e, q, u, ToSet(S), Y)
    BY <1>8, <2>1
  <2> HIDE DEF x, u
  <2>4. \E r : During(c, SplitWith(c, e, S, x), r, u, ToSet(S), Y \cup {x})
    BY <2>2, <2>3, SplitStep
  <2> QED
    BY <2>4 DEF x, u
<1> HIDE DEF Step
<1>9. g \in [Nat \X H -> H] /\ \A k \in Nat, e \in H : g[<<k, e>>] = Step(k + 1, e)
  <2>1. \A y \in Nat \X H : Step(y[1] + 1, y[2]) \in H
    BY <1>6
  <2> QED
    BY <2>1
<1> HIDE DEF g
<1>10. PICK f \in [Nat -> H] : IsIteration(f, a, g)
  BY <1>2, <1>9, Iterations
<1>11. f[0] = a /\ \A k \in Nat : f[k + 1] = Step(k + 1, f[k])
  BY <1>9, <1>10 DEF IsIteration
<1>12. Is(f)
  <2>1. ASSUME NEW d \in Nat PROVE f[d] = IF d = 0 THEN a ELSE Step(d, f[d - 1])
    <3>1. CASE d = 0
      BY <1>11, <3>1
    <3>2. CASE d # 0
      <4>1. d - 1 \in Nat /\ (d - 1) + 1 = d
        BY <3>2
      <4> DEFINE e == d - 1
      <4>2. f[e + 1] = Step(e + 1, f[e])
        <5> HIDE DEF e
        <5> QED
          BY <1>11, <4>1 DEF e
      <4> QED
        BY <3>2, <4>1, <4>2
    <3> QED
      BY <3>1, <3>2
  <2>2. f = [d \in Nat |-> f[d]]
    BY <1>10
  <2> QED
    BY <2>1, <2>2
<1>13. Is(after)
  <2> HIDE DEF Is
  <2> QED
    BY <1>12
<1> HIDE DEF after
<1>14. \A d \in Nat : after[d] = IF d = 0 THEN a ELSE Step(d, after[d - 1])
  BY <1>13
<1>15. after[0] = a /\ \A d \in Nat : after[d + 1] = Step(d + 1, after[d])
  <2>1. \A d \in Nat : d + 1 \in Nat /\ d + 1 # 0 /\ (d + 1) - 1 = d
    OBVIOUS
  <2>2. ASSUME NEW d \in Nat PROVE after[d + 1] = Step(d + 1, after[d])
    <3> DEFINE e == d + 1
    <3>1. e \in Nat /\ e # 0 /\ e - 1 = d
      BY <2>1
    <3> HIDE DEF e
    <3>2. after[e] = Step(e, after[e - 1])
      BY <1>14, <3>1
    <3> QED
      BY <3>1, <3>2 DEF e
  <2>3. after[0] = a
    BY <1>14
  <2> QED
    BY <2>2, <2>3
<1> HIDE DEF Is
<1> DEFINE Y(d) == {X[k] : k \in 1 .. d}
           Made(d) == after[d] \in H /\ \E q : During(c, after[d], q, p + 1, B, Y(d))
           Good == {d \in Nat : d <= m => Made(d)}
<1>a. \A d \in Nat : d \in Good <=> (d <= m => Made(d))
  OBVIOUS
<1> HIDE DEF Good
<1>16. 0 \in Good
  <2>1. Y(0) = {}
    OBVIOUS
  <2>2. During(c, after[0], o, p + 1, B, Y(0))
    BY <1>2, <1>15, <2>1
  <2>3. Made(0)
    BY <1>2, <1>15, <2>2
  <2> HIDE DEF Made
  <2> QED
    BY <1>a, <2>3
<1>17. ASSUME NEW d \in Nat, d \in Good PROVE d + 1 \in Good
  <2>0. d + 1 \in Nat
    OBVIOUS
  <2> SUFFICES ASSUME d + 1 <= m PROVE Made(d + 1)
    <3> HIDE DEF Made
    <3> QED
      BY <1>a, <2>0
  <2>1. d <= m /\ d + 1 \in 1 .. m
    BY <1>7
  <2>a. Made(d)
    <3> HIDE DEF Made
    <3> QED
      BY <1>17, <1>a, <2>1
  <2>2. after[d] \in H /\ \E q : During(c, after[d], q, p + 1, B, Y(d))
    BY <2>a
  <2>3. after[d + 1] \in H
    BY <1>6, <1>15, <2>2
  <2>4. Y(d + 1) = Y(d) \cup {X[d + 1]}
    <3>1. \A k : k \in 1 .. d + 1 <=> k \in 1 .. d \/ k = d + 1
      OBVIOUS
    <3> QED
      BY <3>1
  <2>5. PICK q : During(c, after[d], q, p + 1, B, Y(d))
    BY <2>2
  <2> HIDE DEF Y
  <2>6. \E r : During(c, Step(d + 1, after[d]), r, p + 1, B, Y(d) \cup {X[d + 1]})
    BY <1>8, <2>1, <2>5
  <2>7. \E r : During(c, after[d + 1], r, p + 1, B, Y(d + 1))
    BY <1>15, <2>4, <2>6
  <2> QED
    BY <2>3, <2>7
<1>18. Nat \subseteq Good
  BY <1>16, <1>17, NumberInduction
<1>19. after[m] \in H /\ \E q : During(c, after[m], q, p + 1, B, Y(m))
  <2>1. m \in Good /\ m <= m
    BY <1>7, <1>18
  <2>2. Made(m)
    <3> HIDE DEF Made
    <3> QED
      BY <1>7, <1>a, <2>1
  <2> QED
    BY <2>2
<1>20. Y(m) = labels(c)
  BY <1>4, <1>7 DEF ToSet
<1> HIDE DEF Y, B
<1>21. \E q : During(c, after[m], q, p + 1, B, labels(c))
  BY <1>19, <1>20
<1> QED
  BY <1>5, <1>19, <1>21 DEF H

(* ... after which one more list has been split with.                        *)
LEMMA RoundEnds ==
    ASSUME NEW c, Total(c), NEW h, NEW o, NEW p, Between(c, h, o, p), h.waiting # <<>>
    PROVE  \E q : Between(c, SplitWithNext(c, h), q, p + 1)
<1> DEFINE g == SplitWithNext(c, h)
           Q == states(c)
<1>1. g \in Sorts(Q) /\ \E B, q : During(c, g, q, p + 1, B, labels(c))
  BY RoundSplits
<1> HIDE DEF g
<1>2. PICK B, q : During(c, g, q, p + 1, B, labels(c))
  BY <1>1
<1>3. g \in Kinds(Q)
  BY <1>1 DEF Sorts
<1>4. p \in Nat
  <2>1. Listed(Q, h)
    BY DEF Between, Partitions
  <2>2. Len(h.lists) \in Nat
    BY <2>1, ListedMeans
  <2> QED
    BY <2>2 DEF Between
<1>5. (p + 1) - 1 = p /\ p + 1 # 0
  BY <1>4
<1>6. Settled(c, g, q, p)
  BY <1>2, <1>5 DEF During
<1>7. \A x \in labels(c) : Steady(c, g, B, x)
  BY <1>2 DEF During
<1>8. Settled(c, g, q, p + 1)
  <2>1. p + 1 >= 1 => \A x \in labels(c) : Steady(c, g, Q \ c.final, x)
    <3>1. CASE p = 0
      <4>1. B = Q \ c.final
        BY <1>2, <3>1 DEF During
      <4> QED
        BY <1>7, <4>1
    <3>2. CASE p # 0
      <4>1. p >= 1
        BY <1>4, <3>2
      <4> QED
        BY <1>6, <4>1 DEF Settled
    <3> QED
      BY <3>1, <3>2
  <2>2. ASSUME NEW j \in 3 .. Len(g.lists), j <= p + 1, NEW x \in labels(c) PROVE Steady(c, g, q[j], x)
    <3>1. CASE j <= p
      BY <1>6, <3>1 DEF Settled
    <3>2. CASE ~ (j <= p)
      <4>1. j = p + 1 /\ p + 1 >= 3
        BY <1>4, <2>2, <3>2
      <4>2. B = q[j]
        BY <1>2, <4>1 DEF During
      <4> QED
        BY <1>7, <4>2
    <3> QED
      BY <3>1, <3>2
  <2> QED
    BY <2>1, <2>2 DEF Settled
<1>9. p + 1 \in 0 .. Len(g.lists)
  <2>1. p + 1 \in 1 .. Len(g.lists)
    BY <1>2 DEF During
  <2> QED
    BY <2>1
<1>10. Between(c, g, q, p + 1)
  BY <1>2, <1>3, <1>5, <1>8, <1>9 DEF Between, During
<1> QED
  BY <1>10 DEF g

(* The first two lists, the states that are final and those that are not.    *)
LEMMA FirstListsPart ==
    ASSUME NEW c, Total(c), c.final # {}
    PROVE  \E o : Between(c, FirstLists(c), o, 0)
<1> DEFINE Q == states(c)
           N == Q \ c.final
           h == FirstLists(c)
           p == Reverse(Ascending(N))
           q == Reverse(Ascending(c.final))
           o == [i \in 1 .. 2 |-> IF i = 1 THEN N ELSE c.final]
<1>1. PICK b \in Nat : Bounded(c, b)
  BY DEF Total, Usual
<1>2. Q \subseteq Int /\ IsFiniteSet(Q) /\ c.final \subseteq Q
  <2>1. 0 .. b \subseteq Int
    OBVIOUS
  <2> QED
    BY <1>1, <2>1, StatesBounded
<1>3. /\ N \in SUBSET Q /\ N \in SUBSET Int /\ IsFiniteSet(N)
      /\ c.final \in SUBSET Q /\ c.final \in SUBSET Int /\ IsFiniteSet(c.final)
  BY <1>2, FS_Subset
<1>4. p \in Seq(Q) /\ ToSet(p) = N
  <2> HIDE DEF N, Q
  <2>1. Ascending(N) \in Seq(Q) /\ ToSet(Ascending(N)) = N
    BY <1>3, AscendingItems
  <2> QED
    BY <2>1, ReverseItems
<1>5. q \in Seq(Q) /\ ToSet(q) = c.final
  <2> DEFINE F == c.final
  <2> HIDE DEF F, Q
  <2>1. Ascending(F) \in Seq(Q) /\ ToSet(Ascending(F)) = F
    <3>1. F \in SUBSET Q /\ F \in SUBSET Int /\ IsFiniteSet(F)
      BY <1>3 DEF F
    <3> QED
      BY <3>1, AscendingItems
  <2> QED
    BY <2>1, ReverseItems DEF F
<1>6. h = [lists |-> <<p, q>>, waiting |-> <<1, 2>>, children |-> << <<>>, <<>> >>]
  BY DEF FirstLists
<1> HIDE DEF p, q, h
<1>7. /\ h.lists = <<p, q>> /\ h.waiting = <<1, 2>> /\ h.children = << <<>>, <<>> >>
      /\ h = [lists |-> h.lists, waiting |-> h.waiting, children |-> h.children]
  BY <1>6
<1>8. h.lists \in Seq(Seq(Q)) /\ Len(h.lists) = 2 /\ h.lists[1] = p /\ h.lists[2] = q
  <2> DEFINE R == Seq(Q)
  <2>1. p \in R /\ q \in R
    BY <1>4, <1>5
  <2> HIDE DEF R
  <2>2. <<p, q>> \in Seq(R) /\ Len(<<p, q>>) = 2
    BY <2>1
  <2> QED
    BY <1>7, <2>2 DEF R
<1>9. h.children \in Seq(Seq(Nat)) /\ Len(h.children) = 2 /\ h.children[1] = <<>> /\ h.children[2] = <<>>
  <2> DEFINE R == Seq(Nat)
             e == <<>>
  <2>1. e \in R
    OBVIOUS
  <2> HIDE DEF R, e
  <2>2. <<e, e>> \in Seq(R) /\ Len(<<e, e>>) = 2 /\ <<e, e>>[1] = e /\ <<e, e>>[2] = e
    BY <2>1
  <2> QED
    BY <1>7, <2>2 DEF R, e
<1>10. h.waiting \in Seq(Nat)
  BY <1>7
<1>11. Listed(Q, h) /\ h \in Kinds(Q)
  <2> DEFINE R == Seq(Seq(Q))
             C == Seq(Seq(Nat))
             W == Seq(Nat)
  <2>1. h.lists \in R /\ h.children \in C /\ h.waiting \in W /\ Len(h.lists) = 2 /\ Len(h.children) = 2
    BY <1>8, <1>9, <1>10
  <2>2. h = [lists |-> h.lists, waiting |-> h.waiting, children |-> h.children]
    BY <1>7
  <2> HIDE DEF R, C, W
  <2>3. h \in [lists : R, waiting : W, children : C]
    BY <2>1, <2>2
  <2>4. h \in Kinds(Q)
    BY <2>3 DEF Kinds, R, C, W
  <2>5. Listed(Q, h)
    BY <2>1 DEF Listed, R, C, W
  <2> QED
    BY <2>4, <2>5
<1>12. Class(h, 1) = N /\ Class(h, 2) = c.final /\ Offspring(h, 1) = {} /\ Offspring(h, 2) = {}
  <2>1. ToSet(<<>>) = {}
    BY DEF ToSet
  <2>2. Class(h, 1) = ToSet(p) /\ Class(h, 2) = ToSet(q)
    BY <1>8 DEF Class
  <2>3. Offspring(h, 1) = ToSet(<<>>) /\ Offspring(h, 2) = ToSet(<<>>)
    BY <1>9 DEF Offspring
  <2> HIDE DEF N
  <2> QED
    BY <1>4, <1>5, <2>1, <2>2, <2>3
<1>13. \A i : i \in 1 .. Len(h.lists) <=> i = 1 \/ i = 2
  BY <1>8
<1>14. Apart(h)
  BY <1>12, <1>13 DEF Apart
<1>15. ToldApart(c, h)
  <2>1. \A s \in N, t \in c.final : Beyond(c, s) # Beyond(c, t)
    <3> TAKE s \in N, t \in c.final
    <3>1. <<>> \in Beyond(c, s) <=> s \in c.final
      BY BeyondLetter
    <3>2. <<>> \in Beyond(c, t) <=> t \in c.final
      BY BeyondLetter
    <3> QED
      BY <3>1, <3>2
  <2> HIDE DEF N
  <2> QED
    BY <1>12, <1>13, <2>1 DEF ToldApart
<1>16. Partitions(c, h)
  <2>1. \A s \in Q : \E i \in 1 .. Len(h.lists) : s \in Class(h, i)
    BY <1>12, <1>13
  <2>2. \A i \in 1 .. Len(h.lists) : Whole(Class(h, i), c.final)
    BY <1>12, <1>13 DEF Whole
  <2>3. \A i \in 1 .. Len(h.lists) : i >= 2 => Class(h, i) # {}
    BY <1>12, <1>13
  <2> QED
    BY <1>11, <1>14, <1>15, <2>1, <2>2, <2>3 DEF Partitions
<1>17. o[1] = N /\ o[2] = c.final
  OBVIOUS
<1> HIDE DEF o
<1>18. Unions(h, o)
  BY <1>12, <1>13, <1>17 DEF Unions
<1>19. \A i, k \in 1 .. Len(h.lists) : i # k =>
          \E B \in Splitters(c, h, o) : Parting(Class(h, i), Class(h, k), B)
  <2>1. N \in Splitters(c, h, o)
    BY DEF Splitters
  <2>2. Parting(N, c.final, N) /\ Parting(c.final, N, N)
    BY DEF Parting
  <2> HIDE DEF N
  <2> QED
    BY <1>12, <1>13, <2>1, <2>2
<1>20. \A i, j \in 1 .. Len(h.lists) : Whole(Class(h, i), o[j])
  BY <1>12, <1>13, <1>17 DEF Whole
<1>21. Family(c, h, o)
  BY <1>12, <1>13, <1>18, <1>19, <1>20 DEF Family
<1>22. Settled(c, h, o, 0)
  BY <1>8 DEF Settled
<1>23. h.waiting = Following(0, Len(h.lists))
  <2>1. Following(0, 2) = [k \in 1 .. 2 |-> 0 + k]
    BY DEF Following
  <2>2. [k \in 1 .. 2 |-> 0 + k] = <<1, 2>>
    OBVIOUS
  <2> QED
    BY <1>7, <1>8, <2>1, <2>2
<1>24. Between(c, h, o, 0)
  <2>1. 0 \in 0 .. Len(h.lists)
    BY <1>8
  <2> QED
    BY <1>11, <1>12, <1>16, <1>21, <1>22, <1>23, <2>1 DEF Between
<1> QED
  BY <1>24 DEF h

(* There is at most one list more than there are states.                     *)
LEMMA ListsAreFew ==
    ASSUME NEW c, Total(c), NEW h, Partitions(c, h)
    PROVE  /\ Len(h.lists) <= number_of_states(c) + 1
           /\ Len(h.lists) \in Nat /\ Len(h.lists) >= 2 /\ number_of_states(c) \in Nat
<1> DEFINE Q == states(c)
           n == Len(h.lists)
           f == [i \in 2 .. n |-> CHOOSE s \in Q : s \in Class(h, i)]
<1>1. IsFiniteSet(Q) /\ Cardinality(Q) \in Nat
  <2>1. IsFiniteSet(Q)
    BY StatesBounded DEF Total, Usual
  <2> HIDE DEF Q
  <2> QED
    BY <2>1, FS_CardinalityType
<1>2. n \in Nat /\ n >= 2 /\ \A i \in 1 .. n : Class(h, i) \subseteq Q
  BY ListedMeans DEF Partitions
<1>3. ASSUME NEW i \in 2 .. n PROVE f[i] \in Q /\ f[i] \in Class(h, i)
  <2>1. i \in 1 .. n /\ i >= 2
    BY <1>2
  <2>2. \E s \in Q : s \in Class(h, i)
    BY <1>2, <2>1 DEF Partitions
  <2> QED
    BY <2>2
<1> HIDE DEF Q
<1>4. f \in [2 .. n -> Q]
  BY <1>3
<1> HIDE DEF f
<1>5. \A i, k \in 2 .. n : f[i] = f[k] => i = k
  <2> TAKE i \in 2 .. n, k \in 2 .. n
  <2>1. i \in 1 .. n /\ k \in 1 .. n
    BY <1>2
  <2> QED
    BY <1>3, <2>1 DEF Partitions, Apart
<1>6. f \in Injection(2 .. n, Q)
  BY <1>4, <1>5 DEF Injection, IsInjective
<1>7. Cardinality(2 .. n) <= Cardinality(Q)
  BY <1>1, <1>6, FS_Injection
<1>8. Cardinality(2 .. n) = n - 1
  <2>1. 2 \in Int /\ n \in Int /\ ~ (2 > n)
    BY <1>2
  <2>2. Cardinality(2 .. n) = n - 2 + 1
    BY <2>1, FS_Interval
  <2> QED
    BY <1>2, <2>2
<1> QED
  BY <1>1, <1>2, <1>7, <1>8 DEF Q, number_of_states

(* After as many rounds as there are lists every list has been split with.   *)
LEMMA RoundsEnd ==
    ASSUME NEW c, Total(c), c.final # {}
    PROVE  \E h, o : h.lists = Partition(c) /\ Between(c, h, o, Len(h.lists))
<1> DEFINE Q == states(c)
           H == {h \in Kinds(Q) : \E o, p : Between(c, h, o, p)}
           On(h) == IF h.waiting = <<>> THEN h ELSE SplitWithNext(c, h)
           g == [y \in Nat \X H |-> On(y[2])]
           a == FirstLists(c)
           Is(l) == l = [i \in Nat |-> IF i = 0 THEN a ELSE On(l[i - 1])]
           round == CHOOSE l : Is(l)
           m == number_of_states(c) + 1
<1>1. a \in H
  <2>1. \E o : Between(c, a, o, 0)
    BY FirstListsPart
  <2> HIDE DEF a
  <2> QED
    BY <2>1 DEF Between
<1>2. ASSUME NEW h \in H PROVE On(h) \in H
  <2>1. CASE h.waiting = <<>>
    BY <2>1
  <2>2. CASE h.waiting # <<>>
    <3>1. PICK o, p : Between(c, h, o, p)
      OBVIOUS
    <3>2. \E q : Between(c, SplitWithNext(c, h), q, p + 1)
      BY <2>2, <3>1, RoundEnds
    <3>3. SplitWithNext(c, h) \in Kinds(Q)
      BY <3>2 DEF Between
    <3> QED
      BY <2>2, <3>2, <3>3
  <2> QED
    BY <2>1, <2>2
<1>3. \A h : h \in H => \E o, p : Between(c, h, o, p)
  OBVIOUS
<1>4. Partition(c) = round[m].lists
  BY DEF Partition
<1> HIDE DEF H
<1>5. \A h : \A o, p : Between(c, h, o, p) /\ h.waiting = <<>> => p = Len(h.lists)
  <2> SUFFICES ASSUME NEW h, NEW o, NEW p, Between(c, h, o, p), h.waiting = <<>> PROVE p = Len(h.lists)
    OBVIOUS
  <2>1. Len(h.lists) \in Nat
    BY ListsAreFew DEF Between
  <2>2. p \in 0 .. Len(h.lists) /\ h.waiting = Following(p, Len(h.lists))
    BY DEF Between
  <2>3. p \in Nat /\ p <= Len(h.lists)
    BY <2>1, <2>2
  <2> DEFINE n == Len(h.lists)
  <2>4. n <= n
    BY <2>1
  <2> HIDE DEF n
  <2>5. Len(Following(p, n)) = n - p
    BY <2>1, <2>3, <2>4, FollowingJoined DEF n
  <2>6. Len(<<>>) = 0
    OBVIOUS
  <2> QED
    BY <2>1, <2>2, <2>3, <2>5, <2>6 DEF n
<1>6. g \in [Nat \X H -> H] /\ \A i \in Nat, h \in H : g[<<i, h>>] = On(h)
  <2> HIDE DEF On
  <2>1. \A y \in Nat \X H : On(y[2]) \in H
    BY <1>2
  <2> QED
    BY <2>1
<1> HIDE DEF g, a
<1>7. PICK f \in [Nat -> H] : IsIteration(f, a, g)
  BY <1>1, <1>6, Iterations
<1>8. f[0] = a /\ \A i \in Nat : f[i + 1] = On(f[i])
  <2> HIDE DEF On
  <2> QED
    BY <1>6, <1>7 DEF IsIteration
<1> HIDE DEF On
<1>9. Is(f)
  <2>1. ASSUME NEW d \in Nat PROVE f[d] = IF d = 0 THEN a ELSE On(f[d - 1])
    <3>1. CASE d = 0
      BY <1>8, <3>1
    <3>2. CASE d # 0
      <4>1. d - 1 \in Nat /\ (d - 1) + 1 = d
        BY <3>2
      <4> DEFINE e == d - 1
      <4>2. f[e + 1] = On(f[e])
        <5> HIDE DEF e
        <5> QED
          BY <1>8, <4>1 DEF e
      <4> QED
        BY <3>2, <4>1, <4>2
    <3> QED
      BY <3>1, <3>2
  <2>2. f = [d \in Nat |-> f[d]]
    BY <1>7
  <2> QED
    BY <2>1, <2>2
<1>10. Is(round)
  <2> HIDE DEF Is
  <2> QED
    BY <1>9
<1> HIDE DEF round
<1>11. \A d \in Nat : round[d] = IF d = 0 THEN a ELSE On(round[d - 1])
  BY <1>10
<1> HIDE DEF Is
<1>12. round[0] = a /\ \A d \in Nat : round[d + 1] = On(round[d])
  <2>1. \A d \in Nat : d + 1 \in Nat /\ d + 1 # 0 /\ (d + 1) - 1 = d
    OBVIOUS
  <2>2. ASSUME NEW d \in Nat PROVE round[d + 1] = On(round[d])
    <3> DEFINE e == d + 1
    <3>1. e \in Nat /\ e # 0 /\ e - 1 = d
      BY <2>1
    <3> HIDE DEF e
    <3>2. round[e] = On(round[e - 1])
      BY <1>11, <3>1
    <3> QED
      BY <3>1, <3>2 DEF e
  <2>3. round[0] = a
    BY <1>11
  <2> QED
    BY <2>2, <2>3
<1> DEFINE Made(i) == \E o, p : Between(c, round[i], o, p) /\ (p >= i \/ p = Len(round[i].lists))
           Good == {i \in Nat : Made(i)}
<1>13. \A i : i \in Good <=> i \in Nat /\ Made(i)
  OBVIOUS
<1> HIDE DEF Good
<1>14. 0 \in Good
  <2>1. \E o : Between(c, a, o, 0)
    BY FirstListsPart DEF a
  <2>2. Made(0)
    BY <1>12, <2>1
  <2> QED
    BY <1>13, <2>2
<1>15. ASSUME NEW i \in Nat, i \in Good PROVE i + 1 \in Good
  <2> DEFINE h == round[i]
  <2>a. Made(i + 1) => i + 1 \in Good
    <3>1. i + 1 \in Nat
      OBVIOUS
    <3> HIDE DEF Made
    <3> QED
      BY <1>13, <3>1
  <2>1. PICK o, p : Between(c, h, o, p) /\ (p >= i \/ p = Len(h.lists))
    BY <1>13, <1>15
  <2>2. round[i + 1] = On(h)
    BY <1>12
  <2> HIDE DEF h
  <2>3. Len(h.lists) \in Nat /\ p \in Nat
    <3>1. Len(h.lists) \in Nat
      BY <2>1, ListsAreFew DEF Between
    <3> QED
      BY <2>1, <3>1 DEF Between
  <2>4. CASE h.waiting = <<>>
    <3>1. On(h) = h /\ p = Len(h.lists)
      BY <1>5, <2>1, <2>4 DEF On
    <3>2. Made(i + 1)
      BY <2>1, <2>2, <3>1
    <3> QED
      BY <2>a, <3>2
  <2>5. CASE h.waiting # <<>>
    <3>1. PICK q : Between(c, SplitWithNext(c, h), q, p + 1)
      BY <2>1, <2>5, RoundEnds
    <3>2. On(h) = SplitWithNext(c, h)
      BY <2>5 DEF On
    <3>3. p >= i
      <4>1. p # Len(h.lists)
        <5> SUFFICES ASSUME p = Len(h.lists) PROVE FALSE
          OBVIOUS
        <5> DEFINE n == Len(h.lists)
        <5>1. h.waiting = Following(n, n) /\ n \in Nat /\ n <= n
          BY <2>1, <2>3 DEF Between
        <5> HIDE DEF n
        <5>2. h.waiting \in Seq(Nat) /\ Len(h.waiting) = n - n
          BY <5>1, FollowingJoined
        <5>3. n - n = 0
          BY <5>1
        <5> QED
          BY <2>5, <5>2, <5>3, EmptySeq
      <4> QED
        BY <2>1, <4>1
    <3>4. p + 1 >= i + 1
      BY <2>3, <3>3
    <3>5. Made(i + 1)
      BY <2>2, <3>1, <3>2, <3>4
    <3> QED
      BY <2>a, <3>5
  <2> QED
    BY <2>4, <2>5
<1>16. Nat \subseteq Good
  BY <1>14, <1>15, NumberInduction
<1>17. m \in Nat
  <2>1. \E o : Between(c, a, o, 0)
    BY FirstListsPart DEF a
  <2>2. Partitions(c, a)
    BY <2>1 DEF Between
  <2>3. number_of_states(c) \in Nat
    BY <2>2, ListsAreFew
  <2> QED
    BY <2>3
<1> DEFINE h == round[m]
<1>18. PICK o, p : Between(c, h, o, p) /\ (p >= m \/ p = Len(h.lists))
  BY <1>13, <1>16, <1>17
<1> HIDE DEF h
<1>19. Len(h.lists) <= m /\ Len(h.lists) \in Nat
  BY <1>18, ListsAreFew DEF Between
<1>20. p \in 0 .. Len(h.lists)
  BY <1>18 DEF Between
<1>21. p = Len(h.lists)
  BY <1>17, <1>18, <1>19, <1>20
<1>22. Between(c, h, o, Len(h.lists))
  BY <1>18, <1>21
<1>23. h.lists = Partition(c)
  BY <1>4 DEF h
<1> QED
  BY <1>22, <1>23

(* Then the lists are classes of states that lead alike.                     *)
Congruent(c, h) ==
    \A i \in 1 .. Len(h.lists) : \A s, t \in Class(h, i) : \A x, u, v :
        <<s, x, u>> \in c.arcs /\ <<t, x, v>> \in c.arcs =>
            \E k \in 1 .. Len(h.lists) : u \in Class(h, k) /\ v \in Class(h, k)

(* When nothing waits, every list was split with, and so the lists are       *)
(* such classes.                                                             *)
LEMMA PartitionLeadsAlike ==
    ASSUME NEW c, Total(c), c.final # {}
    PROVE  \E h : h.lists = Partition(c) /\ Partitions(c, h) /\ Congruent(c, h)
<1>1. PICK h, o : h.lists = Partition(c) /\ Between(c, h, o, Len(h.lists))
  BY RoundsEnd
<1> DEFINE n == Len(h.lists)
           Q == states(c)
<1>2. Partitions(c, h) /\ Family(c, h, o) /\ Settled(c, h, o, n)
  BY <1>1 DEF Between
<1>3. n \in Nat /\ n >= 2
  BY <1>2, ListsAreFew
<1>4. \A B \in Splitters(c, h, o), x \in labels(c) : Steady(c, h, B, x)
  <2> TAKE B \in Splitters(c, h, o), x \in labels(c)
  <2>1. CASE B = Q \ c.final
    <3>1. n >= 1
      BY <1>3
    <3> QED
      BY <1>2, <2>1, <3>1 DEF Settled
  <2>2. CASE B # Q \ c.final
    <3>1. PICK j \in 1 .. n : j >= 3 /\ B = o[j]
      BY <2>2 DEF Splitters
    <3>2. j \in 3 .. n /\ j <= n
      BY <1>3, <3>1
    <3> QED
      BY <1>2, <3>1, <3>2 DEF Settled
  <2> QED
    BY <2>1, <2>2
<1>5. \A e \in c.arcs : e = <<e[1], e[2], e[3]>> /\ e[1] \in Q /\ e[2] \in labels(c) /\ e[3] \in Q
  BY StatesBounded DEF Total, Usual
<1>6. \A s, x, u : <<s, x, u>> \in c.arcs => s \in Q /\ x \in labels(c) /\ u \in Q
  <2> SUFFICES ASSUME NEW s, NEW x, NEW u, <<s, x, u>> \in c.arcs PROVE s \in Q /\ x \in labels(c) /\ u \in Q
    OBVIOUS
  <2> DEFINE e == <<s, x, u>>
  <2>1. e \in c.arcs /\ e[1] = s /\ e[2] = x /\ e[3] = u
    OBVIOUS
  <2> HIDE DEF e
  <2> QED
    BY <1>5, <2>1
<1>7. \A q, x, e, f : <<q, x, e>> \in c.arcs /\ <<q, x, f>> \in c.arcs => e = f
  <2> SUFFICES ASSUME NEW q, NEW x, NEW e, NEW f, <<q, x, e>> \in c.arcs, <<q, x, f>> \in c.arcs PROVE e = f
    OBVIOUS
  <2> DEFINE a == <<q, x, e>>
             d == <<q, x, f>>
  <2>1. a[1] = d[1] /\ a[2] = d[2] /\ a[3] = e /\ d[3] = f /\ a \in c.arcs /\ d \in c.arcs
    OBVIOUS
  <2> HIDE DEF a, d
  <2>2. a[3] = d[3]
    BY <2>1 DEF Total, Determinate
  <2> QED
    BY <2>1, <2>2
<1>8. ASSUME NEW i \in 1 .. n, NEW s \in Class(h, i), NEW t \in Class(h, i), NEW x, NEW u, NEW v,
             <<s, x, u>> \in c.arcs, <<t, x, v>> \in c.arcs,
             NEW B \in Splitters(c, h, o), u \in B
      PROVE  v \in B
  <2>1. s \in Q /\ t \in Q /\ x \in labels(c)
    BY <1>6, <1>8
  <2>2. s \in Pre(c, B, x)
    BY <1>8, <2>1 DEF Pre
  <2>3. Whole(Class(h, i), Pre(c, B, x))
    BY <1>4, <2>1 DEF Steady
  <2>4. t \in Pre(c, B, x)
    BY <2>2, <2>3 DEF Whole
  <2>5. PICK w \in B : <<t, x, w>> \in c.arcs
    BY <2>4 DEF Pre
  <2> QED
    BY <1>7, <1>8, <2>5
<1>9. Congruent(c, h)
  <2> SUFFICES ASSUME NEW i \in 1 .. n, NEW s \in Class(h, i), NEW t \in Class(h, i), NEW x, NEW u, NEW v,
                      <<s, x, u>> \in c.arcs, <<t, x, v>> \in c.arcs
               PROVE  \E k \in 1 .. n : u \in Class(h, k) /\ v \in Class(h, k)
    BY DEF Congruent
  <2>1. u \in Q /\ v \in Q
    BY <1>6
  <2>2. PICK k \in 1 .. n : u \in Class(h, k)
    BY <1>2, <2>1 DEF Partitions
  <2>3. PICK l \in 1 .. n : v \in Class(h, l)
    BY <1>2, <2>1 DEF Partitions
  <2>4. k = l
    <3> SUFFICES ASSUME k # l PROVE FALSE
      OBVIOUS
    <3>1. PICK B \in Splitters(c, h, o) : Parting(Class(h, k), Class(h, l), B)
      BY <1>2 DEF Family
    <3>2. u \in B => v \in B
      BY <1>8
    <3>3. v \in B => u \in B
      BY <1>8
    <3> QED
      BY <2>2, <2>3, <3>1, <3>2, <3>3 DEF Parting
  <2> QED
    BY <2>2, <2>3, <2>4
<1> QED
  BY <1>1, <1>2, <1>9

-----------------------------------------------------------------------------
(***************************************************************************)
(* Merging the states of a list: an image of a machine, whose states have  *)
(* the same words beyond them as those they stand for.                     *)
(***************************************************************************)

(* A machine and its image under a function of its states: the arcs of an    *)
(* image are the images of the arcs.                                         *)
Image(a, c, h) ==
    /\ \E s : a.start = {s} /\ c.start = {h[s]}
    /\ \A s \in states(a) : s \in a.final <=> h[s] \in c.final
    /\ \A s \in states(a), x \in Int : \A v :
          <<h[s], x, v>> \in c.arcs <=> \E t : <<s, x, t>> \in a.arcs /\ v = h[t]

(* A word leads from an image to the images of where it leads.               *)
LEMMA ImageSpells ==
    ASSUME NEW a, NEW b \in Nat, Bounded(a, b), NEW c, NEW h, Image(a, c, h), NEW s \in states(a)
    PROVE  \A w \in Seq(Int) : \A v :
              Spells(c, h[s], w, v) <=> \E t \in states(a) : Spells(a, s, w, t) /\ v = h[t]
<1> DEFINE Q == states(a)
           T == {w \in Seq(Int) : \A v :
                    Spells(c, h[s], w, v) <=> \E t \in Q : Spells(a, s, w, t) /\ v = h[t]}
<1>1. \A t, x, u : <<t, x, u>> \in a.arcs => u \in Q
  <2> SUFFICES ASSUME NEW t, NEW x, NEW u, <<t, x, u>> \in a.arcs PROVE u \in Q
    OBVIOUS
  <2> DEFINE e == <<t, x, u>>
  <2>1. e \in a.arcs /\ e[3] = u
    OBVIOUS
  <2> HIDE DEF e
  <2> QED
    BY <2>1, StatesBounded
<1> HIDE DEF Q
<1>2. \A t \in Q, x \in Int : \A v :
          <<h[t], x, v>> \in c.arcs <=> \E u : <<t, x, u>> \in a.arcs /\ v = h[u]
  BY DEF Image, Q
<1>3. <<>> \in T
  <2>1. \A v : Spells(c, h[s], <<>>, v) <=> v = h[s]
    BY SpellsAtOnce
  <2>2. \A t : Spells(a, s, <<>>, t) <=> t = s
    BY SpellsAtOnce
  <2>3. s \in Q
    BY DEF Q
  <2>4. <<>> \in Seq(Int)
    OBVIOUS
  <2> QED
    BY <2>1, <2>2, <2>3, <2>4
<1>4. ASSUME NEW w \in Seq(Int), NEW x \in Int, w \in T PROVE Append(w, x) \in T
  <2>1. \A v : Spells(c, h[s], w, v) <=> \E t \in Q : Spells(a, s, w, t) /\ v = h[t]
    BY <1>4
  <2>2. \A v : Spells(c, h[s], Append(w, x), v) <=> \E y : Spells(c, h[s], w, y) /\ <<y, x, v>> \in c.arcs
    BY SpellsByLetter, Zenon
  <2>3. \A t : Spells(a, s, Append(w, x), t) <=> \E y : Spells(a, s, w, y) /\ <<y, x, t>> \in a.arcs
    BY SpellsByLetter, Zenon
  <2>4. \A y : Spells(a, s, w, y) => y \in Q
    <3> SUFFICES ASSUME NEW y, Spells(a, s, w, y) PROVE y \in Q
      OBVIOUS
    <3> DEFINE z == [start |-> {s}, final |-> a.final, arcs |-> a.arcs]
    <3>1. Bounded(z, b) /\ z.arcs = a.arcs /\ z.start = {s} /\ z.final = a.final
      <4>1. s \in 0 .. b
        BY StatesBounded
      <4> QED
        BY <4>1 DEF Bounded
    <3> HIDE DEF z
    <3>2. Leads(z, w, y)
      BY <3>1 DEF Leads, Spells, Run
    <3>3. y \in states(z)
      BY <3>1, <3>2, LeadsToStates
    <3>4. states(z) \subseteq Q
      <4>1. states(z) = {s} \cup a.final \cup UNION {{t[1], t[3]} : t \in a.arcs}
        BY <3>1 DEF states
      <4>2. Q = a.start \cup a.final \cup UNION {{t[1], t[3]} : t \in a.arcs}
        BY DEF states, Q
      <4>3. s \in Q
        BY DEF Q
      <4> QED
        BY <4>1, <4>2, <4>3
    <3> QED
      BY <3>3, <3>4
  <2>5. ASSUME NEW v, Spells(c, h[s], Append(w, x), v)
        PROVE  \E t \in Q : Spells(a, s, Append(w, x), t) /\ v = h[t]
    <3>1. PICK y : Spells(c, h[s], w, y) /\ <<y, x, v>> \in c.arcs
      BY <2>2, <2>5
    <3>2. PICK t \in Q : Spells(a, s, w, t) /\ y = h[t]
      BY <2>1, <3>1
    <3>3. PICK u : <<t, x, u>> \in a.arcs /\ v = h[u]
      <4>1. t \in Q /\ <<h[t], x, v>> \in c.arcs
        BY <3>1, <3>2
      <4> QED
        BY <1>2, <4>1
    <3> QED
      BY <1>1, <2>3, <3>2, <3>3
  <2>6. ASSUME NEW v, NEW u \in Q, Spells(a, s, Append(w, x), u), v = h[u]
        PROVE  Spells(c, h[s], Append(w, x), v)
    <3>1. PICK t : Spells(a, s, w, t) /\ <<t, x, u>> \in a.arcs
      BY <2>3, <2>6
    <3>2. t \in Q
      BY <2>4, <3>1
    <3>3. Spells(c, h[s], w, h[t]) /\ <<h[t], x, v>> \in c.arcs
      BY <1>2, <2>1, <2>6, <3>1, <3>2
    <3> QED
      BY <2>2, <3>3
  <2>7. Append(w, x) \in Seq(Int)
    OBVIOUS
  <2> QED
    BY <2>5, <2>6, <2>7
<1>5. Seq(Int) \subseteq T
  <2> HIDE DEF T
  <2> QED
    BY <1>3, <1>4, WordInduction
<1> QED
  BY <1>5 DEF Q

(* An image has the words ahead that its state has, is led to by the words   *)
(* that lead there, and the machine's language is the image's.               *)
LEMMA ImageMeans ==
    ASSUME NEW a, NEW b \in Nat, Bounded(a, b), NEW c, NEW h, Image(a, c, h)
    PROVE  /\ \A s \in states(a) : Beyond(c, h[s]) = Beyond(a, s)
           /\ \A w \in Seq(Int) : \A v : Leads(c, w, v) <=> \E t \in states(a) : Leads(a, w, t) /\ v = h[t]
           /\ Accepted(c) = Accepted(a)
<1>1. a.start \subseteq states(a) /\ a.final \subseteq states(a)
  BY StatesBounded
<1>2. PICK s0 : a.start = {s0} /\ c.start = {h[s0]}
  BY DEF Image
<1>3. ASSUME NEW s \in states(a) PROVE Beyond(c, h[s]) = Beyond(a, s)
  <2>1. \A w \in Seq(Int) : \A v :
              Spells(c, h[s], w, v) <=> \E t \in states(a) : Spells(a, s, w, t) /\ v = h[t]
    BY ImageSpells
  <2>2. \A t \in states(a) : t \in a.final <=> h[t] \in c.final
    BY DEF Image
  <2>3. ASSUME NEW w \in Seq(Int)
        PROVE  (\E v \in c.final : Spells(c, h[s], w, v)) <=> (\E t \in a.final : Spells(a, s, w, t))
    BY <1>1, <2>1, <2>2
  <2> QED
    BY <2>3 DEF Beyond
<1>4. s0 \in states(a)
  BY <1>1, <1>2
<1>5. ASSUME NEW w \in Seq(Int), NEW v
      PROVE  Leads(c, w, v) <=> \E t \in states(a) : Leads(a, w, t) /\ v = h[t]
  <2>1. Leads(c, w, v) <=> Spells(c, h[s0], w, v)
    BY <1>2 DEF Leads
  <2>2. \A t : Leads(a, w, t) <=> Spells(a, s0, w, t)
    BY <1>2 DEF Leads
  <2>3. Spells(c, h[s0], w, v) <=> \E t \in states(a) : Spells(a, s0, w, t) /\ v = h[t]
    BY <1>4, ImageSpells
  <2> QED
    BY <2>1, <2>2, <2>3
<1>6. Accepted(c) = Accepted(a)
  <2>1. \A w : w \in Accepted(c) <=> w \in Beyond(c, h[s0])
    BY <1>2, AcceptedIsBeyond
  <2>2. \A w : w \in Accepted(a) <=> w \in Beyond(a, s0)
    BY <1>2, AcceptedIsBeyond
  <2> QED
    BY <1>3, <1>4, <2>1, <2>2
<1> QED
  BY <1>3, <1>5, <1>6

(* Every state is reached, and none has the words ahead of another.          *)
Distinct(m) ==
    /\ Usual(m) /\ Determinate(m)
    /\ \A s \in states(m) : \E w \in Seq(Int) : Leads(m, w, s)
    /\ \A s, t \in states(m) : Beyond(m, s) = Beyond(m, t) => s = t

(* canonical_numbering() leaves a machine usual; one all of whose states are *)
(* reached, it only renumbers.                                               *)
LEMMA CanonicalIsImage ==
    ASSUME NEW m, Usual(m), Determinate(m)
    PROVE  LET c == canonical_numbering(m)
           IN  /\ Usual(c) /\ Determinate(c) /\ c.start = {0}
               /\ (\A s \in states(m) : \E w \in Seq(Int) : Leads(m, w, s)) =>
                     \E h : Image(m, c, h) /\ \A u \in states(c) : \E s \in states(m) : u = h[s]
<1> DEFINE c == canonical_numbering(m)
           Q == states(m)
<1>1. Finite(m) /\ is_deterministic(m)
  BY UsualIsFinite, DeterministicMeans
<1>2. PICK met \in Seq(Q) :
         /\ Len(met) >= 1 /\ m.start = {met[1]} /\ Once(met)
         /\ \A t \in m.arcs : t[1] \in ToSet(met) => t[3] \in ToSet(met)
         /\ c = Renumbering(m, met)
  BY <1>1, CanonicalNumbers
<1> DEFINE Met == ToSet(met)
           n == Len(met)
           New(s) == Place(met, s) - 1
           C == {<<New(t[1]), t[2], New(t[3])>> : t \in {u \in m.arcs : u[1] \in Met}}
           F == {New(s) : s \in m.final \cap Met}
<1>3. c = [start |-> {0}, final |-> F, arcs |-> C]
  BY <1>2 DEF Renumbering
<1>4. c.start = {0} /\ c.final = F /\ c.arcs = C
  BY <1>3
<1>5. Determinate(c) /\ Usual(c)
  BY <1>1, CanonicalMachine DEF Usual, Finite
<1>6. n \in Nat /\ DOMAIN met = 1 .. n /\ \A i \in 1 .. n : met[i] \in Q /\ met[i] \in Met
  <2>1. n \in Nat /\ DOMAIN met = 1 .. n /\ \A i \in 1 .. n : met[i] \in Q
    BY LenProperties, ElementOfSeq
  <2> QED
    BY <2>1 DEF ToSet
<1>7. \A s \in Met : Place(met, s) \in 1 .. n /\ met[Place(met, s)] = s /\ s \in Q
  <2>1. \A s \in Met : Place(met, s) \in 1 .. n /\ met[Place(met, s)] = s
    BY PlacesOfItems
  <2> QED
    BY <1>6, <2>1
<1> HIDE DEF c, n
<1>9. \A s, t \in Met : New(s) = New(t) => s = t
  <2> SUFFICES ASSUME NEW s \in Met, NEW t \in Met, New(s) = New(t) PROVE s = t
    OBVIOUS
  <2> DEFINE i == Place(met, s)
             j == Place(met, t)
  <2>1. i \in 1 .. n /\ j \in 1 .. n /\ met[i] = s /\ met[j] = t
    BY <1>7
  <2> HIDE DEF Met
  <2>2. i - 1 = j - 1
    OBVIOUS
  <2> HIDE DEF i, j
  <2>3. i = j
    BY <1>6, <2>1, <2>2
  <2> QED
    BY <2>1, <2>3
<1>10. \A t \in m.arcs : t = <<t[1], t[2], t[3]>> /\ t[2] \in Int
  <2>1. PICK b \in Nat : Bounded(m, b)
    BY DEF Usual
  <2> QED
    BY <2>1, StatesBounded
<1>11. \A t \in m.arcs : t[1] \in Met => t[3] \in Met
  BY <1>2
<1>12. met[1] \in Met /\ New(met[1]) = 0
  <2>1. 1 \in 1 .. n
    BY <1>2, <1>6 DEF n
  <2>2. met[1] \in Met
    BY <1>6, <2>1
  <2> DEFINE i == Place(met, met[1])
  <2>3. i \in 1 .. n /\ met[i] = met[1]
    BY <1>7, <2>2
  <2> HIDE DEF i
  <2>4. i = 1
    BY <1>2, <2>1, <2>3 DEF Once, n
  <2> QED
    BY <2>2, <2>4 DEF i
<1> HIDE DEF Met, New
<1>14. ASSUME \A s \in states(m) : \E w \in Seq(Int) : Leads(m, w, s)
       PROVE  \E h : Image(m, c, h) /\ \A u \in states(c) : \E s \in states(m) : u = h[s]
  <2> DEFINE h == [s \in Q |-> New(s)]
  <2>0. PICK b \in Nat : Bounded(m, b)
    BY DEF Usual
  <2>1. Q \subseteq Met
    <3>1. m.start \subseteq Met
      BY <1>2, <1>12
    <3>2. reachable_states(m) \subseteq Met
      BY <1>11, <2>0, <3>1, ReachedWithin
    <3>3. \A s \in Q : s \in reachable_states(m)
      BY <1>14, <2>0, ReachedByWords
    <3> QED
      BY <3>2, <3>3
  <2>2. \A s \in Q : h[s] = New(s)
    OBVIOUS
  <2>3. /\ m.start \subseteq Q /\ m.final \subseteq Q
        /\ \A t \in m.arcs : t[1] \in Q /\ t[3] \in Q
    BY <1>1, FiniteStates
  <2> HIDE DEF Q, h
  <2>4. m.start = {met[1]} /\ c.start = {h[met[1]]}
    BY <1>2, <1>4, <1>12, <2>2, <2>3
  <2>5. \A s \in Q : s \in m.final <=> h[s] \in c.final
    <3>1. \A s \in Q : s \in m.final => h[s] \in c.final
      BY <1>4, <2>1, <2>2
    <3>2. \A s \in Q : h[s] \in c.final => s \in m.final
      BY <1>4, <1>9, <2>1, <2>2
    <3> QED
      BY <3>1, <3>2
  <2>6. ASSUME NEW s \in Q, NEW x \in Int, NEW v
        PROVE  <<h[s], x, v>> \in c.arcs <=> \E t : <<s, x, t>> \in m.arcs /\ v = h[t]
    <3>1. ASSUME NEW t, <<s, x, t>> \in m.arcs, v = h[t] PROVE <<h[s], x, v>> \in c.arcs
      <4> DEFINE e == <<s, x, t>>
      <4>1. e \in m.arcs /\ e[1] = s /\ e[2] = x /\ e[3] = t
        BY <3>1
      <4> HIDE DEF e
      <4>2. s \in Met /\ t \in Met /\ t \in Q
        BY <2>1, <2>3, <4>1
      <4> QED
        BY <1>4, <2>2, <3>1, <4>1, <4>2
    <3>2. ASSUME <<h[s], x, v>> \in c.arcs PROVE \E t : <<s, x, t>> \in m.arcs /\ v = h[t]
      <4>1. PICK e \in m.arcs : e[1] \in Met /\ <<h[s], x, v>> = <<New(e[1]), e[2], New(e[3])>>
        BY <1>4, <3>2
      <4>2. h[s] = New(e[1]) /\ x = e[2] /\ v = New(e[3])
        BY <4>1
      <4>3. e[1] = s
        BY <1>9, <2>1, <2>2, <4>1, <4>2
      <4>4. e = <<s, x, e[3]>> /\ e[3] \in Q
        BY <1>10, <2>3, <4>2, <4>3
      <4> QED
        BY <2>2, <4>2, <4>4
    <3> QED
      BY <3>1, <3>2
  <2>7. Image(m, c, h)
    BY <2>4, <2>5, <2>6 DEF Image, Q
  <2>8. \A u \in states(c) : \E s \in Q : u = h[s]
    <3> SUFFICES ASSUME NEW u \in states(c) PROVE \E s \in Q : u = h[s]
      OBVIOUS
    <3>1. states(c) = c.start \cup c.final \cup UNION {{t[1], t[3]} : t \in c.arcs}
      BY DEF states
    <3>2. CASE u \in c.start
      BY <2>3, <2>4, <3>2
    <3>3. CASE u \in c.final
      BY <1>4, <2>2, <2>3, <3>3
    <3>4. CASE u \in UNION {{t[1], t[3]} : t \in c.arcs}
      <4>1. PICK e \in c.arcs : u = e[1] \/ u = e[3]
        BY <3>4
      <4>2. PICK t \in m.arcs : e = <<New(t[1]), t[2], New(t[3])>>
        BY <1>4
      <4>3. e[1] = New(t[1]) /\ e[3] = New(t[3])
        BY <4>2
      <4> QED
        BY <2>2, <2>3, <4>1, <4>3
    <3> QED
      BY <3>1, <3>2, <3>3, <3>4
  <2> QED
    BY <2>7, <2>8 DEF Q
<1> QED
  BY <1>4, <1>5, <1>14 DEF c

(* An image in which all states with the same words ahead fall together.     *)
LEMMA ImageIsDistinct ==
    ASSUME NEW a, Usual(a), NEW c, Usual(c), Determinate(c), NEW h, Image(a, c, h),
           \A s, t \in states(a) : Beyond(a, s) = Beyond(a, t) => h[s] = h[t],
           \A u \in states(c) : \E w \in Seq(Int) : Leads(c, w, u)
    PROVE  Distinct(c) /\ Accepted(c) = Accepted(a)
<1>1. PICK b \in Nat : Bounded(a, b)
  BY DEF Usual
<1>2. /\ \A s \in states(a) : Beyond(c, h[s]) = Beyond(a, s)
      /\ \A w \in Seq(Int) : \A v : Leads(c, w, v) <=> \E t \in states(a) : Leads(a, w, t) /\ v = h[t]
      /\ Accepted(c) = Accepted(a)
  BY <1>1, ImageMeans
<1>3. \A u \in states(c) : \E t \in states(a) : u = h[t]
  BY <1>2
<1>4. \A u, v \in states(c) : Beyond(c, u) = Beyond(c, v) => u = v
  BY <1>2, <1>3
<1> QED
  BY <1>2, <1>4 DEF Distinct

(* Such a machine, canonically numbered, is one again.                       *)
LEMMA CanonicalIsDistinct ==
    ASSUME NEW m, Distinct(m)
    PROVE  Distinct(canonical_numbering(m)) /\ Accepted(canonical_numbering(m)) = Accepted(m)
<1> DEFINE c == canonical_numbering(m)
<1>1. Usual(m) /\ Determinate(m) /\ \A s \in states(m) : \E w \in Seq(Int) : Leads(m, w, s)
  BY DEF Distinct
<1>2. Usual(c) /\ Determinate(c)
  BY <1>1, CanonicalIsImage
<1>3. PICK h : Image(m, c, h) /\ \A u \in states(c) : \E s \in states(m) : u = h[s]
  BY <1>1, CanonicalIsImage
<1>4. PICK b \in Nat : Bounded(m, b)
  BY <1>1 DEF Usual
<1> HIDE DEF c
<1>5. \A w \in Seq(Int) : \A v : Leads(c, w, v) <=> \E t \in states(m) : Leads(m, w, t) /\ v = h[t]
  BY <1>3, <1>4, ImageMeans
<1>6. \A u \in states(c) : \E w \in Seq(Int) : Leads(c, w, u)
  BY <1>1, <1>3, <1>5
<1>7. \A s, t \in states(m) : Beyond(m, s) = Beyond(m, t) => h[s] = h[t]
  BY DEF Distinct
<1> QED
  BY <1>1, <1>2, <1>3, <1>6, <1>7, ImageIsDistinct DEF c

(* Once its useless states are gone, such a machine is minimal.              *)
LEMMA UsefulIsMinimal ==
    ASSUME NEW m, Distinct(m), Accepted(m) # {}
    PROVE  Minimal(useful_fm(m)) /\ Accepted(useful_fm(m)) = Accepted(m)
<1> DEFINE g == useful_fm(m)
           V == reachable_states(reverse(m))
           Q == states(m)
<1>1. /\ Usual(m) /\ Determinate(m) /\ \A s \in Q : \E w \in Seq(Int) : Leads(m, w, s)
      /\ \A s, t \in Q : Beyond(m, s) = Beyond(m, t) => s = t
  BY DEF Distinct
<1>2. PICK b \in Nat : Bounded(m, b)
  BY <1>1 DEF Usual
<1>3. Bounded(reverse(m), b)
  BY <1>2, ReversedMachine
<1>4. /\ Q \subseteq 0 .. b /\ m.start \subseteq Q /\ m.final \subseteq Q
      /\ \A t \in m.arcs : t = <<t[1], t[2], t[3]>> /\ t[1] \in Q /\ t[2] \in Int /\ t[3] \in Q
  BY <1>2, StatesBounded
<1>5. \A s \in Q : s \in V <=> Beyond(m, s) # {}
  <2> SUFFICES ASSUME NEW s \in Q PROVE s \in V <=> Beyond(m, s) # {}
    OBVIOUS
  <2>1. \A v \in Seq(Int) : v \in Beyond(m, s) <=> Leads(reverse(m), Reverse(v), s)
    BY <1>2, <1>4, BeyondReverse
  <2>2. s \in V <=> \E w \in Seq(Int) : Leads(reverse(m), w, s)
    BY <1>3, ReachedByWords
  <2>3. \A w \in Seq(Int) : Reverse(w) \in Seq(Int) /\ Reverse(Reverse(w)) = w
    BY ReversedWord
  <2>4. Beyond(m, s) \subseteq Seq(Int)
    BY DEF Beyond
  <2> QED
    BY <2>1, <2>2, <2>3, <2>4
<1> DEFINE A == m.start \cap V
           C == {t \in m.arcs : t[1] \in V /\ t[3] \in V}
<1>6. g.start = A /\ g.final = m.final /\ g.arcs = C /\ g = [start |-> A, final |-> m.final, arcs |-> C]
  <2>1. g = [m EXCEPT !.start = A, !.arcs = C]
    BY DEF useful_fm
  <2> HIDE DEF A, C, g
  <2>2. g = [start |-> A, final |-> m.final, arcs |-> C]
    <3>1. Finite(m)
      BY <1>1, UsualIsFinite
    <3> QED
      BY <2>1, <3>1, FieldsReplaced DEF Finite
  <2> QED
    BY <2>2
<1>7. PICK s0 : m.start = {s0}
  BY <1>1 DEF Determinate
<1>8. \A s \in m.final : s \in V
  <2>1. \A s : <<>> \in Beyond(m, s) <=> s \in m.final
    BY BeyondLetter
  <2> QED
    BY <1>4, <1>5, <2>1
<1>9. s0 \in V /\ s0 \in Q
  <2>1. \A w : w \in Accepted(m) <=> w \in Beyond(m, s0)
    BY <1>7, AcceptedIsBeyond
  <2> QED
    BY <1>4, <1>5, <1>7, <2>1
<1> HIDE DEF g
<1>10. \A t, x, u : <<t, x, u>> \in m.arcs /\ u \in V => t \in V /\ <<t, x, u>> \in g.arcs
  <2> SUFFICES ASSUME NEW t, NEW x, NEW u, <<t, x, u>> \in m.arcs, u \in V
               PROVE  t \in V /\ <<t, x, u>> \in g.arcs
    OBVIOUS
  <2> DEFINE e == <<t, x, u>>
  <2>1. e \in m.arcs /\ e[1] = t /\ e[2] = x /\ e[3] = u
    OBVIOUS
  <2> HIDE DEF e, V
  <2>2. t \in Q /\ x \in Int /\ u \in Q
    BY <1>4, <2>1
  <2>3. PICK w \in Seq(Int) : w \in Beyond(m, u)
    BY <1>5, <2>2 DEF Beyond
  <2>4. <<x>> \o w \in Beyond(m, t)
    <3>1. <<t, x, u>> \in m.arcs
      BY <2>1 DEF e
    <3>2. \A y \in Int, v \in Seq(Int) :
                 <<y>> \o v \in Beyond(m, t) <=> \E z : <<t, y, z>> \in m.arcs /\ v \in Beyond(m, z)
      BY BeyondLetter, Zenon
    <3> QED
      BY <2>2, <2>3, <3>1, <3>2
  <2>5. t \in V
    BY <1>5, <2>2, <2>4
  <2>6. e \in g.arcs
    BY <1>6, <2>1, <2>5
  <2> QED
    BY <2>5, <2>6 DEF e
<1>11. ASSUME NEW s PROVE \A w \in Seq(Int) : \A u \in V : Spells(m, s, w, u) => Spells(g, s, w, u)
  <2> DEFINE T == {w \in Seq(Int) : \A u \in V : Spells(m, s, w, u) => Spells(g, s, w, u)}
  <2>1. <<>> \in T
    <3>1. \A u : (Spells(m, s, <<>>, u) <=> u = s) /\ (Spells(g, s, <<>>, u) <=> u = s)
      BY SpellsAtOnce
    <3>2. <<>> \in Seq(Int)
      OBVIOUS
    <3> QED
      BY <3>1, <3>2
  <2>2. ASSUME NEW w \in Seq(Int), NEW x \in Int, w \in T PROVE Append(w, x) \in T
    <3>1. \A u : Spells(m, s, Append(w, x), u) <=> \E t : Spells(m, s, w, t) /\ <<t, x, u>> \in m.arcs
      BY SpellsByLetter, Zenon
    <3>2. \A u : Spells(g, s, Append(w, x), u) <=> \E t : Spells(g, s, w, t) /\ <<t, x, u>> \in g.arcs
      BY SpellsByLetter, Zenon
    <3>3. \A u \in V : Spells(m, s, w, u) => Spells(g, s, w, u)
      BY <2>2
    <3> HIDE DEF V
    <3>4. \A u \in V : Spells(m, s, Append(w, x), u) => Spells(g, s, Append(w, x), u)
      BY <1>10, <3>1, <3>2, <3>3
    <3>5. Append(w, x) \in Seq(Int)
      OBVIOUS
    <3> QED
      BY <3>4, <3>5
  <2>3. Seq(Int) \subseteq T
    <3> HIDE DEF T
    <3> QED
      BY <2>1, <2>2, WordInduction
  <2> QED
    BY <2>3
<1>12. \A s, w, u : Spells(g, s, w, u) => Spells(m, s, w, u)
  BY <1>6 DEF Spells, Run
<1>13. ASSUME NEW s PROVE Beyond(g, s) = Beyond(m, s)
  <2>1. \A w \in Seq(Int) : (\E u \in g.final : Spells(g, s, w, u)) <=> (\E u \in m.final : Spells(m, s, w, u))
    BY <1>6, <1>8, <1>11, <1>12
  <2> QED
    BY <2>1 DEF Beyond
<1>14. g.start = {s0}
  BY <1>6, <1>7, <1>9
<1>15. states(g) \subseteq Q /\ states(g) \subseteq V
  <2>1. states(g) = g.start \cup g.final \cup UNION {{t[1], t[3]} : t \in g.arcs}
    BY DEF states
  <2>2. \A t \in g.arcs : t[1] \in Q \cap V /\ t[3] \in Q \cap V
    BY <1>4, <1>6
  <2>3. g.start \subseteq Q \cap V /\ g.final \subseteq Q \cap V
    BY <1>4, <1>6, <1>8
  <2> HIDE DEF Q, V
  <2> QED
    BY <2>1, <2>2, <2>3
<1>16. ASSUME NEW s \in states(g) PROVE \E w \in Seq(Int) : Leads(g, w, s)
  <2>1. PICK w \in Seq(Int) : Leads(m, w, s)
    BY <1>1, <1>15
  <2>2. Spells(m, s0, w, s)
    BY <1>7, <2>1 DEF Leads
  <2>3. Spells(g, s0, w, s)
    BY <1>11, <1>15, <2>2
  <2> QED
    BY <1>14, <2>3 DEF Leads
<1>17. Usual(g)
  <2>1. IsFiniteSet(m.arcs)
    BY <1>1 DEF Usual
  <2>2. IsFiniteSet(g.arcs)
    BY <1>6, <2>1, FS_Subset
  <2> HIDE DEF V
  <2>3. Bounded(g, b)
    BY <1>2, <1>6 DEF Bounded
  <2> QED
    BY <2>2, <2>3 DEF Usual
<1>18. Determinate(g)
  BY <1>1, <1>6, <1>14 DEF Determinate
<1>19. \A s \in states(g) : Beyond(g, s) # {}
  BY <1>5, <1>13, <1>15
<1>20. \A s, t \in states(g) : Beyond(g, s) = Beyond(g, t) => s = t
  BY <1>1, <1>13, <1>15
<1>21. Accepted(g) = Accepted(m)
  <2>1. \A w : w \in Accepted(m) <=> w \in Beyond(m, s0)
    BY <1>7, AcceptedIsBeyond
  <2>2. \A w : w \in Accepted(g) <=> w \in Beyond(g, s0)
    BY <1>14, AcceptedIsBeyond
  <2> QED
    BY <1>13, <2>1, <2>2
<1>22. Minimal(g)
  BY <1>16, <1>17, <1>18, <1>19, <1>20 DEF Minimal
<1> QED
  BY <1>21, <1>22 DEF g

(* A list is represented by one of its states.                               *)
LEMMA RepresentedByOne ==
    ASSUME NEW S, NEW list \in Seq(S), list # <<>>
    PROVE  Representative(list) \in ToSet(list)
<1> DEFINE n == Len(list)
           L == ToSet(list)
           Of(s, y) == IF s = 0 \/ y < s THEN y ELSE s
           Is(l) == l = [k \in 1 .. n |-> IF k = 1 THEN list[1] ELSE Of(l[k - 1], list[k])]
           least == CHOOSE l : Is(l)
           g == [y \in Nat \X L |-> IF y[1] + 2 \in 1 .. n THEN Of(y[2], list[y[1] + 2]) ELSE y[2]]
<1>1. n \in Nat /\ n >= 1 /\ DOMAIN list = 1 .. n /\ \A k \in 1 .. n : list[k] \in L
  <2>1. n \in Nat /\ DOMAIN list = 1 .. n
    BY LenProperties
  <2>2. n # 0
    BY EmptySeq
  <2>3. L = {list[k] : k \in DOMAIN list}
    BY DEF ToSet
  <2> HIDE DEF L, n
  <2> QED
    BY <2>1, <2>2, <2>3
<1>2. Representative(list) = least[n]
  BY DEF Representative
<1> HIDE DEF n, L
<1>3. 1 \in 1 .. n
  BY <1>1
<1>4. list[1] \in L
  BY <1>1, <1>3
<1>5. \A s \in L, k \in 1 .. n : Of(s, list[k]) \in L
  BY <1>1
<1>6. \A i \in Nat, s \in L : g[<<i, s>>] = IF i + 2 \in 1 .. n THEN Of(s, list[i + 2]) ELSE s
  <2> HIDE DEF Of
  <2> QED
    OBVIOUS
<1>7. g \in [Nat \X L -> L]
  <2> HIDE DEF Of
  <2>1. \A y \in Nat \X L : y[1] \in Nat /\ y[2] \in L
    OBVIOUS
  <2>2. \A y \in Nat \X L : (IF y[1] + 2 \in 1 .. n THEN Of(y[2], list[y[1] + 2]) ELSE y[2]) \in L
    BY <1>5, <2>1
  <2> QED
    BY <2>2
<1> HIDE DEF g, Of
<1>8. PICK f \in [Nat -> L] : IsIteration(f, list[1], g)
  BY <1>4, <1>7, Iterations
<1>9. f[0] = list[1] /\ \A i \in Nat : f[i + 1] = IF i + 2 \in 1 .. n THEN Of(f[i], list[i + 2]) ELSE f[i]
  <2>1. \A i \in Nat : f[i] \in L
    OBVIOUS
  <2> QED
    BY <1>6, <1>8, <2>1 DEF IsIteration
<1> DEFINE l == [k \in 1 .. n |-> f[k - 1]]
<1>10. Is(l)
  <2>1. ASSUME NEW k \in 1 .. n
        PROVE  f[k - 1] = IF k = 1 THEN list[1] ELSE Of(l[k - 1], list[k])
    <3>1. CASE k = 1
      BY <1>9, <3>1
    <3>2. CASE k # 1
      <4> DEFINE i == k - 2
      <4>1. i \in Nat /\ k = i + 2 /\ k - 1 = i + 1 /\ k - 1 \in 1 .. n /\ (i + 1) - 1 = i
        BY <1>1, <3>2
      <4> HIDE DEF i
      <4>2. f[i + 1] = Of(f[i], list[i + 2])
        BY <1>9, <4>1
      <4>3. l[k - 1] = f[i]
        BY <4>1
      <4> HIDE DEF l
      <4> QED
        BY <3>2, <4>1, <4>2, <4>3
    <3> QED
      BY <3>1, <3>2
  <2> QED
    BY <2>1
<1>11. Is(least)
  <2> HIDE DEF Is, l
  <2>1. \E h : Is(h)
    BY <1>10
  <2> QED
    BY <2>1
<1>12. \A k \in Nat : k + 1 \in 1 .. n => least[k + 1] \in L
  <2> DEFINE T == {k \in Nat : k + 1 \in 1 .. n => least[k + 1] \in L}
  <2>1. \A k \in 1 .. n : least[k] = IF k = 1 THEN list[1] ELSE Of(least[k - 1], list[k])
    BY <1>11
  <2> HIDE DEF least
  <2>2. 0 \in T
    BY <1>3, <1>4, <2>1
  <2>3. ASSUME NEW k \in Nat, k \in T PROVE k + 1 \in T
    <3> SUFFICES ASSUME (k + 1) + 1 \in 1 .. n PROVE least[(k + 1) + 1] \in L
      OBVIOUS
    <3> DEFINE j == (k + 1) + 1
    <3>1. j \in 1 .. n /\ j # 1 /\ j - 1 = k + 1 /\ k + 1 \in 1 .. n
      BY <1>1
    <3>2. least[k + 1] \in L
      BY <2>3, <3>1
    <3> HIDE DEF j
    <3>3. least[j] = Of(least[k + 1], list[j])
      BY <2>1, <3>1
    <3>4. least[j] \in L
      BY <1>5, <3>1, <3>2, <3>3
    <3> QED
      BY <3>4 DEF j
  <2>4. Nat \subseteq T
    <3> HIDE DEF T
    <3> QED
      BY <2>2, <2>3, NumberInduction
  <2> QED
    BY <2>4
<1> HIDE DEF least
<1>13. n - 1 \in Nat /\ (n - 1) + 1 = n /\ n \in 1 .. n
  BY <1>1
<1> QED
  BY <1>2, <1>12, <1>13 DEF L

(* Which state stands for a state.                                           *)
Standing(lists, s) == Representative(CHOOSE l \in ToSet(lists) : s \in ToSet(l))

(* It is one of its list, the same for the whole list.                       *)
LEMMA StandsForList ==
    ASSUME NEW c, NEW h, Partitions(c, h), NEW i \in 1 .. Len(h.lists), NEW s \in Class(h, i)
    PROVE  /\ Standing(h.lists, s) = Representative(h.lists[i])
           /\ Standing(h.lists, s) \in Class(h, i)
<1> DEFINE n == Len(h.lists)
           Q == states(c)
<1>1. Listed(Q, h) /\ Apart(h)
  BY DEF Partitions
<1>2. DOMAIN h.lists = 1 .. n /\ h.lists[i] \in Seq(Q)
  BY <1>1, ListedMeans
<1>3. ToSet(h.lists) = {h.lists[k] : k \in 1 .. n}
  BY <1>2 DEF ToSet
<1>4. \A k \in 1 .. n : s \in ToSet(h.lists[k]) => k = i
  BY <1>1 DEF Apart, Class
<1>5. s \in ToSet(h.lists[i])
  BY DEF Class
<1>6. (CHOOSE l \in ToSet(h.lists) : s \in ToSet(l)) = h.lists[i]
  <2> HIDE DEF n
  <2>1. \A l \in ToSet(h.lists) : s \in ToSet(l) <=> l = h.lists[i]
    BY <1>3, <1>4, <1>5
  <2>2. h.lists[i] \in ToSet(h.lists)
    BY <1>3 DEF n
  <2> QED
    BY <2>1, <2>2
<1>7. Standing(h.lists, s) = Representative(h.lists[i])
  BY <1>6 DEF Standing
<1>8. h.lists[i] # <<>>
  <2>1. \A k \in DOMAIN h.lists[i] : k \in DOMAIN h.lists[i]
    OBVIOUS
  <2>2. ToSet(<<>>) = {}
    BY DEF ToSet
  <2> QED
    BY <1>5, <2>2
<1>9. Representative(h.lists[i]) \in ToSet(h.lists[i])
  BY <1>2, <1>8, RepresentedByOne
<1> QED
  BY <1>7, <1>9 DEF Class

(* The start state stands for its list.                                      *)
Stands(c, h) == \A s \in c.start : Standing(h.lists, s) = s

(* A machine whose states are led alike, list by list, is merged to an       *)
(* image of itself: provided the start state is not one that gives way.      *)
LEMMA MergedIsImage ==
    ASSUME NEW c, Total(c), NEW h, Partitions(c, h), Congruent(c, h), Stands(c, h)
    PROVE  /\ Usual(Merge(c, h.lists)) /\ Determinate(Merge(c, h.lists))
           /\ \E f : /\ Image(c, Merge(c, h.lists), f)
                     /\ \A s, t \in states(c) : Beyond(c, s) = Beyond(c, t) => f[s] = f[t]
<1> DEFINE d == Merge(c, h.lists)
           Q == states(c)
           n == Len(h.lists)
           Of(s) == Standing(h.lists, s)
           f == [s \in Q |-> Of(s)]
           F == {s \in c.final : Of(s) = s}
           A == {<<t[1], t[2], Of(t[3])>> : t \in c.arcs}
<1>1. d = [start |-> c.start, final |-> F, arcs |-> A]
  BY DEF Merge, Standing
<1>2. d.start = c.start /\ d.final = F /\ d.arcs = A
  BY <1>1
<1> HIDE DEF d
<1>3. PICK b \in Nat : Bounded(c, b)
  BY DEF Total, Usual
<1>4. /\ c.start \subseteq Q /\ c.final \subseteq Q /\ labels(c) \subseteq Int
      /\ \A t \in c.arcs : t = <<t[1], t[2], t[3]>> /\ t[1] \in Q /\ t[2] \in labels(c) /\ t[3] \in Q
  BY <1>3, StatesBounded
<1>5. \A i \in 1 .. n : \A s \in Class(h, i) : Of(s) = Representative(h.lists[i]) /\ Of(s) \in Class(h, i)
  BY StandsForList
<1>6. /\ \A s \in Q : \E i \in 1 .. n : s \in Class(h, i)
      /\ \A i \in 1 .. n : Whole(Class(h, i), c.final)
      /\ \A i, k \in 1 .. n : i # k => \A s \in Class(h, i), t \in Class(h, k) : Beyond(c, s) # Beyond(c, t)
      /\ \A i \in 1 .. n : Class(h, i) \subseteq Q
  <2>1. Listed(Q, h)
    BY DEF Partitions
  <2>2. \A i \in 1 .. n : Class(h, i) \subseteq Q
    BY <2>1, ListedMeans
  <2> QED
    BY <2>2 DEF Partitions, ToldApart
<1>7. \A s \in Q : f[s] = Of(s)
  OBVIOUS
<1> HIDE DEF Q, n, Of, f
<1>8. \A s, t \in Q : Beyond(c, s) = Beyond(c, t) => f[s] = f[t]
  BY <1>5, <1>6, <1>7
<1>9. \E s : c.start = {s} /\ d.start = {f[s]}
  <2>1. PICK s : c.start = {s}
    BY DEF Total, Determinate
  <2>2. Of(s) = s
    BY <2>1 DEF Stands, Of
  <2> QED
    BY <1>2, <1>4, <1>7, <2>1, <2>2
<1>10. ASSUME NEW s \in Q PROVE s \in c.final <=> f[s] \in d.final
  <2>1. PICK i \in 1 .. n : s \in Class(h, i)
    BY <1>6
  <2>2. Of(s) \in Class(h, i) /\ Of(Of(s)) = Of(s)
    BY <1>5, <2>1
  <2>3. s \in c.final <=> Of(s) \in c.final
    BY <1>6, <2>1, <2>2 DEF Whole
  <2> QED
    BY <1>2, <1>7, <2>2, <2>3
<1>11. ASSUME NEW t, NEW x, NEW u, <<t, x, u>> \in c.arcs
       PROVE  t \in Q /\ x \in labels(c) /\ u \in Q /\ <<t, x, Of(u)>> \in A
  <2> DEFINE e == <<t, x, u>>
  <2>1. e \in c.arcs /\ e[1] = t /\ e[2] = x /\ e[3] = u
    BY <1>11
  <2> HIDE DEF e
  <2> QED
    BY <1>4, <2>1
<1> DEFINE Arc(t, x, u) == <<t, x, u>> \in c.arcs
           Led(t, x, v) == <<t, x, v>> \in A
<1>12. \A t, x, v : Led(t, x, v) <=> \E u : Arc(t, x, u) /\ v = Of(u)
  <2>1. ASSUME NEW t, NEW x, NEW v, Led(t, x, v)
        PROVE  \E u : Arc(t, x, u) /\ v = Of(u)
    <3>1. PICK e \in c.arcs : <<t, x, v>> = <<e[1], e[2], Of(e[3])>>
      BY <2>1
    <3>2. t = e[1] /\ x = e[2] /\ v = Of(e[3])
      BY <3>1
    <3> QED
      BY <1>4, <3>2
  <2>2. ASSUME NEW t, NEW x, NEW v, NEW u, Arc(t, x, u), v = Of(u)
        PROVE  Led(t, x, v)
    <3>1. <<t, x, Of(u)>> \in A
      BY <1>11, <2>2
    <3> QED
      BY <2>2, <3>1
  <2>3. \A t, x, v : Led(t, x, v) => \E u : Arc(t, x, u) /\ v = Of(u)
    BY <2>1
  <2>4. \A t, x, v, u : Arc(t, x, u) /\ v = Of(u) => Led(t, x, v)
    BY <2>2
  <2> HIDE DEF Led, Arc
  <2> QED
    BY <2>3, <2>4
<1> HIDE DEF A, F
<1>a. \A t, x, u : Arc(t, x, u) => t \in Q /\ x \in labels(c) /\ u \in Q
  BY <1>11
<1>b. \A t, x, v : <<t, x, v>> \in d.arcs <=> Led(t, x, v)
  BY <1>2
<1>c. \A y \in Q, l \in labels(c) : \E u : Arc(y, l, u)
  BY DEF Total, Q
<1>13. \A i \in 1 .. n : \A s, t \in Class(h, i) : \A x, u, v :
          Arc(s, x, u) /\ Arc(t, x, v) => Of(u) = Of(v)
  <2> SUFFICES ASSUME NEW i \in 1 .. n, NEW s \in Class(h, i), NEW t \in Class(h, i), NEW x, NEW u, NEW v,
                      Arc(s, x, u), Arc(t, x, v)
               PROVE  Of(u) = Of(v)
    OBVIOUS
  <2>1. PICK k \in 1 .. n : u \in Class(h, k) /\ v \in Class(h, k)
    BY DEF Congruent, n
  <2> QED
    BY <1>5, <2>1
<1> HIDE DEF Arc, Led
<1>14. ASSUME NEW s \in Q, NEW x \in Int, NEW v
       PROVE  <<f[s], x, v>> \in d.arcs <=> \E u : Arc(s, x, u) /\ v = f[u]
  <2>1. PICK i \in 1 .. n : s \in Class(h, i)
    BY <1>6
  <2>2. Of(s) \in Class(h, i) /\ Of(s) \in Q
    BY <1>5, <1>6, <2>1
  <2>3. <<f[s], x, v>> \in d.arcs <=> \E u : Arc(Of(s), x, u) /\ v = Of(u)
    BY <1>7, <1>12, <1>b
  <2>4. ASSUME NEW u, Arc(Of(s), x, u), v = Of(u) PROVE \E w : Arc(s, x, w) /\ v = f[w]
    <3>1. PICK w : Arc(s, x, w)
      BY <1>a, <1>c, <2>4
    <3>2. w \in Q /\ Of(w) = Of(u)
      BY <1>a, <1>13, <2>1, <2>2, <2>4, <3>1
    <3> QED
      BY <1>7, <2>4, <3>1, <3>2
  <2>5. ASSUME NEW u, Arc(s, x, u), v = f[u] PROVE \E w : Arc(Of(s), x, w) /\ v = Of(w)
    <3>1. PICK w : Arc(Of(s), x, w)
      BY <1>a, <1>c, <2>2, <2>5
    <3>2. Of(w) = Of(u) /\ u \in Q
      BY <1>a, <1>13, <2>1, <2>2, <2>5, <3>1
    <3> QED
      BY <1>7, <2>5, <3>1, <3>2
  <2> QED
    BY <2>3, <2>4, <2>5
<1>15. Image(c, d, f)
  BY <1>9, <1>10, <1>14 DEF Image, Q, Arc
<1>16. Usual(d) /\ Determinate(d)
  <2>1. Finite(c) /\ Determinate(c)
    BY UsualIsFinite DEF Total
  <2>2. Finite(d) /\ Determinate(d)
    BY <2>1, MergedMachine DEF d
  <2>3. \A t \in Q : Of(t) \in Q
    BY <1>5, <1>6
  <2>4. Q \subseteq 0 .. b
    BY <1>3, StatesBounded DEF Q
  <2>5. A \in SUBSET ((0 .. b) \X Int \X (0 .. b))
    BY <1>4, <2>3, <2>4 DEF A
  <2>6. c.start \in SUBSET (0 .. b) /\ F \in SUBSET (0 .. b)
    BY <1>4, <2>4 DEF F
  <2>7. Bounded(d, b)
    BY <1>1, <2>5, <2>6 DEF Bounded, d
  <2> QED
    BY <2>2, <2>7 DEF Usual, Finite
<1> QED
  BY <1>8, <1>15, <1>16 DEF d, Q

(* complete() leaves a deterministic machine with one arc for each state and *)
(* label.                                                                    *)
LEMMA CompletedIsTotal ==
    ASSUME NEW m, Usual(m), Determinate(m)
    PROVE  /\ Total(complete(m)) /\ Accepted(complete(m)) = Accepted(m)
           /\ complete(m).start = m.start
<1> DEFINE c == complete(m)
<1>1. Finite(m)
  BY UsualIsFinite
<1>2. PICK b \in Nat : Bounded(m, b)
  BY DEF Usual
<1>3. Bounded(c, b + 1) /\ c.start = m.start /\ is_complete(c)
  BY <1>1, <1>2, CompletedMachine
<1>4. Finite(c) /\ Determinate(c)
  BY <1>1, <1>2, CompleteMachine
<1>5. Accepted(c) = Accepted(m)
  BY <1>1, <1>2, CompleteLanguage
<1> HIDE DEF c
<1>6. Usual(c)
  <2>1. b + 1 \in Nat
    OBVIOUS
  <2> QED
    BY <1>3, <1>4, <2>1 DEF Usual, Finite
<1>7. \A s \in states(c), x \in labels(c) : \E u \in states(c) : <<s, x, u>> \in c.arcs
  <2> SUFFICES ASSUME NEW s \in states(c), NEW x \in labels(c)
               PROVE  \E u \in states(c) : <<s, x, u>> \in c.arcs
    OBVIOUS
  <2>1. SinksOn(c, {s}, x) # {}
    BY <1>3 DEF is_complete
  <2>2. PICK t \in c.arcs : t[1] = s /\ t[2] = x
    BY <2>1 DEF SinksOn
  <2>3. b + 1 \in Nat
    OBVIOUS
  <2>4. t = <<t[1], t[2], t[3]>> /\ t[3] \in states(c)
    BY <1>3, <2>3, StatesBounded
  <2>5. t = <<s, x, t[3]>>
    BY <2>2, <2>4
  <2> QED
    BY <2>4, <2>5
<1> QED
  BY <1>3, <1>4, <1>5, <1>6, <1>7 DEF c, Total

(* What min_by_partition() returns has the language of the machine, and no   *)
(* two states with the same words ahead.                                     *)
LEMMA MinimisedIsDistinct ==
    ASSUME NEW m, Usual(m), Determinate(m), ~ StartGivesWay(m),
           complete(canonical_numbering(m)).final # {}
    PROVE  Distinct(min_by_partition(m)) /\ Accepted(min_by_partition(m)) = Accepted(m)
<1> DEFINE n == canonical_numbering(m)
           c == complete(n)
           d == MergeAlike(c)
           e == reachable_fm(d)
           g == canonical_numbering(e)
<1>7. c.final # {}
  OBVIOUS
<1>1. Usual(n) /\ Determinate(n) /\ n.start = {0} /\ Accepted(n) = Accepted(m)
  <2>1. Usual(n) /\ Determinate(n) /\ n.start = {0}
    BY CanonicalIsImage
  <2>2. Finite(m) /\ \E b \in Nat : Bounded(m, b)
    BY UsualIsFinite DEF Usual
  <2>3. Accepted(n) = Accepted(m)
    BY <2>2, CanonicalLanguage
  <2> QED
    BY <2>1, <2>3
<1>2. ~ \E l \in ToSet(Partition(c)) : 0 \in ToSet(l) /\ Representative(l) # 0
  BY DEF StartGivesWay
<1>3. min_by_partition(m) = g
  BY DEF min_by_partition
<1> HIDE DEF n
<1>4. Total(c) /\ Accepted(c) = Accepted(m) /\ c.start = {0}
  BY <1>1, CompletedIsTotal
<1>5. d = Merge(c, Partition(c))
  BY DEF MergeAlike
<1> HIDE DEF c, d
<1>6. PICK b \in Nat : Bounded(c, b)
  BY <1>4 DEF Total, Usual
<1>8. PICK h : h.lists = Partition(c) /\ Partitions(c, h) /\ Congruent(c, h)
  BY <1>4, <1>7, PartitionLeadsAlike
<1>9. Stands(c, h)
  <2>1. 0 \in states(c)
    BY <1>4, <1>6, StatesBounded
  <2>2. PICK i \in 1 .. Len(h.lists) : 0 \in Class(h, i)
    BY <1>8, <2>1 DEF Partitions
  <2>3. Standing(h.lists, 0) = Representative(h.lists[i])
    BY <1>8, <2>2, StandsForList
  <2>4. h.lists[i] \in ToSet(h.lists) /\ 0 \in ToSet(h.lists[i])
    <3>1. Listed(states(c), h)
      BY <1>8 DEF Partitions
    <3>2. DOMAIN h.lists = 1 .. Len(h.lists)
      BY <3>1, ListedMeans
    <3>3. i \in DOMAIN h.lists
      BY <3>2
    <3>4. h.lists[i] \in ToSet(h.lists)
      BY <3>3 DEF ToSet
    <3> QED
      BY <2>2, <3>4 DEF Class
  <2>5. Standing(h.lists, 0) = 0
    BY <1>2, <1>8, <2>3, <2>4
  <2> QED
    BY <1>4, <2>5 DEF Stands
<1>10. d = Merge(c, h.lists)
  BY <1>5, <1>8
<1>11. Usual(d) /\ Determinate(d)
  BY <1>4, <1>8, <1>9, <1>10, MergedIsImage
<1>12. PICK f : Image(c, d, f) /\ \A s, t \in states(c) : Beyond(c, s) = Beyond(c, t) => f[s] = f[t]
  BY <1>4, <1>8, <1>9, <1>10, MergedIsImage
<1>13. /\ \A s \in states(c) : Beyond(d, f[s]) = Beyond(c, s)
       /\ \A w \in Seq(Int) : \A v : Leads(d, w, v) <=> \E t \in states(c) : Leads(c, w, t) /\ v = f[t]
       /\ Accepted(d) = Accepted(c)
  BY <1>6, <1>12, ImageMeans
<1>14. PICK b2 \in Nat : Bounded(d, b2)
  BY <1>11 DEF Usual
<1>15. /\ states(e) = reachable_states(d) /\ e.start = d.start /\ Bounded(e, b2)
       /\ \A t : t \in e.arcs <=> t \in d.arcs /\ t[1] \in reachable_states(d)
       /\ \A w \in Seq(Int) : \A u : Leads(e, w, u) <=> Leads(d, w, u)
       /\ \A u \in states(e) : \E w \in Seq(Int) : Leads(e, w, u)
  BY <1>14, ReachablePartLeads
<1>16. \A u \in states(e) : Beyond(e, u) = Beyond(d, u)
  BY <1>14, BeyondReached
<1>17. Accepted(e) = Accepted(d)
  BY <1>11, <1>14, ReachableLanguage, UsualIsFinite
<1>18. Usual(e) /\ Determinate(e)
  <2>1. e.arcs \subseteq d.arcs
    BY <1>15
  <2>2. IsFiniteSet(e.arcs)
    BY <1>11, <2>1, FS_Subset DEF Usual
  <2> HIDE DEF e
  <2> QED
    BY <1>11, <1>15, <2>1, <2>2 DEF Usual, Determinate
<1> HIDE DEF e
<1>19. \A u \in states(e) : \E t \in states(c) : u = f[t]
  BY <1>13, <1>15
<1>20. \A u, v \in states(e) : Beyond(e, u) = Beyond(e, v) => u = v
  BY <1>12, <1>13, <1>16, <1>19
<1>21. Distinct(e)
  BY <1>15, <1>18, <1>20 DEF Distinct
<1>22. Distinct(g) /\ Accepted(g) = Accepted(m)
  BY <1>4, <1>13, <1>17, <1>21, CanonicalIsDistinct
<1> QED
  BY <1>3, <1>22

(* Hopminimize() keeps the language of the machine, unless the start state   *)
(* gives way to another.                                                     *)
THEOREM HopminimizeMeans ==
    ASSUME NEW m, Usual(m), Determinate(m), ~ StartGivesWay(m)
    PROVE  Accepted(DFA_Hopminimize(m)) = Accepted(m)
<1> DEFINE n == canonical_numbering(m)
           c == complete(n)
           d == MergeAlike(c)
           e == reachable_fm(d)
           g == canonical_numbering(e)
<1>1. DFA_Hopminimize(m) = g
  BY DEF DFA_Hopminimize, min_by_partition
<1>2. CASE c.final # {}
  BY <1>2, MinimisedIsDistinct DEF DFA_Hopminimize
<1>3. CASE c.final = {}
  <2>1. Usual(n) /\ Determinate(n) /\ Accepted(n) = Accepted(m)
    <3>1. Usual(n) /\ Determinate(n)
      BY CanonicalIsImage
    <3>2. Finite(m) /\ \E b \in Nat : Bounded(m, b)
      BY UsualIsFinite DEF Usual
    <3> QED
      BY <3>1, <3>2, CanonicalLanguage
  <2> HIDE DEF n
  <2>2. Total(c) /\ Accepted(c) = Accepted(m)
    BY <2>1, CompletedIsTotal
  <2>3. Finite(c) /\ Determinate(c)
    BY <2>2, UsualIsFinite DEF Total
  <2>4. d.final = {} /\ Finite(d) /\ Determinate(d)
    <3>1. d.final = {s \in c.final : Standing(Partition(c), s) = s}
      BY DEF MergeAlike, Merge, Standing
    <3>2. Finite(d) /\ Determinate(d)
      BY <2>3, MergedMachine DEF MergeAlike
    <3> QED
      BY <1>3, <3>1, <3>2
  <2> HIDE DEF c, d
  <2>5. e.final = {} /\ Finite(e) /\ is_deterministic(e)
    <3>1. Finite(e) /\ Determinate(e)
      BY <2>4, FiniteReachable
    <3> DEFINE B == d.final \cap reachable_states(d)
               C == {t \in d.arcs : t[1] \in reachable_states(d) /\ t[3] \in reachable_states(d)}
    <3>2. e = [d EXCEPT !.final = B, !.arcs = C]
      BY DEF reachable_fm
    <3>3. B = {}
      BY <2>4
    <3> HIDE DEF B, C, e
    <3>4. e = [start |-> d.start, final |-> B, arcs |-> C]
      BY <2>4, <3>2, FieldsReplaced DEF Finite
    <3> QED
      BY <3>1, <3>3, <3>4, DeterministicMeans
  <2> HIDE DEF e
  <2>6. g.final = {}
    <3>1. PICK met \in Seq(states(e)) : g = Renumbering(e, met)
      BY <2>5, CanonicalNumbers
    <3> HIDE DEF g
    <3> QED
      BY <2>5, <3>1 DEF Renumbering
  <2>7. Accepted(g) = {}
    BY <2>6 DEF Accepted
  <2>8. Accepted(c) = {}
    BY <1>3 DEF Accepted
  <2> QED
    BY <1>1, <2>2, <2>7, <2>8
<1> QED
  BY <1>2, <1>3

(* Hopcroft's partition minimises: without its useless states, such as the   *)
(* sink that completing adds, what min_by_partition() returns is minimal for *)
(* the language of the machine, unless the start state gives way to another. *)
THEOREM PartitionMinimises ==
    ASSUME NEW m, Usual(m), Determinate(m), Accepted(m) # {}, ~ StartGivesWay(m)
    PROVE  /\ Minimal(useful_fm(min_by_partition(m)))
           /\ Accepted(useful_fm(min_by_partition(m))) = Accepted(m)
<1> DEFINE n == canonical_numbering(m)
           c == complete(n)
<1>1. c.final # {}
  <2>1. Usual(n) /\ Determinate(n)
    BY CanonicalIsImage
  <2>2. Finite(m) /\ \E b \in Nat : Bounded(m, b)
    BY UsualIsFinite DEF Usual
  <2>3. Accepted(n) = Accepted(m)
    BY <2>2, CanonicalLanguage
  <2> HIDE DEF n
  <2>4. Accepted(c) = Accepted(m)
    BY <2>1, <2>3, CompletedIsTotal
  <2> QED
    BY <2>4 DEF Accepted
<1>2. Distinct(min_by_partition(m)) /\ Accepted(min_by_partition(m)) = Accepted(m)
  BY <1>1, MinimisedIsDistinct
<1> QED
  BY <1>2, UsefulIsMinimal

-----------------------------------------------------------------------------
(***************************************************************************)
(* The machines an adapter can hold. Their states are naturals and         *)
(* finitely many, whatever the calls; that, and that those of a DFA are    *)
(* deterministic, is the invariant from which it follows that its two ways *)
(* of minimising always agree.                                             *)
(***************************************************************************)

(* A finite set of natural numbers is bounded.                               *)
LEMMA FiniteNaturals ==
    ASSUME NEW S \in SUBSET Nat, IsFiniteSet(S)
    PROVE  \E b \in Nat : \A s \in S : s <= b
<1>1. PICK n \in Nat : ExistsBijection(1 .. n, S)
  BY FS_NatBijection
<1>2. PICK f \in [1 .. n -> S] : \A s \in S : \E i \in 1 .. n : f[i] = s
  BY <1>1 DEF ExistsBijection, Bijection, Surjection
<1> DEFINE T == {k \in Nat : \E b \in Nat : \A i \in 1 .. n : i <= k => f[i] <= b}
<1>3. 0 \in T
  OBVIOUS
<1>4. ASSUME NEW k \in Nat, k \in T PROVE k + 1 \in T
  <2>1. PICK b \in Nat : \A i \in 1 .. n : i <= k => f[i] <= b
    BY <1>4
  <2>2. \E a \in Nat : \A i \in 1 .. n : i <= k + 1 => f[i] <= a
    <3>1. CASE k + 1 \in 1 .. n
      <4> DEFINE j == k + 1
                 a == b + f[j]
      <4>1. \A i \in 1 .. n : f[i] \in Nat
        OBVIOUS
      <4>2. j \in 1 .. n /\ f[j] \in Nat
        BY <3>1, <4>1
      <4>3. \A i \in 1 .. n : i <= k + 1 => i <= k \/ i = j
        OBVIOUS
      <4> HIDE DEF j
      <4>4. a \in Nat /\ a >= b /\ a >= f[j]
        BY <4>2
      <4> HIDE DEF a
      <4>5. ASSUME NEW i \in 1 .. n, i <= k + 1 PROVE f[i] <= a
        <5>1. i <= k => f[i] <= b
          BY <2>1
        <5>2. f[i] \in Nat /\ (i <= k \/ i = j)
          BY <4>1, <4>3, <4>5
        <5> QED
          BY <4>2, <4>4, <5>1, <5>2
      <4> QED
        BY <4>4, <4>5
    <3>2. CASE k + 1 \notin 1 .. n
      <4>1. \A i \in 1 .. n : i <= k + 1 => i <= k
        BY <3>2
      <4> QED
        BY <2>1, <4>1
    <3> QED
      BY <3>1, <3>2
  <2> QED
    BY <2>2
<1>5. n \in T
  <2> HIDE DEF T
  <2> QED
    BY <1>3, <1>4, NumberInduction
<1>6. PICK b \in Nat : \A i \in 1 .. n : i <= n => f[i] <= b
  BY <1>5
<1>7. \A i \in 1 .. n : i <= n
  OBVIOUS
<1>8. \A s \in S : s <= b
  BY <1>2, <1>6, <1>7
<1> QED
  BY <1>8

(* A finite machine whose states are natural numbers.                        *)
LEMMA NaturalIsUsual ==
    ASSUME NEW m, Finite(m), m.start \subseteq Nat, m.final \subseteq Nat,
           m.arcs \subseteq Nat \X Int \X Nat
    PROVE  Usual(m)
<1>1. IsFiniteSet(states(m)) /\ m.start \subseteq states(m) /\ m.final \subseteq states(m)
      /\ \A t \in m.arcs : t[1] \in states(m) /\ t[3] \in states(m)
  BY FiniteStates
<1>2. states(m) \subseteq Nat
  <2>1. \A t \in m.arcs : t[1] \in Nat /\ t[3] \in Nat
    OBVIOUS
  <2> QED
    BY <2>1 DEF states
<1>3. PICK b \in Nat : \A s \in states(m) : s <= b
  BY <1>1, <1>2, FiniteNaturals
<1>4. states(m) \subseteq 0 .. b
  BY <1>2, <1>3
<1>5. m.arcs \subseteq (0 .. b) \X Int \X (0 .. b)
  <2> SUFFICES ASSUME NEW t \in m.arcs PROVE t \in (0 .. b) \X Int \X (0 .. b)
    OBVIOUS
  <2>1. t = <<t[1], t[2], t[3]>> /\ t[2] \in Int
    OBVIOUS
  <2>2. t[1] \in 0 .. b /\ t[3] \in 0 .. b
    BY <1>1, <1>4
  <2> QED
    BY <2>1, <2>2
<1>6. m.start \subseteq 0 .. b /\ m.final \subseteq 0 .. b
  BY <1>1, <1>4
<1>7. m = [start |-> m.start, final |-> m.final, arcs |-> m.arcs] /\ IsFiniteSet(m.arcs)
  BY DEF Finite
<1>8. Bounded(m, b)
  BY <1>5, <1>6, <1>7 DEF Bounded
<1> QED
  BY <1>7, <1>8 DEF Usual

(* What is known of the three sets of a usual machine.                       *)
LEMMA UsualIsNatural ==
    ASSUME NEW m, Usual(m)
    PROVE  /\ Finite(m) /\ m.start \subseteq Nat /\ m.final \subseteq Nat
           /\ m.arcs \subseteq Nat \X Int \X Nat
           /\ \A t \in m.arcs : t[1] \in Nat /\ t[2] \in Int /\ t[3] \in Nat
<1>1. PICK b \in Nat : Bounded(m, b)
  BY DEF Usual
<1>2. m.start \subseteq 0 .. b /\ m.final \subseteq 0 .. b /\ m.arcs \subseteq (0 .. b) \X Int \X (0 .. b)
  BY <1>1 DEF Bounded
<1>3. 0 .. b \subseteq Nat
  OBVIOUS
<1>4. m.start \subseteq Nat /\ m.final \subseteq Nat /\ m.arcs \subseteq Nat \X Int \X Nat
  BY <1>2, <1>3
<1> QED
  BY <1>4, UsualIsFinite

(* operator ^= numbers the second machine's states after the first one's.    *)
LEMMA UsualCatenate ==
    ASSUME NEW m, Usual(m), NEW o, Usual(o)
    PROVE  Usual(catenate(m, o))
<1> DEFINE b == renumber(o, max_state(m) + 1)
           T == Redirected(b)
           N == {<<g, t[2], t[3]>> : g \in m.final, t \in T}
           K == b.arcs \ Dropped(b)
           B == IF o.start \cap o.final # {} THEN m.final \cup b.final ELSE b.final
           C == m.arcs \cup N \cup K
           r == catenate(m, o)
<1>1. Finite(r)
  BY UsualIsFinite, FiniteCatenate
<1>2. r.start = m.start /\ r.final = B /\ r.arcs = C
  BY DEF catenate
<1>3. Usual(b)
  <2>1. PICK k \in Nat : Bounded(m, k)
    BY DEF Usual
  <2>2. PICK l \in Nat : Bounded(o, l)
    BY DEF Usual
  <2>3. max_state(m) \in 0 .. k
    BY <2>1, StatesBounded
  <2> DEFINE d == max_state(m) + 1
  <2>4. d \in Nat
    BY <2>3
  <2> HIDE DEF d
  <2>5. Bounded(renumber(o, d), l + d) /\ l + d \in Nat
    BY <2>2, <2>4, Renumbered
  <2>6. Finite(renumber(o, d))
    BY UsualIsFinite, FiniteRenumber
  <2> QED
    BY <2>5, <2>6 DEF Usual, Finite, d
<1> HIDE DEF b, r
<1>4. /\ b.final \subseteq Nat /\ b.arcs \subseteq Nat \X Int \X Nat
      /\ \A t \in b.arcs : t[1] \in Nat /\ t[2] \in Int /\ t[3] \in Nat
  BY <1>3, UsualIsNatural
<1>5. m.start \subseteq Nat /\ m.final \subseteq Nat /\ m.arcs \subseteq Nat \X Int \X Nat
  BY UsualIsNatural
<1>6. N \subseteq Nat \X Int \X Nat
  BY <1>4, <1>5 DEF Redirected
<1>7. B \subseteq Nat /\ C \subseteq Nat \X Int \X Nat
  BY <1>4, <1>5, <1>6
<1> HIDE DEF B, C
<1>8. Usual(r)
  BY <1>1, <1>2, <1>5, <1>7, NaturalIsUsual
<1> QED
  BY <1>8 DEF r

(* The numbers that shuffle() gives to pairs are natural.                    *)
LEMMA UsualShuffle ==
    ASSUME NEW m, Usual(m), NEW o, Usual(o)
    PROVE  Usual(Shuffled(m, o))
<1> DEFINE n == number_of_states(m)
           Pair(s, u) == s + u * n
           A == {Pair(s, u) : s \in m.start, u \in o.start}
           B == {Pair(s, u) : s \in m.final, u \in o.final}
           C == {<<Pair(t[1], k), t[2], Pair(t[3], k)>> :
                    t \in m.arcs, k \in 0 .. number_of_states(o) - 1}
           D == {<<Pair(k, t[1]), t[2], Pair(k, t[3])>> :
                    t \in o.arcs, k \in 0 .. number_of_states(m) - 1}
           r == Shuffled(m, o)
<1>1. Finite(r)
  BY UsualIsFinite, FiniteShuffle
<1>2. r.start = A /\ r.final = B /\ r.arcs = C \cup D
  BY DEF Shuffled
<1>3. n \in Nat
  BY UsualIsFinite, FiniteStates
<1> HIDE DEF n
<1>4. \A s, u \in Nat : Pair(s, u) \in Nat
  <2> SUFFICES ASSUME NEW s \in Nat, NEW u \in Nat PROVE s + u * n \in Nat
    OBVIOUS
  <2>1. u * n \in Nat
    BY <1>3
  <2> QED
    BY <2>1
<1>5. \A k \in 0 .. number_of_states(o) - 1 : k \in Nat
  OBVIOUS
<1>6. \A k \in 0 .. number_of_states(m) - 1 : k \in Nat
  OBVIOUS
<1> HIDE DEF Pair, r
<1>7. /\ m.start \subseteq Nat /\ m.final \subseteq Nat
      /\ \A t \in m.arcs : t[1] \in Nat /\ t[2] \in Int /\ t[3] \in Nat
  BY UsualIsNatural
<1>8. /\ o.start \subseteq Nat /\ o.final \subseteq Nat
      /\ \A t \in o.arcs : t[1] \in Nat /\ t[2] \in Int /\ t[3] \in Nat
  BY UsualIsNatural
<1>9. A \subseteq Nat /\ B \subseteq Nat
  <2>1. ASSUME NEW e \in A PROVE e \in Nat
    <3>1. PICK s \in m.start, u \in o.start : e = Pair(s, u)
      OBVIOUS
    <3>2. s \in Nat /\ u \in Nat
      BY <1>7, <1>8
    <3> QED
      BY <1>4, <3>1, <3>2
  <2>2. ASSUME NEW e \in B PROVE e \in Nat
    <3>1. PICK s \in m.final, u \in o.final : e = Pair(s, u)
      OBVIOUS
    <3>2. s \in Nat /\ u \in Nat
      BY <1>7, <1>8
    <3> QED
      BY <1>4, <3>1, <3>2
  <2> HIDE DEF A, B
  <2> QED
    BY <2>1, <2>2
<1>10. C \subseteq Nat \X Int \X Nat
  <2>1. ASSUME NEW e \in C PROVE e \in Nat \X Int \X Nat
    <3>1. PICK t \in m.arcs, k \in 0 .. number_of_states(o) - 1 : e = <<Pair(t[1], k), t[2], Pair(t[3], k)>>
      OBVIOUS
    <3> HIDE DEF C
    <3>2. t[1] \in Nat /\ t[2] \in Int /\ t[3] \in Nat /\ k \in Nat
      BY <1>5, <1>7
    <3> DEFINE p == t[1]
               q == t[3]
    <3>a. p \in Nat /\ q \in Nat
      BY <3>2
    <3> HIDE DEF p, q
    <3>3. Pair(p, k) \in Nat /\ Pair(q, k) \in Nat
      BY <1>4, <3>2, <3>a
    <3> QED
      BY <3>1, <3>2, <3>3 DEF p, q
  <2> HIDE DEF C
  <2> QED
    BY <2>1
<1>11. D \subseteq Nat \X Int \X Nat
  <2>1. ASSUME NEW e \in D PROVE e \in Nat \X Int \X Nat
    <3>1. PICK t \in o.arcs, k \in 0 .. number_of_states(m) - 1 : e = <<Pair(k, t[1]), t[2], Pair(k, t[3])>>
      OBVIOUS
    <3> HIDE DEF D
    <3>2. t[1] \in Nat /\ t[2] \in Int /\ t[3] \in Nat /\ k \in Nat
      BY <1>6, <1>8
    <3> DEFINE p == t[1]
               q == t[3]
    <3>a. p \in Nat /\ q \in Nat
      BY <3>2
    <3> HIDE DEF p, q
    <3>3. Pair(k, p) \in Nat /\ Pair(k, q) \in Nat
      BY <1>4, <3>2, <3>a
    <3> QED
      BY <3>1, <3>2, <3>3 DEF p, q
  <2> HIDE DEF D
  <2> QED
    BY <2>1
<1> HIDE DEF A, B, C, D
<1>12. Usual(r)
  BY <1>1, <1>2, <1>9, <1>10, <1>11, NaturalIsUsual
<1> QED
  BY <1>12 DEF r

(* Operations on usual machines return usual machines.                       *)
LEMMA UsualResults ==
    ASSUME NEW m, Usual(m), NEW o, Usual(o)
    PROVE  /\ Usual(reverse(m)) /\ Usual(complete(m)) /\ Usual(unite(m, o)) /\ Usual(plus(m))
           /\ Usual(star(m)) /\ Usual(reachable_fm(m)) /\ Usual(reduce(m))
           /\ Usual(cross_product(m, o)) /\ Usual(shuffle(m, o)) /\ Usual(catenate(m, o))
<1>1. Finite(m) /\ Finite(o)
  BY UsualIsFinite
<1>2. PICK b \in Nat : Bounded(m, b)
  BY DEF Usual
<1>3. PICK c \in Nat : Bounded(o, c)
  BY DEF Usual
<1>4. /\ Finite(reverse(m)) /\ Finite(complete(m)) /\ Finite(unite(m, o)) /\ Finite(plus(m))
      /\ Finite(star(m)) /\ Finite(reachable_fm(m)) /\ Finite(reduce(m))
      /\ Finite(cross_product(m, o))
  BY <1>1, FiniteResults
<1>5. ASSUME NEW r, Finite(r), NEW e \in Nat, Bounded(r, e) PROVE Usual(r)
  BY <1>5 DEF Usual, Finite
<1>6. Usual(reverse(m))
  BY <1>2, <1>4, <1>5, ReverseLanguage
<1>7. Usual(complete(m))
  <2>1. Bounded(complete(m), b + 1) /\ b + 1 \in Nat
    BY <1>1, <1>2, CompletedMachine
  <2> QED
    BY <1>4, <1>5, <2>1
<1>8. Usual(unite(m, o))
  <2>1. \E e \in Nat : Bounded(unite(m, o), e)
    BY <1>2, <1>3, UnionLanguage
  <2> QED
    BY <1>4, <1>5, <2>1
<1>9. Usual(plus(m))
  BY <1>2, <1>4, <1>5, PlusLanguage
<1>10. Usual(star(m))
  <2>1. Bounded(star(m), b + 1) /\ b + 1 \in Nat
    BY <1>2, StarLanguage
  <2> QED
    BY <1>4, <1>5, <2>1
<1>11. Usual(reachable_fm(m))
  BY <1>2, <1>4, <1>5, ReachableLanguage
<1>12. Usual(reduce(m))
  BY <1>2, <1>4, <1>5, ReduceLanguage
<1>13. Usual(cross_product(m, o))
  <2>1. \E e \in Nat : Bounded(cross_product(m, o), e)
    BY <1>2, <1>3, CrossLanguage
  <2> QED
    BY <1>4, <1>5, <2>1
<1>14. Usual(shuffle(m, o))
  <2>1. ASSUME NEW n, Usual(n) PROVE Usual(canonical_numbering(n))
    <3>1. CASE is_deterministic(n)
      BY <2>1, <3>1, UsualIsFinite, DeterministicMeans, CanonicalIsImage
    <3>2. CASE ~ is_deterministic(n)
      BY <2>1, <3>2 DEF canonical_numbering
    <3> QED
      BY <3>1, <3>2
  <2> DEFINE p == canonical_numbering(m)
             q == canonical_numbering(o)
  <2>2. Usual(p) /\ Usual(q)
    BY <2>1
  <2>3. shuffle(m, o) = Shuffled(p, q)
    BY DEF shuffle
  <2> HIDE DEF p, q
  <2> QED
    BY <2>2, <2>3, UsualShuffle
<1>15. Usual(catenate(m, o))
  BY UsualCatenate
<1> QED
  BY <1>6, <1>7, <1>8, <1>9, <1>10, <1>11, <1>12, <1>13, <1>14, <1>15

(* So does making them deterministic ...                                     *)
LEMMA UsualSubset ==
    ASSUME NEW m, Usual(m)
    PROVE  Usual(subset(m)) /\ Usual(Deterministic(m))
<1>1. PICK b \in Nat : Bounded(m, b)
  BY DEF Usual
<1>2. Finite(m) /\ Finite(subset(m))
  BY UsualIsFinite, SubsetIsDeterministic
<1>3. \E c \in Nat : Bounded(subset(m), c)
  BY <1>1, <1>2, SubsetLanguage
<1>4. Usual(subset(m))
  BY <1>2, <1>3 DEF Usual, Finite
<1> QED
  BY <1>4 DEF Deterministic

(* ... and minimising them, which numbers the states anew.                   *)
LEMMA UsualMinimised ==
    ASSUME NEW m, Usual(m), is_deterministic(m)
    PROVE  Usual(min_by_partition(m))
<1> DEFINE n == canonical_numbering(m)
           c == complete(n)
           d == MergeAlike(c)
           e == reachable_fm(d)
           g == canonical_numbering(e)
<1>1. min_by_partition(m) = g
  BY DEF min_by_partition
<1>2. Usual(n) /\ Determinate(n)
  BY UsualIsFinite, DeterministicMeans, CanonicalIsImage
<1> HIDE DEF n
<1>3. Finite(c) /\ Determinate(c)
  BY <1>2, CompletedIsTotal, UsualIsFinite DEF Total
<1> HIDE DEF c
<1>4. Finite(d) /\ Determinate(d)
  BY <1>3, MergedMachine DEF MergeAlike
<1> HIDE DEF d
<1>5. Finite(e) /\ is_deterministic(e)
  BY <1>4, FiniteReachable, DeterministicMeans
<1> HIDE DEF e
<1>6. Finite(g) /\ \E b \in Nat : Bounded(g, b)
  BY <1>5, CanonicalMachine
<1> QED
  BY <1>1, <1>6 DEF Usual, Finite

(* The machines in files are usual.                                          *)
LEMMA FilesAreUsual == \A m \in Dfas \cup Nfas : Usual(m)
<1> SUFFICES ASSUME NEW m \in Dfas \cup Nfas PROVE Usual(m)
  OBVIOUS
<1>1. m \in [start : SUBSET Nat, final : SUBSET Nat, arcs : SUBSET (Nat \X Int \X Nat)]
  BY FilesAssumption
<1>2. m.start \subseteq Nat /\ m.final \subseteq Nat /\ m.arcs \subseteq Nat \X Int \X Nat
  BY <1>1
<1>3. Finite(m)
  BY FilesAreFinite
<1> QED
  BY <1>2, <1>3, NaturalIsUsual

(* What the adapter holds is deterministic when it is a DFA, and usual.      *)
HeldIsUsual == Usual(held) /\ DfaStaysDeterministic

(* An adapter that was just made holds an empty machine.                     *)
LEMMA HeldIsUsualAtFirst == AdapterInit => HeldIsUsual
<1> SUFFICES ASSUME AdapterInit PROVE HeldIsUsual
  OBVIOUS
<1>1. Finite(held) /\ held.start = {} /\ held.final = {} /\ held.arcs = {}
  <2>1. AdapterInv
    BY AdapterInitHolds
  <2> QED
    BY <2>1 DEF AdapterInv, AdapterInit, Clear
<1>2. Usual(held)
  BY <1>1, NaturalIsUsual
<1> QED
  BY <1>2, AdapterInitHolds DEF AdapterInv, HeldIsUsual

(* A call after the other leaves it so.                                      *)
LEMMA HeldStaysUsual == HeldIsUsual /\ [AdapterNext]_adapterVars => HeldIsUsual'
<1> SUFFICES ASSUME HeldIsUsual, [AdapterNext]_adapterVars PROVE HeldIsUsual'
  OBVIOUS
<1>1. Usual(held) /\ DfaStaysDeterministic /\ Finite(held)
  BY UsualIsFinite DEF HeldIsUsual
<1>2. DfaStaysDeterministic'
  BY <1>1, AdapterStepHolds DEF AdapterInv
<1>3. Usual(held')
  <2>1. CASE ReadFile
    BY <2>1, FilesAreUsual DEF ReadFile
  <2>2. CASE CallDfa
    <3>1. PICK o \in Dfas : held' \in DfaResults(held, o)
      BY <2>2 DEF CallDfa
    <3>2. Usual(o) /\ is_deterministic(held)
      BY <1>1, <2>2, FilesAreUsual DEF CallDfa, DfaStaysDeterministic
    <3>3. CASE held' = DFA_Hopminimize(held)
      BY <1>1, <3>2, <3>3, UsualMinimised DEF DFA_Hopminimize
    <3>4. CASE held' # DFA_Hopminimize(held)
      <4>1. \E n : Usual(n) /\ held' = Deterministic(n)
        <5>1. /\ Usual(reverse(held)) /\ Usual(complete(held)) /\ Usual(unite(held, o)) /\ Usual(plus(held))
              /\ Usual(star(held)) /\ Usual(reachable_fm(held)) /\ Usual(reduce(held))
              /\ Usual(cross_product(held, o)) /\ Usual(shuffle(held, o)) /\ Usual(catenate(held, o))
          BY <1>1, <3>2, UsualResults
        <5> QED
          BY <3>1, <3>4, <5>1
          DEF DfaResults, DFA_reverse, DFA_complete, DFA_uniondfa, DFA_plus, DFA_star, DFA_reachable,
              DFA_reduce, DFA_cross, DFA_shuffle, DFA_concat
      <4> QED
        BY <4>1, UsualSubset
    <3> QED
      BY <3>3, <3>4
  <2>3. CASE CallNfa
    <3>1. PICK o \in Nfas : held' \in NfaResults(held, o)
      BY <2>3 DEF CallNfa
    <3>2. Usual(o)
      BY FilesAreUsual
    <3>3. /\ Usual(reverse(held)) /\ Usual(complete(held)) /\ Usual(unite(held, o)) /\ Usual(plus(held))
          /\ Usual(star(held)) /\ Usual(reachable_fm(held)) /\ Usual(reduce(held))
          /\ Usual(shuffle(held, o)) /\ Usual(catenate(held, o))
      BY <1>1, <3>2, UsualResults
    <3>4. Usual(cross_product(held, held)) /\ Usual(subset(unite(held, o)))
      BY <1>1, <3>3, UsualResults, UsualSubset
    <3> QED
      BY <3>1, <3>3, <3>4
      DEF NfaResults, NFA_reverse, NFA_unionnfa, NFA_plus, NFA_star, NFA_reachable, NFA_reduce,
          NFA_complete, NFA_cross, NFA_shuffle, NFA_concat
  <2>4. CASE NfaToDfa
    BY <1>1, <2>4, UsualSubset DEF NfaToDfa, DFA_nfatodfa
  <2>5. CASE DfaToNfa
    BY <1>1, <2>5 DEF DfaToNfa
  <2>6. CASE UNCHANGED adapterVars
    BY <1>1, <2>6 DEF adapterVars
  <2> QED
    BY <2>1, <2>2, <2>3, <2>4, <2>5, <2>6 DEF AdapterNext
<1> QED
  BY <1>2, <1>3 DEF HeldIsUsual

(* Of a deterministic machine both ways of minimising give one machine.      *)
LEMMA HeldMinimisesAlike == HeldIsUsual => MinimisersAgree
<1> SUFFICES ASSUME HeldIsUsual, class = "DFA", reachable_states(held) \cap held.final # {},
                    ~ StartGivesWay(held)
             PROVE  canonical_numbering(useful_fm(DFA_Hopminimize(held))) = canonical_numbering(ByReversal(held))
  BY DEF MinimisersAgree
<1>1. Usual(held) /\ Determinate(held)
  BY UsualIsFinite, DeterministicMeans DEF HeldIsUsual, DfaStaysDeterministic
<1>2. PICK b \in Nat : Bounded(held, b)
  BY <1>1 DEF Usual
<1>3. Accepted(held) # {}
  <2>1. PICK u \in held.final : u \in reachable_states(held)
    OBVIOUS
  <2>2. PICK w \in Seq(Int) : Leads(held, w, u)
    BY <1>2, <2>1, ReachedByWords
  <2>3. w \in Accepted(held)
    BY <2>1, <2>2 DEF Leads, Accepted
  <2> QED
    BY <2>3
<1> DEFINE m == held
           p == useful_fm(min_by_partition(m))
           q == ByReversal(m)
<1>4. Minimal(p) /\ Accepted(p) = Accepted(m)
  BY <1>1, <1>3, PartitionMinimises
<1>5. Minimal(q) /\ Accepted(q) = Accepted(m)
  BY <1>1, <1>3, ReversalMinimises
<1>6. p = useful_fm(DFA_Hopminimize(held))
  BY DEF DFA_Hopminimize
<1> HIDE DEF p, q
<1>7. canonical_numbering(p) = canonical_numbering(q)
  BY <1>4, <1>5, OneCanonicalMachine
<1> QED
  BY <1>6, <1>7 DEF q

(* MinimisersAgree for every set of files: whatever calls built a DFA,       *)
(* Hopminimize() and fmminrev's two reversals make one machine of it, up to  *)
(* the sink, unless the start state gives way.                               *)
THEOREM MinimisersAlwaysAgree == AdapterSpec => []MinimisersAgree
<1>1. AdapterInit => HeldIsUsual
  BY HeldIsUsualAtFirst
<1>2. HeldIsUsual /\ [AdapterNext]_adapterVars => HeldIsUsual'
  BY HeldStaysUsual
<1>3. HeldIsUsual => MinimisersAgree
  BY HeldMinimisesAlike
<1> QED
  BY <1>1, <1>2, <1>3, PTL DEF AdapterSpec

-----------------------------------------------------------------------------
(***************************************************************************)
(* What shuffle() accepts: the words that mix one of each machine, the     *)
(* letters of either in their order. It pairs the states by number, so it  *)
(* matters that the machines it pairs are numbered without a gap.          *)
(***************************************************************************)
(* Places that rise, and two ways through a word that part its places: one   *)
(* spells u, the other v.                                                    *)
Climbs(f, n) == \A i, j \in 1 .. n : i < j => f[i] < f[j]
Parts(f, g, w, u, v) ==
    /\ f \in [1 .. Len(u) -> 1 .. Len(w)] /\ g \in [1 .. Len(v) -> 1 .. Len(w)]
    /\ Climbs(f, Len(u)) /\ Climbs(g, Len(v))
    /\ \A k \in 1 .. Len(w) : (\E i \in 1 .. Len(u) : f[i] = k) <=> ~ \E j \in 1 .. Len(v) : g[j] = k
    /\ \A i \in 1 .. Len(u) : w[f[i]] = u[i]
    /\ \A j \in 1 .. Len(v) : w[g[j]] = v[j]
Mixed(w, u, v) == \E f, g : Parts(f, g, w, u, v)

(* It does not matter which of the two words comes first.                    *)
LEMMA MixedSwaps ==
    ASSUME NEW w, NEW u, NEW v, Mixed(w, u, v)
    PROVE  Mixed(w, v, u)
<1>1. PICK f, g : Parts(f, g, w, u, v)
  BY DEF Mixed
<1>2. Parts(g, f, w, v, u)
  BY <1>1 DEF Parts
<1> QED
  BY <1>2 DEF Mixed

(* The empty word mixes empty words.                                         *)
LEMMA MixedNothing ==
    ASSUME NEW u \in Seq(Int), NEW v \in Seq(Int)
    PROVE  Mixed(<<>>, u, v) <=> u = <<>> /\ v = <<>>
<1>1. Len(<<>>) = 0 /\ Len(u) \in Nat /\ Len(v) \in Nat
  BY LenProperties
<1>2. ASSUME Mixed(<<>>, u, v) PROVE u = <<>> /\ v = <<>>
  <2>1. PICK f, g : Parts(f, g, <<>>, u, v)
    BY <1>2 DEF Mixed
  <2>2. (\A i \in 1 .. Len(u) : f[i] \in 1 .. 0) /\ \A j \in 1 .. Len(v) : g[j] \in 1 .. 0
    BY <1>1, <2>1 DEF Parts
  <2>3. Len(u) = 0 /\ Len(v) = 0
    BY <1>1, <2>2
  <2> QED
    BY <2>3, EmptySeq
<1>3. ASSUME u = <<>>, v = <<>> PROVE Mixed(<<>>, u, v)
  <2> DEFINE f == [i \in 1 .. 0 |-> 0]
  <2>1. f \in [1 .. 0 -> 1 .. 0]
    OBVIOUS
  <2>2. Parts(f, f, <<>>, <<>>, <<>>)
    BY <1>1, <2>1 DEF Parts, Climbs
  <2> QED
    BY <1>3, <2>2 DEF Mixed
<1> QED
  BY <1>2, <1>3

(* One letter more, in the word and in one of the two.                       *)
LEMMA MixedLetter ==
    ASSUME NEW w \in Seq(Int), NEW u \in Seq(Int), NEW v \in Seq(Int), NEW x \in Int, Mixed(w, u, v)
    PROVE  Mixed(Append(w, x), Append(u, x), v)
<1> DEFINE n == Len(w)
           m == Len(u)
           w1 == Append(w, x)
           u1 == Append(u, x)
<1>1. /\ n \in Nat /\ m \in Nat /\ Len(v) \in Nat
      /\ Len(w1) = n + 1 /\ w1[n + 1] = x /\ \A k \in 1 .. n : w1[k] = w[k]
      /\ Len(u1) = m + 1 /\ u1[m + 1] = x /\ \A k \in 1 .. m : u1[k] = u[k]
  BY AppendProperties, LenProperties
<1>2. PICK f, g : Parts(f, g, w, u, v)
  BY DEF Mixed
<1>3. /\ \A i \in 1 .. m : f[i] \in 1 .. n
      /\ \A j \in 1 .. Len(v) : g[j] \in 1 .. n
      /\ \A i, j \in 1 .. m : i < j => f[i] < f[j]
      /\ \A k \in 1 .. n : (\E i \in 1 .. m : f[i] = k) <=> ~ \E j \in 1 .. Len(v) : g[j] = k
      /\ \A i \in 1 .. m : w[f[i]] = u[i]
      /\ \A j \in 1 .. Len(v) : w[g[j]] = v[j]
  BY <1>2 DEF Parts, Climbs
<1> HIDE DEF n, m, w1, u1
<1> DEFINE h == [i \in 1 .. m + 1 |-> IF i = m + 1 THEN n + 1 ELSE f[i]]
<1>4. h[m + 1] = n + 1 /\ \A i \in 1 .. m : h[i] = f[i] /\ i # m + 1 /\ i \in 1 .. m + 1
  BY <1>1
<1>5. \A i \in 1 .. m + 1 : i \in 1 .. m \/ i = m + 1
  BY <1>1
<1>6. h \in [1 .. m + 1 -> 1 .. n + 1]
  <2>1. \A k \in 1 .. n : k \in 1 .. n + 1
    BY <1>1
  <2>2. n + 1 \in 1 .. n + 1
    BY <1>1
  <2> QED
    BY <1>3, <1>4, <1>5, <2>1, <2>2
<1> HIDE DEF h
<1>7. g \in [1 .. Len(v) -> 1 .. n + 1]
  <2>1. g \in [1 .. Len(v) -> 1 .. n]
    BY <1>2 DEF Parts, n
  <2>2. 1 .. n \subseteq 1 .. n + 1
    BY <1>1
  <2> QED
    BY <2>1, <2>2
<1>8. Climbs(h, m + 1)
  <2>1. ASSUME NEW i \in 1 .. m + 1, NEW j \in 1 .. m + 1, i < j PROVE h[i] < h[j]
    <3>1. i \in 1 .. m
      BY <1>1, <2>1
    <3>2. h[i] = f[i] /\ f[i] \in 1 .. n
      BY <1>3, <1>4, <3>1
    <3>3. CASE j = m + 1
      BY <1>1, <1>4, <3>2, <3>3
    <3>4. CASE j \in 1 .. m
      BY <1>3, <1>4, <2>1, <3>1, <3>4
    <3> QED
      BY <1>5, <3>3, <3>4
  <2> QED
    BY <2>1 DEF Climbs
<1>9. ASSUME NEW k \in 1 .. n + 1
      PROVE  (\E i \in 1 .. m + 1 : h[i] = k) <=> ~ \E j \in 1 .. Len(v) : g[j] = k
  <2>1. CASE k = n + 1
    <3>1. \E i \in 1 .. m + 1 : h[i] = k
      BY <1>1, <1>4, <2>1
    <3>2. \A j \in 1 .. Len(v) : g[j] # k
      BY <1>1, <1>3, <2>1
    <3> QED
      BY <3>1, <3>2
  <2>2. CASE k \in 1 .. n
    <3>1. (\E i \in 1 .. m + 1 : h[i] = k) <=> \E i \in 1 .. m : f[i] = k
      <4>1. k # n + 1
        BY <1>1, <2>2
      <4> QED
        BY <1>4, <1>5, <4>1
    <3> QED
      BY <1>3, <2>2, <3>1
  <2> QED
    BY <1>1, <2>1, <2>2
<1>10. ASSUME NEW i \in 1 .. m + 1 PROVE w1[h[i]] = u1[i]
  <2>1. CASE i \in 1 .. m
    <3>1. h[i] = f[i] /\ f[i] \in 1 .. n /\ w[f[i]] = u[i]
      BY <1>3, <1>4, <2>1
    <3> QED
      BY <1>1, <2>1, <3>1
  <2>2. CASE i = m + 1
    BY <1>1, <1>4, <2>2
  <2> QED
    BY <1>5, <2>1, <2>2
<1>11. \A j \in 1 .. Len(v) : w1[g[j]] = v[j]
  BY <1>1, <1>3
<1>12. Climbs(g, Len(v))
  BY <1>2 DEF Parts
<1>a. Len(w1) = n + 1 /\ Len(u1) = m + 1
  BY <1>1
<1>13. Parts(h, g, w1, u1, v)
  BY <1>a, <1>6, <1>7, <1>8, <1>9, <1>10, <1>11, <1>12 DEF Parts
<1> QED
  BY <1>13 DEF Mixed, w1, u1

(* The last letter is that of the one or of the other.                       *)
LEMMA MixedLast ==
    ASSUME NEW w \in Seq(Int), NEW u \in Seq(Int), NEW v \in Seq(Int), NEW x \in Int,
           NEW f, NEW g, Parts(f, g, Append(w, x), u, v),
           NEW i0 \in 1 .. Len(u), f[i0] = Len(w) + 1
    PROVE  \E u0 \in Seq(Int) : u = Append(u0, x) /\ Mixed(w, u0, v)
<1> DEFINE n == Len(w)
           m == Len(u)
           w1 == Append(w, x)
<1>1. /\ n \in Nat /\ m \in Nat /\ Len(v) \in Nat
      /\ Len(w1) = n + 1 /\ w1[n + 1] = x /\ \A k \in 1 .. n : w1[k] = w[k]
  BY AppendProperties, LenProperties
<1>2. /\ \A i \in 1 .. m : f[i] \in 1 .. n + 1
      /\ \A j \in 1 .. Len(v) : g[j] \in 1 .. n + 1
      /\ \A i, j \in 1 .. m : i < j => f[i] < f[j]
      /\ \A k \in 1 .. n + 1 : (\E i \in 1 .. m : f[i] = k) <=> ~ \E j \in 1 .. Len(v) : g[j] = k
      /\ \A i \in 1 .. m : w1[f[i]] = u[i]
      /\ \A j \in 1 .. Len(v) : w1[g[j]] = v[j]
  BY <1>1 DEF Parts, Climbs
<1>3. i0 \in 1 .. m /\ f[i0] = n + 1
  OBVIOUS
<1> HIDE DEF n, m, w1
<1>4. i0 = m
  <2>1. CASE i0 < m
    <3>1. m \in 1 .. m
      BY <1>1, <1>3
    <3>2. f[i0] < f[m] /\ f[m] \in 1 .. n + 1
      BY <1>2, <1>3, <2>1, <3>1
    <3> QED
      BY <1>1, <1>3, <3>2
  <2> QED
    BY <1>1, <1>3, <2>1
<1>5. m >= 1 /\ m - 1 \in Nat /\ f[m] = n + 1
  BY <1>1, <1>3, <1>4
<1>6. u # <<>>
  BY <1>5, LenProperties DEF m
<1> DEFINE u0 == [i \in 1 .. m - 1 |-> u[i]]
<1>7. u0 \in Seq(Int) /\ Len(u0) = m - 1 /\ \A i \in 1 .. m - 1 : u0[i] = u[i] /\ i \in 1 .. m /\ i < m
  <2>1. \A i \in 1 .. m - 1 : i \in 1 .. m /\ i < m
    BY <1>1
  <2>2. \A i \in 1 .. m : u[i] \in Int
    BY ElementOfSeq DEF m
  <2>3. u0 \in [1 .. m - 1 -> Int]
    BY <2>1, <2>2
  <2>4. \A i \in 1 .. m - 1 : u0[i] = u[i]
    OBVIOUS
  <2> HIDE DEF u0
  <2>5. u0 \in Seq(Int) /\ Len(u0) = m - 1
    BY <1>5, <2>3, FunctionsAreLists
  <2> QED
    BY <2>1, <2>4, <2>5
<1> HIDE DEF u0
<1>8. u = Append(u0, x)
  <2>1. u[m] = x
    BY <1>1, <1>2, <1>3, <1>4
  <2>2. /\ Append(u0, x) \in Seq(Int) /\ Len(Append(u0, x)) = m
        /\ Append(u0, x)[m] = x /\ \A i \in 1 .. m - 1 : Append(u0, x)[i] = u0[i]
    <3>1. /\ Append(u0, x) \in Seq(Int) /\ Len(Append(u0, x)) = Len(u0) + 1
          /\ Append(u0, x)[Len(u0) + 1] = x /\ \A i \in 1 .. Len(u0) : Append(u0, x)[i] = u0[i]
      <4>1. u0 \in Seq(Int)
        BY <1>7
      <4> QED
        BY <4>1, AppendProperties
    <3>2. Len(u0) + 1 = m
      BY <1>1, <1>7
    <3> QED
      BY <1>7, <3>1, <3>2
  <2>3. \A i \in 1 .. m : i \in 1 .. m - 1 \/ i = m
    BY <1>1
  <2>4. \A i \in 1 .. m : Append(u0, x)[i] = u[i]
    BY <1>7, <2>1, <2>2, <2>3
  <2> QED
    BY <2>2, <2>4, SeqEqual DEF m
<1> DEFINE h == [i \in 1 .. m - 1 |-> f[i]]
<1>9. \A i \in 1 .. m - 1 : h[i] = f[i] /\ f[i] \in 1 .. n
  <2>1. ASSUME NEW i \in 1 .. m - 1 PROVE f[i] \in 1 .. n
    <3>1. m \in 1 .. m /\ i \in 1 .. m /\ i < m
      BY <1>1, <1>5, <1>7
    <3>2. f[i] < f[m] /\ f[i] \in 1 .. n + 1
      BY <1>2, <3>1
    <3> QED
      BY <1>1, <1>5, <3>2
  <2> QED
    BY <2>1
<1>10. h \in [1 .. m - 1 -> 1 .. n]
  BY <1>9
<1> HIDE DEF h
<1>11. \A j \in 1 .. Len(v) : g[j] \in 1 .. n
  <2>1. n + 1 \in 1 .. n + 1
    BY <1>1
  <2>2. \A j \in 1 .. Len(v) : g[j] # n + 1
    BY <1>2, <1>3, <2>1
  <2>3. \A k \in 1 .. n + 1 : k # n + 1 => k \in 1 .. n
    BY <1>1
  <2> QED
    BY <1>2, <2>2, <2>3
<1>12. g \in [1 .. Len(v) -> 1 .. n]
  <2>1. g \in [1 .. Len(v) -> 1 .. Len(Append(w, x))]
    BY DEF Parts
  <2> QED
    BY <1>11, <2>1
<1>13. Climbs(h, m - 1) /\ Climbs(g, Len(v))
  <2>1. Climbs(g, Len(v))
    BY DEF Parts
  <2>2. ASSUME NEW i \in 1 .. m - 1, NEW j \in 1 .. m - 1, i < j PROVE h[i] < h[j]
    BY <1>2, <1>7, <1>9, <2>2
  <2> QED
    BY <2>1, <2>2 DEF Climbs
<1>14. ASSUME NEW k \in 1 .. n
       PROVE  (\E i \in 1 .. m - 1 : h[i] = k) <=> ~ \E j \in 1 .. Len(v) : g[j] = k
  <2>1. k \in 1 .. n + 1 /\ k # n + 1
    BY <1>1
  <2>2. \A i \in 1 .. m : i \in 1 .. m - 1 \/ i = m
    BY <1>1
  <2>3. (\E i \in 1 .. m - 1 : h[i] = k) <=> \E i \in 1 .. m : f[i] = k
    BY <1>5, <1>7, <1>9, <2>1, <2>2
  <2> QED
    BY <1>2, <2>1, <2>3
<1>15. ASSUME NEW i \in 1 .. m - 1 PROVE w[h[i]] = u0[i]
  <2>1. h[i] = f[i] /\ f[i] \in 1 .. n /\ u0[i] = u[i] /\ i \in 1 .. m
    BY <1>7, <1>9
  <2>2. w1[f[i]] = u[i] /\ w1[f[i]] = w[f[i]]
    BY <1>1, <1>2, <2>1
  <2> QED
    BY <2>1, <2>2
<1>16. \A j \in 1 .. Len(v) : w[g[j]] = v[j]
  BY <1>1, <1>2, <1>11
<1>b. Len(u0) = m - 1 /\ Len(w) = n
  BY <1>7 DEF n
<1>17. Parts(h, g, w, u0, v)
  BY <1>b, <1>10, <1>12, <1>13, <1>14, <1>15, <1>16 DEF Parts
<1> QED
  BY <1>7, <1>8, <1>17 DEF Mixed

(* So mixed words are mixed letter by letter.                                *)
LEMMA MixedByLetter ==
    ASSUME NEW w \in Seq(Int), NEW u \in Seq(Int), NEW v \in Seq(Int), NEW x \in Int
    PROVE  Mixed(Append(w, x), u, v) <=>
              \/ \E u0 \in Seq(Int) : u = Append(u0, x) /\ Mixed(w, u0, v)
              \/ \E v0 \in Seq(Int) : v = Append(v0, x) /\ Mixed(w, u, v0)
<1>1. ASSUME NEW u0 \in Seq(Int), u = Append(u0, x), Mixed(w, u0, v) PROVE Mixed(Append(w, x), u, v)
  BY <1>1, MixedLetter
<1>2. ASSUME NEW v0 \in Seq(Int), v = Append(v0, x), Mixed(w, u, v0) PROVE Mixed(Append(w, x), u, v)
  <2>1. Mixed(w, v0, u)
    BY <1>2, MixedSwaps
  <2>2. Mixed(Append(w, x), v, u)
    BY <1>2, <2>1, MixedLetter
  <2> QED
    BY <2>2, MixedSwaps
<1>3. ASSUME Mixed(Append(w, x), u, v)
      PROVE  \/ \E u0 \in Seq(Int) : u = Append(u0, x) /\ Mixed(w, u0, v)
             \/ \E v0 \in Seq(Int) : v = Append(v0, x) /\ Mixed(w, u, v0)
  <2>1. PICK f, g : Parts(f, g, Append(w, x), u, v)
    BY <1>3 DEF Mixed
  <2>2. Len(Append(w, x)) = Len(w) + 1 /\ Len(w) + 1 \in 1 .. Len(w) + 1
    BY AppendProperties, LenProperties
  <2>3. (\E i \in 1 .. Len(u) : f[i] = Len(w) + 1) \/ \E j \in 1 .. Len(v) : g[j] = Len(w) + 1
    BY <2>1, <2>2 DEF Parts
  <2>4. CASE \E i \in 1 .. Len(u) : f[i] = Len(w) + 1
    BY <2>1, <2>4, MixedLast
  <2>5. CASE \E j \in 1 .. Len(v) : g[j] = Len(w) + 1
    <3>1. Parts(g, f, Append(w, x), v, u)
      BY <2>1 DEF Parts
    <3>2. PICK v0 \in Seq(Int) : v = Append(v0, x) /\ Mixed(w, v0, u)
      BY <2>5, <3>1, MixedLast
    <3>3. Mixed(w, u, v0)
      BY <3>2, MixedSwaps
    <3> QED
      BY <3>2, <3>3
  <2> QED
    BY <2>3, <2>4, <2>5
<1> QED
  BY <1>1, <1>2, <1>3

(* Machines whose states are numbered without a gap.                         *)
Gapless(m) == states(m) \subseteq 0 .. number_of_states(m) - 1

(* canonical_numbering() numbers the states it meets without a gap: each of  *)
(* them is the start state or what an arc leads to.                          *)
LEMMA CanonicalIsGapless ==
    ASSUME NEW m, Usual(m), is_deterministic(m)
    PROVE  Gapless(canonical_numbering(m))
<1> DEFINE c == canonical_numbering(m)
           Q == states(m)
<1>1. Finite(m) /\ Determinate(m)
  BY UsualIsFinite, DeterministicMeans
<1>2. PICK s0 : m.start = {s0}
  BY <1>1 DEF Determinate
<1> DEFINE met == MetFrom(m, s0)
           Met == ToSet(met)
           n == Len(met)
           New(s) == Place(met, s) - 1
           C == {<<New(t[1]), t[2], New(t[3])>> : t \in {u \in m.arcs : u[1] \in Met}}
           F == {New(s) : s \in m.final \cap Met}
<1>3. s0 \in Q /\ Lists(met, m)
  BY <1>1, <1>2, CanonicalList
<1> HIDE DEF met
<1>4. /\ met \in Seq(Q) /\ n >= 1 /\ met[1] = s0 /\ Once(met)
      /\ \A t \in m.arcs : t[1] \in Met => t[3] \in Met
      /\ c.start = {0} /\ c.final = F /\ c.arcs = C
  BY <1>2, <1>3 DEF Lists, Renumbering
<1>5. n \in Nat /\ DOMAIN met = 1 .. n /\ \A i \in 1 .. n : met[i] \in Q /\ met[i] \in Met
  <2>1. n \in Nat /\ DOMAIN met = 1 .. n /\ \A i \in 1 .. n : met[i] \in Q
    BY <1>4, LenProperties, ElementOfSeq
  <2> QED
    BY <2>1 DEF ToSet
<1>6. \A s \in Met : Place(met, s) \in 1 .. n /\ met[Place(met, s)] = s /\ s \in Q
  <2>1. \A s \in Met : Place(met, s) \in 1 .. n /\ met[Place(met, s)] = s
    BY <1>4, PlacesOfItems
  <2> QED
    BY <1>5, <2>1
<1> HIDE DEF c, n
<1>7. \A i \in 1 .. n : New(met[i]) = i - 1
  <2> SUFFICES ASSUME NEW i \in 1 .. n PROVE New(met[i]) = i - 1
    OBVIOUS
  <2> DEFINE j == Place(met, met[i])
  <2>1. j \in 1 .. n /\ met[j] = met[i]
    BY <1>5, <1>6
  <2> HIDE DEF j
  <2>2. j = i
    BY <1>4, <2>1 DEF Once, n
  <2> QED
    BY <2>2 DEF j
<1>8. \A s \in Met : New(s) \in 0 .. n - 1
  <2> SUFFICES ASSUME NEW s \in Met PROVE New(s) \in 0 .. n - 1
    OBVIOUS
  <2> DEFINE j == Place(met, s)
  <2>1. j \in 1 .. n
    BY <1>6
  <2> HIDE DEF j
  <2>2. j - 1 \in 0 .. n - 1
    BY <1>5, <2>1
  <2> QED
    BY <2>2 DEF j
<1> HIDE DEF New
<1>9. states(c) = c.start \cup c.final \cup UNION {{t[1], t[3]} : t \in c.arcs}
  BY DEF states
<1>10. ASSUME NEW t \in m.arcs, t[1] \in Met
       PROVE  \E e \in c.arcs : e[1] = New(t[1]) /\ e[3] = New(t[3])
  <2>1. <<New(t[1]), t[2], New(t[3])>> \in C
    BY <1>10
  <2> HIDE DEF C
  <2> QED
    BY <1>4, <2>1
<1>11. ASSUME NEW e \in c.arcs PROVE e[1] \in 0 .. n - 1 /\ e[3] \in 0 .. n - 1
  <2>1. PICK t \in {u \in m.arcs : u[1] \in Met} : e = <<New(t[1]), t[2], New(t[3])>>
    BY <1>4, <1>11
  <2>2. t[1] \in Met /\ t[3] \in Met
    BY <1>4
  <2> HIDE DEF Met
  <2> QED
    BY <1>8, <2>1, <2>2
<1>12. states(c) \subseteq 0 .. n - 1
  <2>1. 0 \in 0 .. n - 1
    BY <1>4, <1>5 DEF n
  <2>2. c.final \subseteq 0 .. n - 1
    <3>1. F \subseteq 0 .. n - 1
      <4> SUFFICES ASSUME NEW s \in m.final \cap Met PROVE New(s) \in 0 .. n - 1
        OBVIOUS
      <4> QED
        BY <1>8
    <3> QED
      BY <1>4, <3>1
  <2> QED
    BY <1>4, <1>9, <1>11, <2>1, <2>2
<1> DEFINE K == {s \in Met : New(s) \in states(c)}
           X == labels(m)
           ahead == SinksOf(m)
<1>13. Met \subseteq K
  <2>1. /\ Numberable(X, Q, ahead) /\ IsFiniteSet(Q)
        /\ \A s \in Q, x \in X : ahead[<<s, x>>] = {t[3] : t \in {u \in m.arcs : u[1] = s /\ u[2] = x}}
    BY <1>1, SinksAreNumberable
  <2>2. K \in SUBSET Q
    BY <1>6
  <2>3. s0 \in K
    <3>1. 1 \in 1 .. n
      BY <1>4, <1>5 DEF n
    <3>2. New(s0) = 1 - 1 /\ s0 \in Met
      BY <1>4, <1>5, <1>7, <3>1
    <3>3. New(s0) = 0
      BY <3>2
    <3> QED
      BY <1>4, <1>9, <3>2, <3>3
  <2>4. ASSUME NEW s \in K, NEW x \in X PROVE ahead[<<s, x>>] \subseteq K
    <3> SUFFICES ASSUME NEW u \in ahead[<<s, x>>] PROVE u \in K
      OBVIOUS
    <3>1. s \in Met /\ s \in Q
      BY <2>2
    <3>2. PICK t \in m.arcs : t[1] = s /\ t[3] = u
      <4> HIDE DEF ahead, X, Q, K
      <4> QED
        BY <2>1, <3>1
    <3>3. u \in Met
      BY <1>4, <3>1, <3>2
    <3>4. PICK e \in c.arcs : e[3] = New(u)
      BY <1>10, <3>1, <3>2
    <3>5. New(u) \in states(c)
      BY <1>9, <3>4
    <3> QED
      BY <3>3, <3>5
  <2>5. met = Numbered(s0, X, Q, ahead)
    BY DEF met, MetFrom
  <2> HIDE DEF X, Q, ahead, K, Met
  <2>6. ToSet(Numbered(s0, X, Q, ahead)) \subseteq K
    BY <1>3, <2>1, <2>2, <2>3, <2>4, NumberedWithin
  <2> QED
    BY <2>5, <2>6 DEF Met
<1>14. 0 .. n - 1 \subseteq states(c)
  <2> SUFFICES ASSUME NEW k \in 0 .. n - 1 PROVE k \in states(c)
    OBVIOUS
  <2>1. k + 1 \in 1 .. n /\ (k + 1) - 1 = k
    BY <1>5
  <2> DEFINE i == k + 1
  <2>2. i \in 1 .. n /\ i - 1 = k
    BY <2>1
  <2> HIDE DEF i
  <2>3. New(met[i]) = k /\ met[i] \in Met
    BY <1>5, <1>7, <2>2
  <2> QED
    BY <1>13, <2>3
<1>15. states(c) = 0 .. n - 1
  BY <1>12, <1>14
<1>16. Cardinality(0 .. n - 1) = n
  <2>1. n >= 1
    BY <1>4 DEF n
  <2>2. 0 \in Int /\ n - 1 \in Int /\ ~ 0 > n - 1 /\ (n - 1) - 0 + 1 = n
    BY <1>5, <2>1
  <2> QED
    BY <2>2, FS_Interval
<1> QED
  BY <1>15, <1>16 DEF Gapless, number_of_states, c

(* The words mixed of one of A and one of B.                                 *)
Mixtures(A, B) == {w \in Seq(Int) : \E u \in A, v \in B : Mixed(w, u, v)}

(* Where no number is left out no two pairs fall together, and a word leads  *)
(* to the pairs whose states the words it is mixed of lead to.               *)
LEMMA ShuffledLanguage ==
    ASSUME NEW m, Usual(m), Gapless(m), NEW o, Usual(o), Gapless(o)
    PROVE  Accepted(Shuffled(m, o)) = Mixtures(Accepted(m), Accepted(o))
<1> DEFINE n == number_of_states(m)
           k == number_of_states(o)
           N(s, u) == s + u * n
           x == Shuffled(m, o)
           S == 0 .. n - 1
           U == 0 .. k - 1
           C == {<<N(t[1], u), t[2], N(t[3], u)>> : t \in m.arcs, u \in U}
           D == {<<N(s, t[1]), t[2], N(s, t[3])>> : t \in o.arcs, s \in S}
<1>1. /\ x.start = {N(s, u) : s \in m.start, u \in o.start}
      /\ x.final = {N(s, u) : s \in m.final, u \in o.final}
      /\ x.arcs = C \cup D
  BY DEF Shuffled
<1> HIDE DEF x
<1>2. n \in Nat /\ k \in Nat /\ states(m) \subseteq S /\ states(o) \subseteq U
  BY UsualIsFinite, FiniteStates DEF Gapless
<1>3. /\ \A t \in m.arcs : t = <<t[1], t[2], t[3]>> /\ t[1] \in S /\ t[2] \in Int /\ t[3] \in S
      /\ m.start \subseteq S /\ m.final \subseteq S
  <2>1. PICK b \in Nat : Bounded(m, b)
    BY DEF Usual
  <2> QED
    BY <1>2, <2>1, StatesBounded
<1>4. /\ \A t \in o.arcs : t = <<t[1], t[2], t[3]>> /\ t[1] \in U /\ t[2] \in Int /\ t[3] \in U
      /\ o.start \subseteq U /\ o.final \subseteq U
  <2>1. PICK b \in Nat : Bounded(o, b)
    BY DEF Usual
  <2> QED
    BY <1>2, <2>1, StatesBounded
<1>5. /\ \A w \in Seq(Int) : \A s : Leads(m, w, s) => s \in S
      /\ \A w \in Seq(Int) : \A u : Leads(o, w, u) => u \in U
  <2>1. PICK b \in Nat : Bounded(m, b)
    BY DEF Usual
  <2>2. PICK c \in Nat : Bounded(o, c)
    BY DEF Usual
  <2> QED
    BY <1>2, <2>1, <2>2, LeadsToStates
<1>6. ASSUME NEW s \in S, NEW u \in U, NEW t \in S, NEW v \in U, N(s, u) = N(t, v)
      PROVE  s = t /\ u = v
  <2>1. n \in Nat /\ s \in 0 .. n - 1 /\ t \in 0 .. n - 1 /\ u \in Nat /\ v \in Nat
    BY <1>2
  <2> QED
    BY <1>6, <2>1, PairsAreKnown
<1> HIDE DEF N, S, U
<1>7. ASSUME NEW s \in S, NEW u \in U, NEW t \in S, NEW v \in U, NEW l
      PROVE  <<N(s, u), l, N(t, v)>> \in x.arcs <=>
                \/ <<s, l, t>> \in m.arcs /\ u = v
                \/ s = t /\ <<u, l, v>> \in o.arcs
  <2> DEFINE e == <<N(s, u), l, N(t, v)>>
  <2>1. ASSUME e \in C PROVE <<s, l, t>> \in m.arcs /\ u = v
    <3>1. PICK f \in m.arcs, q \in U : e = <<N(f[1], q), f[2], N(f[3], q)>>
      BY <2>1
    <3>2. N(s, u) = N(f[1], q) /\ l = f[2] /\ N(t, v) = N(f[3], q)
      BY <3>1
    <3>3. s = f[1] /\ u = q /\ t = f[3] /\ v = q
      BY <1>3, <1>6, <3>2
    <3> QED
      BY <1>3, <3>2, <3>3
  <2>2. ASSUME e \in D PROVE s = t /\ <<u, l, v>> \in o.arcs
    <3>1. PICK f \in o.arcs, q \in S : e = <<N(q, f[1]), f[2], N(q, f[3])>>
      BY <2>2
    <3>2. N(s, u) = N(q, f[1]) /\ l = f[2] /\ N(t, v) = N(q, f[3])
      BY <3>1
    <3>3. s = q /\ u = f[1] /\ t = q /\ v = f[3]
      BY <1>4, <1>6, <3>2
    <3> QED
      BY <1>4, <3>2, <3>3
  <2>3. ASSUME <<s, l, t>> \in m.arcs, u = v PROVE e \in C
    <3> DEFINE f == <<s, l, t>>
    <3>1. f \in m.arcs /\ f[1] = s /\ f[2] = l /\ f[3] = t
      BY <2>3
    <3> HIDE DEF f
    <3>2. e = <<N(f[1], u), f[2], N(f[3], u)>>
      BY <2>3, <3>1
    <3> QED
      BY <3>1, <3>2
  <2>4. ASSUME s = t, <<u, l, v>> \in o.arcs PROVE e \in D
    <3> DEFINE f == <<u, l, v>>
    <3>1. f \in o.arcs /\ f[1] = u /\ f[2] = l /\ f[3] = v
      BY <2>4
    <3> HIDE DEF f
    <3>2. e = <<N(s, f[1]), f[2], N(s, f[3])>>
      BY <2>4, <3>1
    <3> QED
      BY <3>1, <3>2
  <2> HIDE DEF C, D
  <2> QED
    BY <1>1, <2>1, <2>2, <2>3, <2>4
<1>8. ASSUME NEW e \in x.arcs
      PROVE  \E s, t \in S, u, v \in U, l \in Int : e = <<N(s, u), l, N(t, v)>>
  <2>1. CASE e \in C
    <3>1. PICK f \in m.arcs, q \in U : e = <<N(f[1], q), f[2], N(f[3], q)>>
      BY <2>1
    <3> HIDE DEF C, D
    <3> QED
      BY <1>3, <3>1
  <2>2. CASE e \in D
    <3>1. PICK f \in o.arcs, q \in S : e = <<N(q, f[1]), f[2], N(q, f[3])>>
      BY <2>2
    <3> HIDE DEF C, D
    <3> QED
      BY <1>4, <3>1
  <2> HIDE DEF C, D
  <2> QED
    BY <1>1, <2>1, <2>2
<1> HIDE DEF C, D
<1> DEFINE Is(w, y) == \E s \in S, u \in U, a, b \in Seq(Int) :
                          /\ y = N(s, u) /\ Mixed(w, a, b)
                          /\ Leads(m, a, s) /\ Leads(o, b, u)
           T == {w \in Seq(Int) : \A y : Leads(x, w, y) <=> Is(w, y)}
<1>9. <<>> \in T
  <2>1. /\ \A y : Leads(x, <<>>, y) <=> y \in x.start
        /\ \A y : Leads(m, <<>>, y) <=> y \in m.start
        /\ \A y : Leads(o, <<>>, y) <=> y \in o.start
    BY LeadsAtOnce
  <2>2. <<>> \in Seq(Int)
    OBVIOUS
  <2>3. \A a, b \in Seq(Int) : Mixed(<<>>, a, b) <=> a = <<>> /\ b = <<>>
    BY MixedNothing
  <2>4. \A y : y \in x.start <=> \E s \in m.start, u \in o.start : y = N(s, u)
    BY <1>1
  <2>5. ASSUME NEW y PROVE Is(<<>>, y) <=> y \in x.start
    <3>1. ASSUME Is(<<>>, y) PROVE y \in x.start
      BY <2>1, <2>3, <2>4, <3>1
    <3>2. ASSUME y \in x.start PROVE Is(<<>>, y)
      <4>1. PICK s \in m.start, u \in o.start : y = N(s, u)
        BY <2>4, <3>2
      <4>2. s \in S /\ u \in U /\ Leads(m, <<>>, s) /\ Leads(o, <<>>, u) /\ Mixed(<<>>, <<>>, <<>>)
        BY <1>3, <1>4, <2>1, <2>2, <2>3, <4>1
      <4> QED
        BY <2>2, <4>1, <4>2
    <3> QED
      BY <3>1, <3>2
  <2> HIDE DEF Is
  <2> QED
    BY <2>1, <2>2, <2>5
<1>10. ASSUME NEW v \in Seq(Int), NEW l \in Int, v \in T PROVE Append(v, l) \in T
  <2> DEFINE w == Append(v, l)
  <2>1. w \in Seq(Int) /\ \A a \in Seq(Int) : Append(a, l) \in Seq(Int)
    OBVIOUS
  <2>2. /\ \A y : Leads(x, w, y) <=> \E z : Leads(x, v, z) /\ <<z, l, y>> \in x.arcs
        /\ \A a \in Seq(Int) : \A y : Leads(m, Append(a, l), y) <=> \E z : Leads(m, a, z) /\ <<z, l, y>> \in m.arcs
        /\ \A a \in Seq(Int) : \A y : Leads(o, Append(a, l), y) <=> \E z : Leads(o, a, z) /\ <<z, l, y>> \in o.arcs
    BY LeadsByLetter
  <2>3. \A y : Leads(x, v, y) <=> Is(v, y)
    BY <1>10
  <2>4. \A a, b \in Seq(Int) :
           Mixed(w, a, b) <=>
              \/ \E c \in Seq(Int) : a = Append(c, l) /\ Mixed(v, c, b)
              \/ \E c \in Seq(Int) : b = Append(c, l) /\ Mixed(v, a, c)
    BY MixedByLetter
  <2> HIDE DEF w, T
  <2>5. ASSUME NEW y, Leads(x, w, y) PROVE Is(w, y)
    <3>1. PICK z : Leads(x, v, z) /\ <<z, l, y>> \in x.arcs
      BY <2>2, <2>5
    <3>2. PICK s \in S, u \in U, a, b \in Seq(Int) :
             z = N(s, u) /\ Mixed(v, a, b) /\ Leads(m, a, s) /\ Leads(o, b, u)
      BY <2>3, <3>1
    <3>3. PICK t \in S, q \in U : y = N(t, q)
      <4>1. PICK e \in x.arcs : e = <<z, l, y>>
        BY <3>1
      <4>2. PICK f, t \in S, g, q \in U, j \in Int : e = <<N(f, g), j, N(t, q)>>
        BY <1>8
      <4> QED
        BY <4>1, <4>2
    <3>4. CASE <<s, l, t>> \in m.arcs /\ u = q
      <4>1. Leads(m, Append(a, l), t) /\ Append(a, l) \in Seq(Int)
        BY <2>1, <2>2, <3>2, <3>4
      <4>2. Mixed(w, Append(a, l), b)
        BY <2>4, <3>2, <4>1
      <4> QED
        BY <3>2, <3>3, <3>4, <4>1, <4>2
    <3>5. CASE s = t /\ <<u, l, q>> \in o.arcs
      <4>1. Leads(o, Append(b, l), q) /\ Append(b, l) \in Seq(Int)
        BY <2>1, <2>2, <3>2, <3>5
      <4>2. Mixed(w, a, Append(b, l))
        BY <2>4, <3>2, <4>1
      <4> QED
        BY <3>2, <3>3, <3>5, <4>1, <4>2
    <3> QED
      BY <1>7, <3>1, <3>2, <3>3, <3>4, <3>5
  <2>6. ASSUME NEW y, Is(w, y) PROVE Leads(x, w, y)
    <3>1. PICK t \in S, q \in U, a, b \in Seq(Int) :
             y = N(t, q) /\ Mixed(w, a, b) /\ Leads(m, a, t) /\ Leads(o, b, q)
      BY <2>6
    <3>2. ASSUME NEW c \in Seq(Int), a = Append(c, l), Mixed(v, c, b) PROVE Leads(x, w, y)
      <4>1. PICK s : Leads(m, c, s) /\ <<s, l, t>> \in m.arcs
        BY <2>2, <3>1, <3>2
      <4>2. s \in S
        BY <1>5, <4>1
      <4>3. Is(v, N(s, q))
        BY <3>1, <3>2, <4>1, <4>2
      <4>4. <<N(s, q), l, y>> \in x.arcs
        <5>1. <<N(s, q), l, N(t, q)>> \in x.arcs <=>
                 \/ <<s, l, t>> \in m.arcs /\ q = q
                 \/ s = t /\ <<q, l, q>> \in o.arcs
          BY <1>7, <3>1, <4>2
        <5> QED
          BY <3>1, <4>1, <5>1
      <4> HIDE DEF Is
      <4> QED
        BY <2>2, <2>3, <4>3, <4>4
    <3>3. ASSUME NEW c \in Seq(Int), b = Append(c, l), Mixed(v, a, c) PROVE Leads(x, w, y)
      <4>1. PICK u : Leads(o, c, u) /\ <<u, l, q>> \in o.arcs
        BY <2>2, <3>1, <3>3
      <4>2. u \in U
        BY <1>5, <4>1
      <4>3. Is(v, N(t, u))
        BY <3>1, <3>3, <4>1, <4>2
      <4>4. <<N(t, u), l, y>> \in x.arcs
        <5>1. <<N(t, u), l, N(t, q)>> \in x.arcs <=>
                 \/ <<t, l, t>> \in m.arcs /\ u = q
                 \/ t = t /\ <<u, l, q>> \in o.arcs
          BY <1>7, <3>1, <4>2
        <5> QED
          BY <3>1, <4>1, <5>1
      <4> HIDE DEF Is
      <4> QED
        BY <2>2, <2>3, <4>3, <4>4
    <3> QED
      BY <2>4, <3>1, <3>2, <3>3
  <2> HIDE DEF Is
  <2> QED
    BY <2>1, <2>5, <2>6 DEF T, w
<1>11. Seq(Int) \subseteq T
  <2> HIDE DEF T
  <2> QED
    BY <1>9, <1>10, WordInduction
<1>12. ASSUME NEW w \in Seq(Int)
       PROVE  (\E y \in x.final : Leads(x, w, y)) <=>
                 \E a, b \in Seq(Int) : /\ Mixed(w, a, b)
                                        /\ \E s \in m.final : Leads(m, a, s)
                                        /\ \E u \in o.final : Leads(o, b, u)
  <2>1. \A y : Leads(x, w, y) <=> Is(w, y)
    BY <1>11
  <2>2. ASSUME NEW y \in x.final, Leads(x, w, y)
        PROVE  \E a, b \in Seq(Int) : /\ Mixed(w, a, b)
                                      /\ \E s \in m.final : Leads(m, a, s)
                                      /\ \E u \in o.final : Leads(o, b, u)
    <3>1. PICK s \in S, u \in U, a, b \in Seq(Int) :
             y = N(s, u) /\ Mixed(w, a, b) /\ Leads(m, a, s) /\ Leads(o, b, u)
      BY <2>1, <2>2
    <3>2. PICK t \in m.final, q \in o.final : y = N(t, q)
      BY <1>1
    <3>3. t \in S /\ q \in U /\ N(s, u) = N(t, q)
      BY <1>3, <1>4, <3>1, <3>2
    <3>4. s = t /\ u = q
      BY <1>6, <3>3
    <3> QED
      BY <3>1, <3>2, <3>4
  <2>3. ASSUME NEW a \in Seq(Int), NEW b \in Seq(Int), Mixed(w, a, b),
               NEW s \in m.final, Leads(m, a, s), NEW u \in o.final, Leads(o, b, u)
        PROVE  \E y \in x.final : Leads(x, w, y)
    <3>1. N(s, u) \in x.final
      BY <1>1
    <3>2. Is(w, N(s, u))
      BY <1>3, <1>4, <2>3
    <3> HIDE DEF Is
    <3> QED
      BY <2>1, <3>1, <3>2
  <2> HIDE DEF Is
  <2> QED
    BY <2>2, <2>3
<1>13. \A a : Accepted(a) = {w \in Seq(Int) : \E u \in a.final : Leads(a, w, u)}
  BY AcceptedByLeading
<1>14. ASSUME NEW w \in Seq(Int)
       PROVE  w \in Accepted(x) <=> \E u \in Accepted(m), v \in Accepted(o) : Mixed(w, u, v)
  BY <1>12, <1>13
<1>15. Accepted(x) \subseteq Seq(Int)
  BY <1>13
<1> QED
  BY <1>14, <1>15 DEF Mixtures, x

(* shuffle() accepts the words mixed of one of each machine, for machines    *)
(* that are deterministic, which it renumbers, or numbered without a gap;    *)
(* of others the numbers of two pairs may be the same.  What the adapter's   *)
(* two classes make of it accepts no more and no less.                       *)
THEOREM ShuffleMeans ==
    ASSUME NEW m, Usual(m), is_deterministic(m) \/ Gapless(m),
           NEW o, Usual(o), is_deterministic(o) \/ Gapless(o)
    PROVE  \A n \in {shuffle(m, o), DFA_shuffle(m, o), NFA_shuffle(m, o)} :
              Accepted(n) = Mixtures(Accepted(m), Accepted(o))
<1>1. ASSUME NEW a, Usual(a), is_deterministic(a) \/ Gapless(a)
      PROVE  LET c == canonical_numbering(a)
             IN  Usual(c) /\ Gapless(c) /\ Accepted(c) = Accepted(a)
  <2>1. CASE is_deterministic(a)
    <3>1. Determinate(a) /\ Finite(a)
      BY <1>1, <2>1, UsualIsFinite, DeterministicMeans
    <3>2. Usual(canonical_numbering(a))
      BY <1>1, <3>1, CanonicalIsImage
    <3>3. Accepted(canonical_numbering(a)) = Accepted(a)
      BY <1>1, <3>1, CanonicalLanguage DEF Usual
    <3> QED
      BY <1>1, <2>1, <3>2, <3>3, CanonicalIsGapless
  <2>2. CASE ~ is_deterministic(a)
    BY <1>1, <2>2 DEF canonical_numbering
  <2> QED
    BY <2>1, <2>2
<1> DEFINE p == canonical_numbering(m)
           q == canonical_numbering(o)
           r == shuffle(m, o)
<1>2. Usual(p) /\ Gapless(p) /\ Accepted(p) = Accepted(m)
  BY <1>1
<1>3. Usual(q) /\ Gapless(q) /\ Accepted(q) = Accepted(o)
  BY <1>1
<1>4. r = Shuffled(p, q)
  BY DEF shuffle
<1> HIDE DEF p, q, r
<1>5. Accepted(r) = Mixtures(Accepted(m), Accepted(o))
  BY <1>2, <1>3, <1>4, ShuffledLanguage
<1>6. Accepted(Deterministic(r)) = Accepted(r)
  <2>1. Usual(r)
    BY <1>2, <1>3, <1>4, UsualShuffle
  <2>2. Finite(r) /\ \E b \in Nat : Bounded(r, b)
    BY <2>1, UsualIsFinite DEF Usual
  <2> QED
    BY <2>2, DeterministicLanguage
<1>7. DFA_shuffle(m, o) = Deterministic(r) /\ NFA_shuffle(m, o) = r /\ shuffle(m, o) = r
  BY DEF DFA_shuffle, NFA_shuffle, r
<1> QED
  BY <1>5, <1>6, <1>7
=============================================================================

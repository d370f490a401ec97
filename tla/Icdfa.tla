------------------------------- MODULE Icdfa -------------------------------
(***************************************************************************)
(* The generator of grail-adapter/generator.cc.  Behind it is a numbering  *)
(* of initially connected deterministic automata: one of n states and k    *)
(* letters is a string of n * k states, the sink of state i on letter j at *)
(* i * k + j; flags[i] is the place where state i appears first.  The      *)
(* generator walks through all strings and all sets of final states in     *)
(* order, or makes the string of a number it draws.                        *)
(*                                                                         *)
(* The properties are about the strings.  The automata handed out are not  *)
(* those of the strings, since their sinks are taken from place i + j:     *)
(* several strings give the same one, and not every state need be reached  *)
(* (of three states and two letters, state 2 may stand at place 3 only,    *)
(* which is a sink of state 2 alone).                                      *)
(*                                                                         *)
(* A step of next_icdfa and of next_flags is a recursion from the last     *)
(* place downwards; here it is the place where the recursion stops.  The   *)
(* cells of "finals" that decimal_to_binary leaves unwritten hold anything.*)
(***************************************************************************)
EXTENDS Integers, Sequences, FiniteSets, SequencesExt, FiniteSetsExt

CONSTANTS Sizes,      (* the pairs n, k of the generators made                *)
          Drawn       (* of the numbers below getSize, those that are drawn   *)

ASSUME SizesAssumption ==
    /\ \A nk \in Sizes : nk[1] \in Nat /\ nk[1] >= 2 /\ nk[2] \in Nat \ {0}
    /\ Drawn \subseteq Nat

VARIABLES
    g,         (* the generator: n, k, g_type, flags, s (the string), final   *)
    machine    (* the automaton handed out last                               *)

icdfaVars == <<g, machine>>

NoGenerator == [type |-> "none"]
EmptyFm     == [sink |-> <<>>, final |-> {}]

Places(n, k) == 0 .. n * k - 1

(* reset(): the first string of the flags.                                   *)
FirstString(n, k, flags) ==
    [x \in Places(n, k) |-> LET I == { i \in 0 .. n - 1 : flags[i] = x }
                            IN  IF I = {} THEN 0 ELSE Max(I)]

InitFlags(n, k) == [i \in 0 .. n - 1 |-> IF i = 0 THEN 0 ELSE k * i - 1]

Fresh(n, k, type) ==
    [n |-> n, k |-> k, type |-> type, flags |-> InitFlags(n, k),
     s |-> FirstString(n, k, InitFlags(n, k)), final |-> 1]

IcdfaInit ==
    /\ g = NoGenerator
    /\ machine = EmptyFm

Construct(n, k, type) ==
    /\ g = NoGenerator
    /\ g' = Fresh(n, k, type)
    /\ UNCHANGED machine

TotalFinals(gen) == 2 ^ gen.n
Flagged(gen, x)  == \E i \in 1 .. gen.n - 1 : gen.flags[i] = x

(* The state of the nearest flag not above a place.                          *)
Segment(gen, x)  == Max({ i \in 0 .. gen.n - 1 : gen.flags[i] <= x })

is_last_final(gen) == gen.final >= TotalFinals(gen) - 1

is_last(gen) ==
    /\ \A i \in 1 .. gen.n - 1 : gen.s[i - 1] = i
    /\ \A x \in gen.n - 1 .. gen.n * gen.k - 1 : gen.s[x] = gen.n - 1

is_full(gen) ==
    /\ \A j \in 1 .. gen.n - 2 :
          \A x \in gen.flags[j] + 1 .. gen.flags[j + 1] - 1 : gen.s[x] = j
    /\ \A x \in gen.flags[gen.n - 1] .. gen.n * gen.k - 1 : gen.s[x] = gen.n - 1

BothLeft(gen) == ~ is_last(gen) /\ ~ is_last_final(gen)   (* mutation: "and" for "or" *)
hasNext(gen) == ~ is_last(gen) \/ ~ is_last_final(gen)

NothingReset(gen) ==    (* mutation: the places behind keep their states *)
    LET free == { x \in Places(gen.n, gen.k) : ~ Flagged(gen, x) }
        x    == Max({ y \in free : gen.s[y] # gen.s[gen.flags[Segment(gen, y)]] })
    IN  [gen.s EXCEPT ![x] = @ + 1]
(* next_icdfa: the last place that has not reached the state of its flag     *)
(* goes up, those behind it start again; flags stay.                         *)
next_icdfa(gen) ==
    LET free == { x \in Places(gen.n, gen.k) : ~ Flagged(gen, x) }
        x    == Max({ y \in free : gen.s[y] # gen.s[gen.flags[Segment(gen, y)]] })
    IN  [y \in Places(gen.n, gen.k) |->
            IF y \notin free \/ y < x THEN gen.s[y]
            ELSE IF y = x THEN gen.s[y] + 1 ELSE 0]

(* next_flags: the last flag that is not next to the one before goes down,   *)
(* those behind it go back to their first place.                             *)
next_flags(gen) ==
    LET i == Max({ j \in 1 .. gen.n - 1 : j = 1 \/ gen.flags[j] - 1 # gen.flags[j - 1] })
    IN  [j \in 0 .. gen.n - 1 |-> IF j < i THEN gen.flags[j]
                                  ELSE IF j = i THEN gen.flags[j] - 1
                                  ELSE gen.k * j - 1]

(***************************************************************************)
(* Numbers of strings.                                                     *)
(***************************************************************************)
SumOver(S, f(_)) == MapThenSumSet(f, S)

(* compute_n: the strings that have state m first at place j.                *)
compute_n(n, k) ==
    LET N[m \in 1 .. n - 1, j \in Places(n, k)] ==
            IF m = n - 1
            THEN n ^ (k * n - 1 - j)
            ELSE SumOver(0 .. (m + 1) * k - j - 2, LAMBDA i : (m + 1) ^ i * N[m + 1, j + i + 1])
    IN  N

getSize(n, k) == SumOver(0 .. k - 1, LAMBDA j : compute_n(n, k)[1, j])

Power(b, e) == IF e >= 0 THEN b ^ e ELSE IF b = 1 THEN 1 ELSE 0

(* generate_from_index, the flags: each one is the place at which the number *)
(* falls below the strings counted from its last possible place downwards.   *)
FlagsOf(gen, number) ==
    LET n == gen.n
        k == gen.k
        N == compute_n(n, k)
        Flag(acc, i) ==
            LET last   == k * i - 1
                before == acc.flags[i - 1]
                weight(j) == Power(i, j - before - 1) * acc.ss * N[i, j]
                above(j)  == SumOver(j + 1 .. last, weight)
                j == Max({ x \in i - 2 .. last :
                              x = i - 2 \/ acc.m < above(x) + weight(x) })
            IN  [m |-> acc.m - above(j),
                 ss |-> acc.ss * Power(i, j - before - 1),
                 flags |-> [acc.flags EXCEPT ![i] = j]]
    IN  FoldLeft(Flag, [m |-> number, ss |-> 1, flags |-> [gen.flags EXCEPT ![0] = 0]],
                 [i \in 1 .. n - 1 |-> i])

(* The string: its digits from the last place downwards.  The place before a *)
(* flag is skipped, and so are all places before the first flag: they keep   *)
(* what the string before had there.                                         *)
generate_from_index(gen, number) ==
    LET f  == FlagsOf(gen, number)
        g1 == [gen EXCEPT !.flags = f.flags]
        Skipped(x) == x < f.flags[1] \/ \E i \in 1 .. gen.n - 1 : f.flags[i] = x + 1
        Digit(acc, x) ==
            LET base == Segment(g1, x) + 1
            IN  IF Skipped(x) THEN acc
                ELSE [m |-> acc.m \div base, s |-> [acc.s EXCEPT ![x] = acc.m % base]]
        down   == [x \in 1 .. gen.n * gen.k |-> gen.n * gen.k - x]
        digits == FoldLeft(Digit, [m |-> f.m, s |-> gen.s], down).s
        first  == FirstString(gen.n, gen.k, f.flags)
    IN  [g1 EXCEPT !.s = [x \in DOMAIN digits |->
            IF \E i \in 0 .. gen.n - 1 : f.flags[i] = x THEN first[x] ELSE digits[x]]]

(***************************************************************************)
(* The operations.                                                         *)
(***************************************************************************)

(* decimal_to_binary writes the digits of the number up to its highest one.  *)
HasDigit(f, i) == 2 ^ i <= f
Digit2(f, i)  == (f \div 2 ^ i) % 2

(* canonicalstring_to_fm: the sink of state i on letter j is taken from      *)
(* place i + j, where the string has it at i * k + j.                        *)
canonicalstring_to_fm(gen) ==
    LET F == { S \in SUBSET (0 .. gen.n - 1) :
                 \A i \in 0 .. gen.n - 1 :
                    HasDigit(gen.final, i) => (i \in S <=> Digit2(gen.final, i) = 1) }
    IN  [sink : {[ij \in (0 .. gen.n - 1) \X (0 .. gen.k - 1) |-> gen.s[ij[1] + ij[2]]]},
         final : F]

NextSequential ==
    /\ g.type = "SEQUENTIAL"
    /\ IF ~ is_last_final(g)
       THEN g' = [g EXCEPT !.final = @ + 1] /\ machine' \in canonicalstring_to_fm(g')
       ELSE IF is_last(g)
       THEN machine' = EmptyFm /\ UNCHANGED g
       ELSE LET flags == next_flags(g)
            IN  /\ g' = IF is_full(g)
                        THEN [g EXCEPT !.flags = flags, !.s = FirstString(g.n, g.k, flags),
                                       !.final = 1]
                        ELSE [g EXCEPT !.s = next_icdfa(g), !.final = 1]
                /\ machine' \in canonicalstring_to_fm(g')

NextRandom(number, final) ==
    /\ g.type = "RANDOM"
    /\ number < getSize(g.n, g.k)
    /\ final < TotalFinals(g)
    /\ g' = [generate_from_index(g, number) EXCEPT !.final = final]
    /\ machine' \in canonicalstring_to_fm(g')

Current ==
    /\ g.type # "none"
    /\ machine' \in canonicalstring_to_fm(g)
    /\ UNCHANGED g

Reset ==
    /\ g.type # "none"
    /\ g' = [g EXCEPT !.s = FirstString(g.n, g.k, g.flags)]
    /\ UNCHANGED machine

SetCurrentFinalStatesIndex(final) ==
    /\ g.type # "none"
    /\ final < TotalFinals(g)
    /\ g' = [g EXCEPT !.final = final]
    /\ UNCHANGED machine

FinalNumbers == 1 .. 2 ^ Max({ nk[1] : nk \in Sizes }) - 1

IcdfaNext ==
    \/ \E nk \in Sizes, type \in {"RANDOM", "SEQUENTIAL"} : Construct(nk[1], nk[2], type)
    \/ NextSequential
    \/ \E number \in Drawn, final \in FinalNumbers : NextRandom(number, final)
    \/ Current
    \/ Reset
    \/ \E final \in FinalNumbers : SetCurrentFinalStatesIndex(final)

IcdfaSpec == IcdfaInit /\ [][IcdfaNext]_icdfaVars

(***************************************************************************)
(* Properties.                                                             *)
(***************************************************************************)
(* The strings to be enumerated: every state but 0 appears, before its own   *)
(* row and after the lower ones.                                             *)
FirstAt(s, i, x) == s[x] = i /\ \A y \in 0 .. x - 1 : s[y] < i
Strings(n, k) == { s \in [Places(n, k) -> 0 .. n - 1] :
                     \A i \in 1 .. n - 1 : \E x \in 0 .. k * i - 1 : FirstAt(s, i, x) }

(* Their order: late first places before early ones, then the digits.        *)
Firsts(s, n, k) == [i \in 1 .. n - 1 |-> CHOOSE x \in Places(n, k) : FirstAt(s, i, x)]
Differ(s, t)    == { x \in DOMAIN s : s[x] # t[x] }
Before(s, t, n, k) ==
    LET f == Firsts(s, n, k)
        h == Firsts(t, n, k)
    IN  IF f = h THEN s # t /\ LET x == Min(Differ(s, t)) IN s[x] < t[x]
                 ELSE LET i == Min(Differ(f, h)) IN f[i] > h[i]

(* Calls of next() walk through the strings and, with each, the sets of      *)
(* final states, leaving none out and repeating none: a call goes to the     *)
(* next set, or to the first set of the string that follows in the order.    *)
(* This is about what next() keeps, not about the automata it hands out.     *)
NoStringSkipped ==
    [][ NextSequential =>
          \/ g'.s = g.s /\ (g'.final = g.final + 1 \/ ~ hasNext(g))
          \/ /\ Before(g.s, g'.s, g.n, g.k)
             /\ \A t \in Strings(g.n, g.k) :
                   ~ (Before(g.s, t, g.n, g.k) /\ Before(t, g'.s, g.n, g.k))
             /\ g.final = TotalFinals(g) - 1
             /\ g'.final = 1 ]_icdfaVars

(* Whatever the generator did before, drawn or enumerated, its string has    *)
(* every state but 0 in the row of a lower one, and one it enumerated is one *)
(* of the strings to be enumerated; a drawn one may not be, because of the   *)
(* places left as they were.  hasNext() is true exactly as long as a string  *)
(* or a set of final states is left, and getSize(), the bound of the numbers *)
(* drawn, is the number of strings: no number is missing or one too many.    *)
StringsAreComplete ==
    /\ g # NoGenerator =>
          \A i \in 1 .. g.n - 1 : \E x \in 0 .. g.k * i - 1 : g.s[x] = i
    /\ g.type = "SEQUENTIAL" =>
          /\ g.s \in Strings(g.n, g.k)
          /\ hasNext(g) <=> \/ g.final < TotalFinals(g) - 1
                            \/ \E t \in Strings(g.n, g.k) : Before(g.s, t, g.n, g.k)
    /\ g.type = "RANDOM" => getSize(g.n, g.k) = Cardinality(Strings(g.n, g.k))
=============================================================================

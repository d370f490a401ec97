------------------------------- MODULE RegExp -------------------------------
(***************************************************************************)
(* The regular expressions of grail (grail-adapter/grail/classes/re): the  *)
(* six kinds of subexpression, what their virtual functions answer, their  *)
(* order, and the object re that the filters build expressions in.         *)
(***************************************************************************)
EXTENDS Machines

CONSTANTS Letters,    (* the symbols, numbers                                *)
          Operands,   (* the expressions that are added or catenated         *)
          MaxSize     (* bound on the size of the expression built           *)

VARIABLE p            (* the expression of an re, or clear                   *)

clear        == [kind |-> "clear"]
empty_set    == [kind |-> "empty_set"]
empty_string == [kind |-> "empty_string"]
symbol_exp(s)  == [kind |-> "symbol_exp", content |-> s]
cat_exp(l, r)  == [kind |-> "cat_exp", left |-> l, right |-> r]
plus_exp(l, r) == [kind |-> "plus_exp", left |-> l, right |-> r]
star_exp(l)    == [kind |-> "star_exp", left |-> l]

(***************************************************************************)
(* The virtual functions, class by class: what an expression answers, from *)
(* the answers l and r of its parts, and the kinds it compares less to.    *)
(* subexp holds the defaults that a class does not override.               *)
(***************************************************************************)
subexp == [is_empty_set |-> FALSE, is_empty_string |-> FALSE, is_finite |-> TRUE,
           contains_empty_set |-> FALSE, contains_empty_string |-> FALSE, size |-> 1,
           below |-> {}]

OfEmptySet == [subexp EXCEPT !.is_empty_set = TRUE, !.contains_empty_set = TRUE,
    !.below = {"empty_string", "symbol_exp", "cat_exp", "plus_exp", "star_exp"}]

OfEmptyString == [subexp EXCEPT !.is_empty_string = TRUE,
    !.below = {"symbol_exp", "cat_exp", "plus_exp", "star_exp"}]

OfSymbol == [subexp EXCEPT !.below = {"cat_exp", "plus_exp", "star_exp"}]

OfCat(l, r) ==
    [is_empty_set          |-> l.is_empty_set \/ r.is_empty_set,
     is_empty_string       |-> l.is_empty_string /\ r.is_empty_string,
     is_finite             |-> l.is_finite /\ r.is_finite,
     contains_empty_set    |-> l.contains_empty_set \/ r.contains_empty_set,
     contains_empty_string |-> l.contains_empty_string \/ r.contains_empty_string,
     size                  |-> 1 + l.size + r.size,
     below                 |-> {"plus_exp", "star_exp"}]

EitherIsString(l, r) ==    (* mutation: the other part is not looked at *)
    [OfCat(l, r) EXCEPT !.is_empty_string = l.is_empty_string \/ r.is_empty_string]
OfPlus(l, r) ==
    [is_empty_set          |-> l.is_empty_set /\ r.is_empty_set,
     is_empty_string       |-> \/ l.is_empty_string /\ (r.is_empty_string \/ r.is_empty_set)
                               \/ l.is_empty_set /\ r.is_empty_string,
     is_finite             |-> l.is_finite /\ r.is_finite,
     contains_empty_set    |-> l.contains_empty_set \/ r.contains_empty_set,
     contains_empty_string |-> l.contains_empty_string \/ r.contains_empty_string,
     size                  |-> 1 + l.size + r.size,
     below                 |-> {"star_exp"}]

OfStar(l) ==
    [subexp EXCEPT !.is_empty_string = l.is_empty_string \/ l.is_empty_set,
                   !.is_finite = l.is_empty_string \/ l.is_empty_set,
                   !.contains_empty_set = l.contains_empty_set,
                   !.contains_empty_string = l.contains_empty_string,
                   !.size = 1 + l.size]

RECURSIVE Answers(_)
Answers(e) ==
    CASE e.kind = "empty_set"    -> OfEmptySet
      [] e.kind = "empty_string" -> OfEmptyString
      [] e.kind = "symbol_exp"   -> OfSymbol
      [] e.kind = "cat_exp"      -> OfCat(Answers(e.left), Answers(e.right))
      [] e.kind = "plus_exp"     -> OfPlus(Answers(e.left), Answers(e.right))
      [] e.kind = "star_exp"     -> OfStar(Answers(e.left))

(* A clear re answers 0 to everything.                                       *)
Answer(e) ==
    IF e = clear THEN [subexp EXCEPT !.is_finite = FALSE, !.size = 0] ELSE Answers(e)

(***************************************************************************)
(* *x < y and *x == y ask y for its compare function of the kind of x: 0   *)
(* when equal, -1 when y is less than x, 1 when it is greater.             *)
(***************************************************************************)
RECURSIVE Compare(_, _)
Same(x, y) == Compare(y, x) = 0
Less(x, y) == Compare(y, x) = -1
CompareParts(y, l, r) ==    (* of a cat_exp, and of a plus_exp *)
    IF Same(y.left, l)
    THEN IF Same(y.right, r) THEN 0 ELSE IF Less(y.right, r) THEN -1 ELSE 1
    ELSE IF Less(y.left, l) THEN -1 ELSE 1
Compare(y, x) ==
    CASE y.kind # x.kind       -> IF x.kind \in Answers(y).below THEN -1 ELSE 1
      [] y.kind = "symbol_exp" -> IF x.content = y.content THEN 0
                                  ELSE IF x.content < y.content THEN -1 ELSE 1
      [] y.kind = "star_exp"   -> IF Same(y.left, x.left) THEN 0
                                  ELSE IF Less(y.left, x.left) THEN -1 ELSE 1
      [] y.kind = "cat_exp"    -> CompareParts(y, x.left, x.right)
      [] y.kind = "plus_exp"   -> IF ~Same(y.left, x.left) /\ Same(y.left, x.right)
                                  THEN CompareParts(y, x.right, x.left)
                                  ELSE CompareParts(y, x.left, x.right)
      [] OTHER                 -> 0

ReEquals(e, f) == IF clear \in {e, f} THEN e = f ELSE Same(e, f)

(***************************************************************************)
(* re's operations.  A clear expression is neither catenated nor added,    *)
(* and star() leaves a starred one as it is.                               *)
(***************************************************************************)
ReCat(e, r)  == IF r = clear THEN e ELSE IF e = clear THEN r ELSE cat_exp(e, r)
RePlus(e, r) == IF r = clear THEN e ELSE IF e = clear THEN r ELSE plus_exp(e, r)
ReStar(e)    == IF e = clear \/ e.kind = "star_exp" THEN e ELSE star_exp(e)

(* The machine of an expression, part by part.                               *)
RECURSIVE subexp_to_fm(_)
subexp_to_fm(e) ==
    CASE e.kind = "empty_set"    -> Clear
      [] e.kind = "empty_string" -> [start |-> {0}, final |-> {0}, arcs |-> {}]
      [] e.kind = "symbol_exp"   -> [start |-> {0}, final |-> {1}, arcs |-> {<<0, e.content, 1>>}]
      [] e.kind = "cat_exp"      -> catenate(subexp_to_fm(e.left), subexp_to_fm(e.right))
      [] e.kind = "plus_exp"     -> unite(subexp_to_fm(e.left), subexp_to_fm(e.right))
      [] e.kind = "star_exp"     -> star(subexp_to_fm(e.left))
retofm(e) == IF e = clear THEN Clear ELSE subexp_to_fm(e)

(* Its words; a star is passed over.                                         *)
RECURSIVE subexp_to_fl(_)
subexp_to_fl(e) ==
    CASE e.kind = "empty_set"    -> {}
      [] e.kind = "empty_string" -> {<<>>}
      [] e.kind = "symbol_exp"   -> {<<e.content>>}
      [] e.kind = "cat_exp"      -> {v \o w : v \in subexp_to_fl(e.left), w \in subexp_to_fl(e.right)}
      [] e.kind = "plus_exp"     -> subexp_to_fl(e.left) \cup subexp_to_fl(e.right)
      [] e.kind = "star_exp"     -> subexp_to_fl(e.left)
retofl(e) == IF e = clear THEN {} ELSE subexp_to_fl(e)

(* The union of the words, each catenated symbol by symbol.                  *)
fltore(L) ==
    LET Exp(w) == IF w = <<>> THEN empty_string
                  ELSE FoldLeft(LAMBDA e, x : ReCat(e, symbol_exp(x)), clear, w)
    IN  IF L = {} THEN empty_set
        ELSE FoldSet(LAMBDA w, e : RePlus(e, Exp(w)), clear, L)

ReInit == p = clear

Make == p' \in {clear, empty_set, empty_string} \cup {symbol_exp(s) : s \in Letters}
Cat  == \E r \in Operands \cup {clear} : p' = ReCat(p, r)
Plus == \E r \in Operands \cup {clear} : p' = RePlus(p, r)
Star == p' = ReStar(p)

ReNext == (Make \/ Cat \/ Plus \/ Star) /\ Answer(p').size <= MaxSize

ReSpec == ReInit /\ [][ReNext]_p
-----------------------------------------------------------------------------
(* The language of an expression, up to words of n letters.                  *)
RECURSIVE LanguageOf(_, _)
LanguageOf(e, n) ==
    LET L == LanguageOf(e.left, n)
        Upto(S) == {w \in S : Len(w) <= n}
        power[i \in Nat] == IF i = 0 THEN {<<>>}
                            ELSE {<<>>} \cup Upto({v \o w : v \in power[i - 1], w \in L})
    IN  CASE e.kind = "empty_string" -> {<<>>}
          [] e.kind = "symbol_exp"   -> Upto({<<e.content>>})
          [] e.kind = "cat_exp"      -> Upto({v \o w : v \in L, w \in LanguageOf(e.right, n)})
          [] e.kind = "plus_exp"     -> L \cup LanguageOf(e.right, n)
          [] e.kind = "star_exp"     -> power[n]
          [] OTHER                   -> {}

RECURSIVE StarsNothing(_)
StarsNothing(e) ==
    CASE e.kind = "star_exp"              -> Answers(e.left).is_empty_set \/ StarsNothing(e.left)
      [] e.kind \in {"cat_exp", "plus_exp"} -> StarsNothing(e.left) \/ StarsNothing(e.right)
      [] OTHER                            -> FALSE

(* What is_empty_set(), is_empty_string() and is_finite() answer from the    *)
(* structure alone is true of the language, and only the last may err, on    *)
(* the safe side.  retofm() builds a machine of the same language, although  *)
(* ^= drops instructions of its right operand, and retofl() the words        *)
(* themselves where is_finite() allows it - unless an empty set is starred,  *)
(* which is the one case where passing over the star is wrong.  Expressions  *)
(* that compare equal, the parts of a union in either order, mean the same.  *)
ExpressionsKeepLanguage ==
    p # clear =>
        LET L == LanguageOf(p, 4)
            m == retofm(p)
            n == Answer(p).size
        IN  /\ Answer(p).is_empty_set = (L = {})
            /\ Answer(p).is_empty_string = (L = {<<>>})
            /\ Answer(p).is_finite => \A w \in LanguageOf(p, n + 1) : Len(w) <= n
            /\ L = {w \in UNION {[1 .. i -> Letters] : i \in 0 .. 4} : member_of_language(m, w)}
            /\ Answer(p).is_finite /\ ~StarsNothing(p) => {w \in retofl(p) : Len(w) <= 4} = L
            /\ \A r \in Operands : ReEquals(p, r) => LanguageOf(r, 4) = L
=============================================================================

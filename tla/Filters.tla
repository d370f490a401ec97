------------------------------- MODULE Filters -------------------------------
(***************************************************************************)
(* The grail filters (grail-adapter/grail/char/grail.cpp): one program     *)
(* under many names, each run of which reads one or two operands from the  *)
(* files it is given or from its standard input, calls the operations of   *)
(* its name and prints the result, which the next filter of a pipeline     *)
(* reads.  A file holds a machine (fm), a regular expression (re) or a     *)
(* finite language (fl); a word is written on the command line.            *)
(***************************************************************************)
EXTENDS RegExp, TLC

CONSTANTS Files,      (* what the files hold: [kind, val], by name           *)
          Missing,    (* the name of a file that does not exist              *)
          Nothing,    (* no value                                            *)
          MaxPiped    (* bound on the filters of a pipeline                  *)

VARIABLES
    job,       (* the filter that runs: its name, arguments, input, step     *)
    a, b,      (* its variables                                              *)
    piped,     (* what the filter before it printed                          *)
    stage      (* the place of the filter in its pipeline                    *)

filterVars == <<job, a, b, piped, stage>>

(* A name's operands, the calls made on a with b, and what is printed of a.  *)
Row(takes, calls, prints) == [takes |-> takes, calls |-> calls, prints |-> prints]
OneFm == <<"fm">>
TwoFm == <<"fm", "fm">>
FlWord == <<"fl", "word">>

CompleteAndCat ==
    [fmcomp     |-> Row(OneFm, <<"complete">>, "a"),
     fmreduce   |-> Row(OneFm, <<"reduce">>, "a"),
     fmuseful   |-> Row(OneFm, <<"useful_fm">>, "a"),
     fmcment    |-> Row(OneFm, <<"complement">>, "a"),
     fmcat      |-> Row(TwoFm, <<"^=">>, "a"),
     fmcatsize  |-> Row(TwoFm, <<"^=", "subset">>, "size"),
     fmcatrsize |-> Row(TwoFm, <<"^=", "subset", "reduce">>, "size"),
     fmcatmsize |-> Row(TwoFm, <<"^=", "subset", "reduce", "min_by_partition">>, "size")]

Cross == [fmcross |-> Row(TwoFm, <<"cross_product">>, "a")]

Exec == [fmexec |-> Row(<<"fm", "word">>, <<"member_of_language">>, "verdict")]

MinToReach ==
    [fmmin     |-> Row(OneFm, <<"refuse nfm", "min_by_partition">>, "a"),
     fmminrev  |-> Row(OneFm, <<"reverse", "reachable_fm", "subset",
                                "reverse", "reachable_fm", "subset">>, "a"),
     fmplus    |-> Row(OneFm, <<"plus">>, "a"),
     fmrenum   |-> Row(OneFm, <<"refuse nfm", "canonical_numbering">>, "a"),
     fmreverse |-> Row(OneFm, <<"reverse">>, "a"),
     fmsuff    |-> Row(OneFm, <<"suffix">>, "a"),
     fmpref    |-> Row(OneFm, <<"prefix">>, "a"),
     fmreach   |-> Row(OneFm, <<"reachable_fm">>, "a")]

Stars == [fmstar |-> Row(OneFm, <<"star">>, "a")]

Enum == [fmenum |-> Row(OneFm, <<"enumerate">>, "words")]

Shuffle == [fmshuffle |-> Row(TwoFm, <<"shuffle">>, "a")]

NfaToDfaFilter == [nfatodfa |-> Row(OneFm, <<"nfatodfa">>, "a")]

ToFl == [fmtofl |-> Row(OneFm, <<"refuse infinite fm", "fmtofl">>, "a")]

UnionAndAppend ==
    [fmunion      |-> Row(TwoFm, <<"+=">>, "a"),
     fmunionsize  |-> Row(TwoFm, <<"+=", "subset">>, "size"),
     fmunionrsize |-> Row(TwoFm, <<"+=", "subset", "reduce">>, "size"),
     fmunionmsize |-> Row(TwoFm, <<"+=", "subset", "reduce", "min_by_partition">>, "size"),
     fmdeterm     |-> Row(OneFm, <<"subset">>, "a"),
     flappend     |-> Row(FlWord, <<"append">>, "a")]

FlExecAndFilter ==
    [flexec   |-> Row(FlWord, <<"member">>, "verdict"),
     flfilter |-> Row(<<"fl", "fm">>, <<"flfilter">>, "a")]

FlQuotients ==
    [fllq      |-> Row(FlWord, <<"left_quotient">>, "a"),
     flprepend |-> Row(FlWord, <<"prepend">>, "a"),
     flprod    |-> Row(<<"fl", "fl">>, <<"*=">>, "a"),
     flreverse |-> Row(<<"fl">>, <<"reverse words">>, "a"),
     flrq      |-> Row(FlWord, <<"right_quotient">>, "a")]

FlToOthers == [fltofm |-> Row(<<"fl">>, <<"fltofm">>, "a")]

FlToRe ==
    [fltore  |-> Row(<<"fl">>, <<"fltore">>, "a"),
     flunion |-> Row(<<"fl", "fl">>, <<"add words">>, "a")]

(* A negative answer of these four is an exit status of 1.                   *)
Tests ==
    [iscomp   |-> Row(OneFm, <<"is_complete">>, "verdict"),
     isdeterm |-> Row(OneFm, <<"is_deterministic">>, "verdict"),
     isomorph |-> Row(TwoFm, <<"canonical_numbering", "number b", "==">>, "verdict"),
     isuniv   |-> Row(OneFm, <<"is_universal">>, "verdict")]

OfExpressions ==
    [recat   |-> Row(<<"re", "re">>, <<"re ^=">>, "a"),
     remin   |-> Row(<<"re">>, <<>>, "a"),   (* it minimises nothing *)
     reunion |-> Row(<<"re", "re">>, <<"re +=">>, "a"),
     restar  |-> Row(<<"re">>, <<"re star">>, "a"),
     retofl  |-> Row(<<"re">>, <<"refuse infinite re", "retofl">>, "a"),
     retofm  |-> Row(<<"re">>, <<"retofm">>, "a"),
     isnull  |-> Row(<<"re">>, <<"is_empty_string">>, "verdict"),
     isempty |-> Row(<<"re">>, <<"is_empty_set">>, "verdict")]

FmIsEmpty == [fmisempty |-> Row(OneFm, <<"no final state is reached">>, "verdict")]
FmSize    == [fmsize |-> Row(OneFm, <<>>, "size")]

Table ==
    CompleteAndCat @@ Cross @@ Exec @@ MinToReach @@ Stars @@ ToFl @@ UnionAndAppend
    @@ FlExecAndFilter @@ FlQuotients @@ FlToOthers @@ FlToRe @@ Tests @@ OfExpressions
    @@ FmIsEmpty @@ FmSize @@ Enum @@ Shuffle @@ NfaToDfaFilter

(* fl: a set of words.                                                       *)
left_quotient(L, w)  == {SubSeq(v, Len(w) + 1, Len(v)) : v \in {u \in L : IsPrefix(w, u)}}
right_quotient(L, w) == {SubSeq(v, 1, Len(v) - Len(w)) : v \in {u \in L : IsSuffix(w, u)}}

(* Waves of words until there are number of them, or no longer words: none   *)
(* at all if no final state is reached.                                      *)
RECURSIVE Develop(_, _, _, _)
Develop(t, wave, found, number) ==
    LET members == found \cup MembersIn(t, wave)
        next    == Longer(t, wave)
    IN  IF Cardinality(members) >= number \/ next = {} THEN members
        ELSE Develop(t, next, members, number)
enumerate(m, number) ==
    LET t == Trimmed(m)
    IN  IF reachable_states(m) \cap m.final = {} THEN {}
        ELSE Develop(t, {<<s, <<>>>> : s \in t.start}, {}, number)
ByDefault == 100    (* without an option -n; that many are printed, shortest first *)

Refuses(call, x) ==
    \/ call = "refuse nfm" /\ ~is_deterministic(x)
    \/ call = "refuse infinite fm" /\ ~is_finite(x)
    \/ call = "refuse infinite re" /\ ~Answer(x).is_finite

Result(call, x, y) ==
    CASE call = "+="                  -> unite(x, y)
      [] call = "^="                  -> catenate(x, y)
      [] call = "cross_product"       -> cross_product(x, y)
      [] call = "shuffle"             -> shuffle(x, y)
      [] call = "nfatodfa"            -> nfatodfa(x)
      [] call = "enumerate"           -> enumerate(x, ByDefault)
      [] call = "complete"            -> complete(x)
      [] call = "reduce"              -> reduce(x)
      [] call = "useful_fm"           -> useful_fm(x)
      [] call = "complement"          -> complement(x)
      [] call = "subset"              -> subset(x)
      [] call = "min_by_partition"    -> min_by_partition(x)
      [] call = "canonical_numbering" -> canonical_numbering(x)
      [] call = "reverse"             -> reverse(x)
      [] call = "reachable_fm"        -> reachable_fm(x)
      [] call = "plus"                -> plus(x)
      [] call = "star"                -> star(x)
      [] call = "suffix"              -> suffix(x)
      [] call = "prefix"              -> prefix(x)
      [] call = "fmtofl"              -> fmtofl(x)
      [] call = "fltofm"              -> fltofm(x)
      [] call = "member_of_language"  -> member_of_language(x, y)
      [] call = "is_complete"         -> is_complete(x)
      [] call = "is_deterministic"    -> is_deterministic(x)
      [] call = "is_universal"        -> is_universal(x)
      [] call = "=="                  -> x = y
      [] call = "no final state is reached" -> reachable_states(x) \cap x.final = {}
      [] call = "append"              -> {w \o y : w \in x}
      [] call = "prepend"             -> {y \o w : w \in x}
      [] call = "left_quotient"       -> left_quotient(x, y)
      [] call = "right_quotient"      -> right_quotient(x, y)
      [] call = "reverse words"       -> {Reverse(w) : w \in x}
      [] call = "*="                  -> {v \o w : v \in x, w \in y}
      [] call = "add words"           -> x \cup y
      [] call = "member"              -> y \in x
      [] call = "flfilter"            -> {w \in x : member_of_language(y, w)}
      [] call = "fltore"              -> fltore(x)
      [] call = "re ^="               -> ReCat(x, y)
      [] call = "re +="               -> RePlus(x, y)
      [] call = "re star"             -> ReStar(x)
      [] call = "retofl"              -> retofl(x)
      [] call = "retofm"              -> retofm(x)
      [] call = "is_empty_string"     -> Answer(x).is_empty_string
      [] call = "is_empty_set"        -> Answer(x).is_empty_set
      [] OTHER                        -> x

(***************************************************************************)
(* Operands.  With fewer arguments than operands the standard input stands *)
(* for the missing one: for the second of two, but for the first when a    *)
(* word follows it, and in flfilter.  Any other number of arguments, or a  *)
(* name that cannot be opened, ends the run with status 1.  A word is the  *)
(* argument itself, which is never opened.                                 *)
(***************************************************************************)
get_one(argv, input) ==
    CASE Len(argv) = 0 -> <<input, Nothing>>
      [] Len(argv) = 1 -> <<argv[1], Nothing>>
      [] OTHER         -> <<Missing, Nothing>>
InputFirst(argv, input) ==    (* mutation: the two variables swapped *)
    CASE Len(argv) = 1 -> <<input, argv[1]>>
      [] Len(argv) = 2 -> argv
      [] OTHER         -> <<Missing, Missing>>
get_two(argv, input) ==
    CASE Len(argv) = 1 -> <<argv[1], input>>
      [] Len(argv) = 2 -> argv
      [] OTHER         -> <<Missing, Missing>>
get_word(argv, input) ==
    CASE Len(argv) = 1 -> <<input, argv[1]>>
      [] Len(argv) = 2 -> argv
      [] OTHER         -> <<Missing, Missing>>
filter_operands(argv, input) ==
    CASE Len(argv) = 1 -> <<input, argv[1]>>
      [] Len(argv) = 2 -> argv
      [] OTHER         -> <<Missing, Missing>>

OperandsOf(f, argv, input) ==
    CASE Len(Table[f].takes) = 1     -> get_one(argv, input)
      [] f = "flfilter"              -> filter_operands(argv, input)
      [] Table[f].takes[2] = "word"  -> get_word(argv, input)
      [] OTHER                       -> get_two(argv, input)

Opened(name) == IF name \in DOMAIN Files THEN Files[name] ELSE name

NoJob == [filter |-> "none", argv |-> <<>>, input |-> Nothing, at |-> 0, status |-> 0,
          ended |-> TRUE]

FilterInit ==
    /\ job = NoJob
    /\ a = Nothing /\ b = Nothing
    /\ piped = Nothing
    /\ stage = 0

(* Up to two arguments, and three as an example of too many.                 *)
Names == DOMAIN Files \cup {Missing}
Arguments == UNION {[1 .. n -> Names] : n \in 0 .. 2} \cup {<<n, n, n>> : n \in Names}

(* The first filter of a pipeline has its operands in files, the others read *)
(* what was piped.  Only operands of the kinds the filter takes are given:   *)
(* what the parsers make of another kind's text is left out.                 *)
Start(f, argv) ==
    LET ops == OperandsOf(f, argv, piped)
    IN  /\ stage > 0 => piped \in ToSet(ops)
        /\ \A i \in DOMAIN Table[f].takes :
              IF ops[i] = Missing
              THEN Table[f].takes[i] = "word" => ops[1] = Missing
              ELSE /\ Opened(ops[i]) # Nothing
                   /\ Opened(ops[i]).kind = Table[f].takes[i]
        /\ job' = [filter |-> f, argv |-> argv, input |-> piped, at |-> 0, status |-> 0,
                   ended |-> FALSE]
        /\ stage' = stage + 1
        /\ a' = Nothing /\ b' = Nothing /\ piped' = Nothing

StartFilter ==
    /\ job.ended /\ stage < MaxPiped
    /\ stage > 0 => piped # Nothing
    /\ \E f \in DOMAIN Table, argv \in Arguments : Start(f, argv)

Exit(status) == job' = [job EXCEPT !.ended = TRUE, !.status = status]

ReadOperands ==
    /\ ~job.ended /\ job.at = 0
    /\ LET ops == OperandsOf(job.filter, job.argv, job.input)
       IN  IF Missing \in ToSet(ops)
           THEN Exit(1) /\ UNCHANGED <<a, b>>
           ELSE /\ a' = Opened(ops[1]).val
                /\ b' = IF ops[2] = Nothing THEN Nothing ELSE Opened(ops[2]).val
                /\ job' = [job EXCEPT !.at = 1]
    /\ UNCHANGED <<piped, stage>>

DoCall ==
    /\ ~job.ended
    /\ job.at \in DOMAIN Table[job.filter].calls
    /\ LET call == Table[job.filter].calls[job.at]
       IN  IF Refuses(call, a)
           THEN Exit(1) /\ UNCHANGED <<a, b>>
           ELSE /\ a' = Result(call, a, b)
                /\ b' = IF call = "number b" THEN canonical_numbering(b) ELSE b
                /\ job' = [job EXCEPT !.at = @ + 1]
    /\ UNCHANGED <<piped, stage>>

KindOf(f) ==
    CASE f \in {"fmtofl", "retofl", "fmenum"}  -> "fl"
      [] f \in {"retofm", "fltofm"}            -> "fm"
      [] f = "fltore"                          -> "re"
      [] OTHER                                 -> Table[f].takes[1]

PrintIt ==
    /\ ~job.ended /\ job.at = Len(Table[job.filter].calls) + 1
    /\ piped' = IF Table[job.filter].prints = "a"
                THEN [kind |-> KindOf(job.filter), val |-> a] ELSE Nothing
    /\ Exit(IF job.filter \in DOMAIN Tests /\ ~a THEN 1 ELSE 0)
    /\ UNCHANGED <<a, b, stage>>

FilterNext ==
    \/ StartFilter
    \/ ReadOperands
    \/ DoCall
    \/ PrintIt

FilterSpec == FilterInit /\ [][FilterNext]_filterVars
-----------------------------------------------------------------------------
(* The promises.  A value of any kind is taken for the words, of at most     *)
(* four letters, of its language.                                            *)
Word(n) == UNION {[1 .. i -> Letters] : i \in 0 .. n}
Accepted(m, n) == {w \in Word(n) : member_of_language(m, w)}
Short(L) == {w \in L : Len(w) <= 4}
Meaning(kind, v) ==
    CASE kind = "fm"   -> Accepted(v, 4)
      [] kind = "re"   -> IF v = clear THEN {} ELSE LanguageOf(v, 4)
      [] kind = "fl"   -> Short(v)
      [] kind = "word" -> {v}

(* What a user gives the filter: the files in the order of the command line, *)
(* the input behind them, but before a word and before flfilter's machine.   *)
Given ==
    LET f     == job.filter
        takes == Table[f].takes
        input == IF Len(job.argv) < Len(takes) THEN <<job.input>> ELSE <<>>
        first == f = "flfilter" \/ ToSet(takes) \cap {"word"} # {}
        all   == IF first THEN input \o job.argv ELSE job.argv \o input
    IN  [i \in DOMAIN takes |-> Opened(all[i])]

Products(K, L) == Short({v \o w : v \in K, w \in L})
Closure(L) ==
    LET power[i \in Nat] == IF i = 0 THEN L ELSE L \cup Products(power[i - 1], L) IN power[4]

(* ^= forgets words of its right operand when that comes back to a start     *)
(* state by way of another state.                                            *)
Reenters(m) ==
    \E t \in m.arcs : t[3] \in m.start /\ t[1] # t[3] /\ t[3] \in {u[1] : u \in m.arcs}

(* The words that are a word of K on some of their places and a word of L on *)
(* the others.                                                               *)
Shuffles(K, L) ==
    LET At(w, I) == FoldLeft(LAMBDA v, i : IF i \in I THEN Append(v, w[i]) ELSE v,
                             <<>>, [i \in DOMAIN w |-> i])
    IN  {w \in Word(4) : \E I \in SUBSET DOMAIN w :
                            At(w, I) \in K /\ At(w, (DOMAIN w) \ I) \in L}

(* shuffle() counts on numbers without a gap, which canonical_numbering()    *)
(* sees to only in a deterministic machine.                                  *)
Gaps(m) == ~is_deterministic(m) /\ states(m) # 0 .. number_of_states(m) - 1

(* subset(), which complement() begins with, drops the arcs on no path from  *)
(* a start state to a final one, and takes the alphabet from what is left.   *)
LosesLetters(m) ==
    ~is_deterministic(m) /\ labels(useful_fm(reachable_fm(m))) # labels(m)

(* The language asked for, given those of the operands; x is the first one.  *)
Keeping == {"fmcomp", "fmreduce", "fmuseful", "fmmin", "fmminrev", "fmrenum", "fmreach",
            "fmdeterm", "nfatodfa", "fmenum", "fmtofl", "fltofm", "fltore", "retofl", "retofm", "remin", "fmsize"}
Uniting == {"fmunion", "fmunionsize", "fmunionrsize", "fmunionmsize", "flunion", "reunion"}
Catenating == {"fmcat", "fmcatsize", "fmcatrsize", "fmcatmsize", "recat",
               "flprod", "flappend"}
Asked(f, K, L, x) ==
    CASE f \in Keeping                 -> K
      [] f \in Uniting                 -> K \cup L
      [] f \in Catenating              -> Products(K, L)
      [] f = "flprepend"               -> Products(L, K)
      [] f \in {"fmcross", "flfilter"} -> K \cap L
      [] f = "fmshuffle"               -> Shuffles(K, L)
      [] f \in {"fmstar", "restar"}    -> Closure(K) \cup {<<>>}
      [] f = "fmplus"                  -> Closure(K)
      [] f \in {"fmreverse", "flreverse"} -> {Reverse(w) : w \in K}
      [] f = "fmcment" -> {w \in Word(4) : ToSet(w) \subseteq labels(x)} \ K
      [] f = "fmpref"  -> {w \in Word(4) : \E v \in Accepted(x, 7) : IsPrefix(w, v)}
      [] f = "fmsuff"  -> {w \in Word(4) : \E v \in Accepted(x, 7) : IsSuffix(w, v)}
      [] f = "fllq"    -> {v \in Word(4) : \E w \in L : w \o v \in x}
      [] f = "flrq"    -> {v \in Word(4) : \E w \in L : v \o w \in x}

Verdicts == {f \in DOMAIN Table : Table[f].prints = "verdict"}
Exempt(f, given) ==
    \/ f \in Catenating /\ given[2].kind = "fm" /\ Reenters(given[2].val)
    \/ f = "fmsuff" /\ states(given[1].val) # reachable_states(given[1].val)
    \/ f = "fmshuffle" /\ (Gaps(given[1].val) \/ Gaps(given[2].val))
    \/ f = "fmcment" /\ LosesLetters(given[1].val)
    \/ f = "retofl" /\ StarsNothing(given[1].val)
    \/ f = "fmmin" /\ is_deterministic(given[1].val) /\ StartGivesWay(given[1].val)

(* A run that ends well has printed the language its name stands for,        *)
(* whatever the operands, wherever they came from and whatever the filter    *)
(* before it in the pipeline was.  fmcment's is "all words over the input    *)
(* alphabet previously not accepted" (compment.src:36-38).  Exempt are the   *)
(* six cases where the code is known to fall short: ^= with a start state    *)
(* that is entered again, suffix() of a machine with states that cannot be   *)
(* reached, shuffle() of a nondeterministic machine whose numbers have gaps, *)
(* complement() of one that loses letters, the words of an expression that   *)
(* stars the empty set, and the partition that lets another state represent  *)
(* the start state.                                                          *)
FiltersKeepTheirPromise ==
    LET f == job.filter
        second == IF Len(Given) = 2 THEN Meaning(Given[2].kind, Given[2].val) ELSE {}
    IN  f # "none" /\ f \notin Verdicts /\ job.ended /\ job.status = 0 /\ ~Exempt(f, Given) =>
            Meaning(KindOf(f), a) =
                Asked(f, Meaning(Given[1].kind, Given[1].val), second, Given[1].val)

(* A positive answer about an expression, a list or membership is exact, and *)
(* so is a machine being empty; isuniv and isomorph may say no although the  *)
(* languages agree, but never yes although they do not.                      *)
VerdictsAreTrue ==
    LET f == job.filter
        x == Given[1]
        y == Given[2]
        K == Meaning(x.kind, x.val)
    IN  f \in Verdicts /\ job.ended /\ a # Nothing =>
            /\ f = "fmisempty" => a = (K = {})
            /\ f = "isempty"   => a = (K = {})
            /\ f = "isnull"    => a = (K = {<<>>})
            /\ f \in {"fmexec", "flexec"} => a = (y.val \in K)
            /\ f = "isuniv" /\ a => {w \in Word(4) : ToSet(w) \subseteq labels(x.val)} \subseteq K
            /\ f = "isomorph" /\ a => K = Meaning(y.kind, y.val)
            /\ f \in DOMAIN Tests => job.status = IF a THEN 0 ELSE 1

(* catenate.src: "The resulting language will contain the all the words in   *)
(* the language represented by this fm catenated with the words in the       *)
(* language represented by the parameter fm" - for any two machines.         *)
CatenationIsComplete ==
    LET K(i) == Accepted(Given[i].val, 4)
    IN  job.filter = "fmcat" /\ job.ended /\ job.status = 0 =>
            Products(K(1), K(2)) \subseteq Accepted(a, 4)

(* minbyp.src: min_by_partition() "Minimizes the fm using Hopcroft's         *)
(* partition algorithm" - the words of a machine stay what they were.        *)
MinimisingKeepsLanguage ==
    job.filter = "fmmin" /\ job.ended /\ job.status = 0 =>
        Accepted(a, 4) = Accepted(Given[1].val, 4)
=============================================================================

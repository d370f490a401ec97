------------------------------- MODULE Adapter -------------------------------
(***************************************************************************)
(* The automata adapter over grail, grail-adapter/dfa.cc and nfa.cc: one   *)
(* function for each operation, on copies of its arguments.  Those of DFA  *)
(* make the result deterministic again when the operation has left it      *)
(* otherwise, those of NFA leave it as it is; the sequence of calls a      *)
(* program makes is any sequence.                                          *)
(***************************************************************************)
EXTENDS Machines

CONSTANTS Dfas, Nfas,   (* the machines the program has in files             *)
          MaxState      (* bound on the numbers of the states built          *)

(* A machine in a file is finite, and a DFA's is deterministic.              *)
ASSUME FilesAssumption ==
    /\ \A m \in Dfas \cup Nfas :
          /\ m \in [start : SUBSET Nat, final : SUBSET Nat, arcs : SUBSET (Nat \X Int \X Nat)]
          /\ IsFiniteSet(m.start) /\ IsFiniteSet(m.final) /\ IsFiniteSet(m.arcs)
    /\ \A m \in Dfas : is_deterministic(m)

VARIABLES held,         (* the machine the program has built so far          *)
          class         (* the class it was built with last                  *)

adapterVars == <<held, class>>

AdapterInit == held = Clear /\ class = "none"

(* IO::read_dfa_file() reads machines of either class.                       *)
ReadFile ==
    /\ class = "none"
    /\ \/ held' \in Dfas /\ class' = "DFA"
       \/ held' \in Nfas /\ class' = "NFA"

(* "We should keep it deterministic too"                                     *)
Deterministic(m) == IF is_deterministic(m) THEN m ELSE subset(m)

DFA_reverse(m)      == Deterministic(reverse(m))
DFA_complete(m)     == Deterministic(complete(m))
DFA_uniondfa(m, o)  == Deterministic(unite(m, o))
DFA_plus(m)         == Deterministic(plus(m))
DFA_star(m)         == Deterministic(star(m))
DFA_reachable(m)    == Deterministic(reachable_fm(m))
DFA_reduce(m)       == Deterministic(reduce(m))
DFA_Hopminimize(m)  == min_by_partition(m)
DFA_cross(m, o)     == Deterministic(cross_product(m, o))
DFA_shuffle(m, o)   == Deterministic(shuffle(m, o))
DFA_nfatodfa(m)     == Deterministic(m)
StillNondeterministic(m, o) == catenate(m, o)    (* mutation: subset() is forgotten *)
DFA_concat(m, o)    == Deterministic(catenate(m, o))

DfaResults(m, o) ==
    {DFA_reverse(m), DFA_complete(m), DFA_uniondfa(m, o), DFA_plus(m), DFA_star(m),
     DFA_reachable(m), DFA_reduce(m), DFA_Hopminimize(m), DFA_cross(m, o), DFA_shuffle(m, o),
     DFA_concat(m, o)}

NFA_reverse(m)      == reverse(m)
NFA_unionnfa(m, o)  == subset(unite(m, o))
NFA_plus(m)         == plus(m)
NFA_star(m)         == star(m)
NFA_reachable(m)    == reachable_fm(m)
NFA_reduce(m)       == reduce(m)
NFA_complete(m)     == complete(m)
NFA_cross(m, o)     == cross_product(m, m)    (* the second one is not used *)
NFA_shuffle(m, o)   == shuffle(m, o)
NFA_concat(m, o)    == catenate(m, o)

NfaResults(m, o) ==
    {NFA_reverse(m), NFA_unionnfa(m, o), NFA_plus(m), NFA_star(m), NFA_reachable(m),
     NFA_reduce(m), NFA_complete(m), NFA_cross(m, o), NFA_shuffle(m, o),
     NFA_concat(m, o)}

CallDfa ==
    /\ class = "DFA"
    /\ \E o \in Dfas : held' \in DfaResults(held, o)
    /\ max_state(held') <= MaxState
    /\ UNCHANGED class

CallNfa ==
    /\ class = "NFA"
    /\ \E o \in Nfas : held' \in NfaResults(held, o)
    /\ max_state(held') <= MaxState
    /\ UNCHANGED class

(* nfatodfa() and dfatonfa().                                                *)
NfaToDfa == class = "NFA" /\ class' = "DFA" /\ held' = DFA_nfatodfa(held)
DfaToNfa == class = "DFA" /\ class' = "NFA" /\ UNCHANGED held

AdapterNext == ReadFile \/ CallDfa \/ CallNfa \/ NfaToDfa \/ DfaToNfa

AdapterSpec == AdapterInit /\ [][AdapterNext]_adapterVars
-----------------------------------------------------------------------------
(* "We should keep it deterministic too": whatever sequence of calls built   *)
(* it, a machine the class DFA returns is deterministic.                     *)
DfaStaysDeterministic == class = "DFA" => is_deterministic(held)

(* Hopminimize() and fmminrev's way of minimising, which reverses and makes  *)
(* deterministic twice, arrive at the same machine up to the sink that the   *)
(* first adds: whatever built it, a language has one minimal machine.  Only  *)
(* when another state represents the start state does Hopminimize() fail.    *)
ByReversal(m) ==
    LET half(n) == subset(reachable_fm(reverse(n))) IN half(half(m))
MinimisersAgree ==
    class = "DFA" /\ reachable_states(held) \cap held.final # {} /\ ~StartGivesWay(held) =>
        canonical_numbering(useful_fm(DFA_Hopminimize(held))) = canonical_numbering(ByReversal(held))
=============================================================================

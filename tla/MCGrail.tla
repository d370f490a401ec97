------------------------------- MODULE MCGrail -------------------------------
(***************************************************************************)
(* Four programs over the operations of grail, one of which runs: the      *)
(* filters, a program that builds expressions, one that calls the adapter, *)
(* and the verification bucket of MyProposal.  They share operations, not  *)
(* state.                                                                  *)
(***************************************************************************)
EXTENDS Filters, Adapter, MachineBucket

CONSTANTS m1, m2, m3, e1, e2, l1, l2, w1    (* names of files *)

VARIABLE grailProgram

Machine(start, final, arcs) == [start |-> start, final |-> final, arcs |-> arcs]
Of(kind, val) == [kind |-> kind, val |-> val]

(* Both letters in turn, back to a start state that is final; words that end *)
(* in 12; two start states, one of them final and without arcs, and a state  *)
(* that is not reached.                                                      *)
Alternating == Machine({0}, {0, 1}, {<<0, 1, 1>>, <<1, 2, 0>>})
EndIn12     == Machine({0}, {2}, {<<0, 1, 0>>, <<0, 1, 1>>, <<1, 2, 2>>})
TwoStarts   == Machine({0, 1}, {1, 2}, {<<1, 1, 2>>, <<3, 2, 2>>})

(* Two machines whose start state is represented by another state of its     *)
(* class once they are minimised; the second one accepts the empty word.     *)
MergedStart == Machine({0}, {3}, {<<0, 1, 1>>, <<0, 2, 2>>, <<1, 1, 1>>, <<1, 2, 3>>,
                                  <<2, 1, 1>>, <<2, 2, 0>>, <<3, 1, 0>>, <<3, 2, 0>>})
MergedFinal == Machine({0}, {0, 1, 2, 4},
                       {<<0, 1, 1>>, <<0, 2, 2>>, <<1, 1, 0>>, <<1, 2, 2>>, <<2, 1, 0>>,
                        <<2, 2, 3>>, <<3, 1, 3>>, <<3, 2, 4>>, <<4, 1, 2>>, <<4, 2, 0>>})

OneOrPairs == plus_exp(symbol_exp(1), star_exp(cat_exp(symbol_exp(1), symbol_exp(2))))
StarsEmpty == cat_exp(plus_exp(empty_string, symbol_exp(2)), star_exp(empty_set))

MCFiles ==
    m1 :> Of("fm", Alternating) @@ m2 :> Of("fm", EndIn12) @@ m3 :> Of("fm", TwoStarts)
    @@ e1 :> Of("re", OneOrPairs) @@ e2 :> Of("re", StarsEmpty)
    @@ l1 :> Of("fl", {<<1>>, <<1, 2>>, <<2, 1>>}) @@ l2 :> Of("fl", {<<>>, <<1, 1>>})
    @@ w1 :> Of("word", <<1>>)

MCMergedFinal == m1 :> Of("fm", MergedFinal)

MCOperands ==
    {empty_set, empty_string, symbol_exp(1), symbol_exp(2),
     plus_exp(symbol_exp(1), empty_string), cat_exp(symbol_exp(1), symbol_exp(2)),
     star_exp(symbol_exp(2)), star_exp(empty_set),
     star_exp(cat_exp(symbol_exp(1), symbol_exp(2)))}

MCDfas == {Alternating, MergedStart, Machine({0}, {1}, {<<0, 1, 0>>, <<0, 2, 1>>})}
MCNfas == {EndIn12, TwoStarts}

MCIssued == {<<1, 2>>, <<2, 1>>, <<1, 1>>}
MCOthers == {<<>>, <<2, 2>>, <<1>>, <<1, 2, 1>>}

GrailInit ==
    /\ grailProgram \in {"filters", "expressions", "adapter", "bucket"}
    /\ FilterInit /\ ReInit /\ AdapterInit /\ MbInit

GrailNext ==
    /\ UNCHANGED grailProgram
    /\ \/ /\ grailProgram = "filters"
          /\ FilterNext
          /\ UNCHANGED <<p, adapterVars, mbVars>>
       \/ /\ grailProgram = "expressions"
          /\ ReNext
          /\ UNCHANGED <<filterVars, adapterVars, mbVars>>
       \/ /\ grailProgram = "adapter"
          /\ AdapterNext
          /\ UNCHANGED <<filterVars, p, mbVars>>
       \/ /\ grailProgram = "bucket"
          /\ MbNext
          /\ UNCHANGED <<filterVars, p, adapterVars>>

GrailSpec == GrailInit /\ [][GrailNext]_<<grailProgram, filterVars, p, adapterVars, mbVars>>
=============================================================================

---------------------------- MODULE OneTimeBucket ----------------------------
(***************************************************************************)
(* What the verification bucket of MyProposal promises: a word that was    *)
(* issued can be redeemed, once.                                           *)
(***************************************************************************)
CONSTANTS Threads,   (* whoever issues and redeems                           *)
          Words,     (* puzzle and digest, concatenated                      *)
          Wrong      (* a text that is no issued word                        *)

VARIABLES open,      (* the words that may still be redeemed                 *)
          asked,     (* the text each thread has in hand                     *)
          result     (* the verdict each thread got last                     *)

OpenInit ==
    /\ open = {}
    /\ asked = [t \in Threads |-> Wrong]
    /\ result = [t \in Threads |-> FALSE]

Ask(t) ==
    /\ \E w \in Words \cup {Wrong} : asked' = [asked EXCEPT ![t] = w]
    /\ UNCHANGED <<open, result>>

Issue(t) ==
    /\ asked[t] \in Words
    /\ open' = open \cup {asked[t]}
    /\ UNCHANGED <<asked, result>>

Redeem(t) ==
    /\ result' = [result EXCEPT ![t] = asked[t] \in open]
    /\ open' = open \ {asked[t]}
    /\ UNCHANGED asked

OpenNext == \E t \in Threads : Ask(t) \/ Issue(t) \/ Redeem(t)

OpenSpec == OpenInit /\ [][OpenNext]_<<open, asked, result>>
=============================================================================

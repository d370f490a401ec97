----------------------------- MODULE PuzzleGate -----------------------------
(***************************************************************************)
(* What the client puzzle protocol promises about one session, whatever    *)
(* the messages, buffers and buckets that carry it out: a client is        *)
(* challenged before it is admitted, is refused only after its last retry, *)
(* and gets the resource only once it is admitted.                         *)
(***************************************************************************)
EXTENDS Naturals

CONSTANTS Clients,     (* the sessions                                       *)
          MAX_RETRY    (* wrong answers that are answered by another puzzle  *)

VARIABLES stage,       (* where the server has each session                  *)
          tries,       (* wrong answers so far                               *)
          granted      (* the clients that hold the resource                 *)

gateVars == <<stage, tries, granted>>

Stages == {"asking", "challenged", "admitted", "closed"}

GateInit ==
    /\ stage = [c \in Clients |-> "asking"]
    /\ tries = [c \in Clients |-> 0]
    /\ granted = {}

Challenge(c) ==
    /\ stage[c] = "asking"
    /\ stage' = [stage EXCEPT ![c] = "challenged"]
    /\ UNCHANGED <<tries, granted>>

ChallengeAgain(c) ==
    /\ stage[c] = "challenged"
    /\ tries[c] < MAX_RETRY
    /\ tries' = [tries EXCEPT ![c] = @ + 1]
    /\ UNCHANGED <<stage, granted>>

Refuse(c) ==
    /\ stage[c] = "challenged"
    /\ tries[c] = MAX_RETRY
    /\ stage' = [stage EXCEPT ![c] = "closed"]
    /\ UNCHANGED <<tries, granted>>

Admit(c) ==
    /\ stage[c] = "challenged"
    /\ stage' = [stage EXCEPT ![c] = "admitted"]
    /\ UNCHANGED <<tries, granted>>

Grant(c) ==
    /\ stage[c] = "admitted"
    /\ granted' = granted \cup {c}
    /\ UNCHANGED <<stage, tries>>

Leave(c) ==
    /\ stage[c] = "admitted"
    /\ c \in granted
    /\ stage' = [stage EXCEPT ![c] = "closed"]
    /\ UNCHANGED <<tries, granted>>

GateNext ==
    \E c \in Clients : \/ Challenge(c) \/ ChallengeAgain(c) \/ Refuse(c)
                       \/ Admit(c)     \/ Grant(c)          \/ Leave(c)

GateSpec == GateInit /\ [][GateNext]_gateVars
=============================================================================

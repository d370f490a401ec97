---------------------------- MODULE MachineBucket ----------------------------
(***************************************************************************)
(* One machine of the verification bucket of MyProposal (crypt.h), as the  *)
(* machine of grail it is: a word goes in by += of the machine that        *)
(* fltofm() makes of it, is looked up by member_of_language(), and goes    *)
(* out by rebuilding the machine from the language that fmtofl() lists.    *)
(* VerificationBucket takes such a machine for the set of its words; this  *)
(* module shows that, called one at a time, it may.                        *)
(***************************************************************************)
EXTENDS Machines

CONSTANTS Issued,        (* the words the distribution machine may yield      *)
          Others,        (* texts that are none of them                       *)
          MaxInBucket    (* bound on the states of the machine                *)

(* Letters are numbers; fmrandenum() yields at most 128 of them.             *)
ASSUME IssuedAssumption ==
    /\ <<>> \in Others \ Issued
    /\ Issued \cup Others \subseteq Seq(Int)
    /\ \E longest \in Issued : \A w \in Issued : Len(w) <= Len(longest)

VARIABLES bucket,        (* verificationBucket[index]                         *)
          text,          (* the word in hand                                  *)
          verdict        (* what verifySolution() returned last               *)

mbVars == <<bucket, text, verdict>>

MbInit ==
    /\ bucket = Clear
    /\ text = <<>>
    /\ verdict = FALSE

TakeText ==    (* the word of fetchRandomPuzzle(), or a client's answer *)
    /\ text' \in Issued \cup Others
    /\ UNCHANGED <<bucket, verdict>>

AddWord ==    (* addWordToVerificationBucket() *)
    /\ text \in Issued
    /\ bucket' = unite(bucket, fltofm({text}))
    /\ number_of_states(bucket') <= MaxInBucket
    /\ UNCHANGED <<text, verdict>>

removeWordFromMachine(m, w) == fltofm(fmtofl(m) \ {w})

Verify ==     (* verifySolution() *)
    /\ verdict' = member_of_language(bucket, text)
    /\ bucket' = removeWordFromMachine(bucket, text)
    /\ UNCHANGED text

MbNext == TakeText \/ AddWord \/ Verify

MbSpec == MbInit /\ [][MbNext]_mbVars
-----------------------------------------------------------------------------
(* The words the machine accepts, one letter longer than those issued.       *)
Language ==
    LET longest == Max({Len(w) : w \in Issued})
    IN  {w \in UNION {[1 .. i -> labels(bucket)] : i \in 0 .. longest + 1} :
            member_of_language(bucket, w)}

(* The machine is a bucket of one-time words: what it accepts is what was    *)
(* issued and not redeemed - no path through the words joined by += and      *)
(* fltofm() spells another text - and a redeemed word is gone, however often *)
(* it was added.                                                             *)
RedeemedText == IF text \in Issued THEN text ELSE <<>>
OneTime == INSTANCE OneTimeBucket
             WITH Threads <- {0}, Words <- Issued, Wrong <- <<>>, open <- Language,
                  asked <- [t \in {0} |-> RedeemedText], result <- [t \in {0} |-> verdict]
MachineIsBucket == OneTime!OpenSpec
=============================================================================

---------------------------- MODULE MCServerRace ----------------------------
(***************************************************************************)
(* The two things threads of a server race for: main's new_socket, and the *)
(* machines of the verification bucket.  They share nothing, and one of    *)
(* the two is looked at; the other does not move.                          *)
(***************************************************************************)
EXTENDS MCPuzzleServer, MCVerificationBucket

VARIABLE contended

RaceInit ==
    /\ contended \in {"new_socket", "bucket"}
    /\ ServerInit
    /\ BucketInit

RaceNext ==
    /\ UNCHANGED contended
    /\ \/ contended = "new_socket" /\ ServerNext /\ UNCHANGED bucketVars
       \/ contended = "bucket" /\ BucketNext /\ UNCHANGED serverVars

RaceSpec == RaceInit /\ [][RaceNext]_<<contended, serverVars, bucketVars>>
=============================================================================

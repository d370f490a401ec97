------------------------ MODULE MCVerificationBucket ------------------------
(* Two words in one machine and one in another.                              *)
EXTENDS VerificationBucket, TLC

CONSTANTS w1, w2, w3

MCHome == [w \in BucketWords |-> IF w = w3 THEN 1 ELSE 0]
=============================================================================

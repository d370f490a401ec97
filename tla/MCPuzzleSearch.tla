---------------------------- MODULE MCPuzzleSearch ----------------------------
(***************************************************************************)
(* Two digits, texts of three, and a few functions in the place of SHA-256.*)
(***************************************************************************)
EXTENDS PuzzleSearch

(* The texts of three digits as numbers, and hash functions on them that are *)
(* constant, that collide in pairs, and that are permutations.               *)
MCHexValues == <<"a", "0">>
Bit(digit) == IF digit = "0" THEN 0 ELSE 1
Number(t) == 4 * Bit(t[1]) + 2 * Bit(t[2]) + Bit(t[3])
MCHashes ==
    { [t \in Texts |-> CHOOSE u \in Texts : Number(u) = (a * Number(t) + b) % 8] :
          a \in 0 .. 3, b \in {0, 1, 3} }
=============================================================================

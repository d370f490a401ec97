------------------------------ MODULE MCSession ------------------------------
(* Instances of Session: an easy puzzle, one that takes exactly the rounds a *)
(* client is allowed, and one that takes more.                               *)
EXTENDS Session, TLC

CONSTANTS easy, edge, hard

MCRoundsOf == [p \in Puzzles |-> CASE p = easy -> MIN_ITERATIONS
                                   [] p = edge -> MAX_ITERATIONS
                                   [] p = hard -> MIN_ITERATIONS + MAX_ITERATIONS - 1]

Symmetric == Permutations(Clients) \cup Permutations(Threads)
=============================================================================

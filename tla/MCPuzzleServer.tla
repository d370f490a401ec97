--------------------------- MODULE MCPuzzleServer ---------------------------
(* Instances of PuzzleServer, with the puzzles of MCSession.                 *)
EXTENDS PuzzleServer, TLC

CONSTANTS easy, edge, hard

MCRoundsOf == [p \in Puzzles |-> CASE p = easy -> MIN_ITERATIONS
                                   [] p = edge -> MAX_ITERATIONS
                                   [] p = hard -> MIN_ITERATIONS + MAX_ITERATIONS - 1]

AnyClient == Permutations(Clients)
=============================================================================

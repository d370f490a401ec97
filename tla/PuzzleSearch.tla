----------------------------- MODULE PuzzleSearch -----------------------------
(***************************************************************************)
(* One puzzle from the server that makes it to the server that verifies    *)
(* its answer, in both designs: the digits are masked, the client searches *)
(* them depth first, hashing every guess up to the limit it was sent       *)
(* (clientCrypto.h), and the server hashes the answer again or looks it up *)
(* (crypt.h).                                                              *)
(*                                                                         *)
(* Texts have PuzzleLength digits and the hash maps texts to texts, with   *)
(* or without collisions: it is one of Hashes.  A text of another length   *)
(* is assumed to have no digest that a puzzle has.                         *)
(***************************************************************************)
EXTENDS Integers, Sequences, SequencesExt

CONSTANTS hexValues,        (* the digits in the order they are tried        *)
          Zero,             (* the digit '0'                                 *)
          PuzzleLength,     (* 64 in the code                                *)
          Hashes,           (* the functions that hash256 may be             *)
          Strengths,        (* values of PUZZLE_STRENGTH                     *)
          MIN_ITERATIONS,
          MAX_ITERATIONS

Hex == ToSet(hexValues)
Texts == [1 .. PuzzleLength -> Hex]
Fillings(n) == [1 .. n -> Hex]
Filled(n) == [i \in 1 .. n |-> Zero]

ASSUME SearchAssumption ==
    /\ hexValues \in Seq(Hex)
    /\ Zero \in Hex
    /\ PuzzleLength \in Nat \ {0}
    /\ \A h \in Hashes : h \in [Texts -> Texts]
    /\ \A s \in Strengths : s \in 0 .. 4 * PuzzleLength
    /\ MIN_ITERATIONS \in Nat \ {0}
    /\ MAX_ITERATIONS \in Nat \ {0}

VARIABLES
    design,       (* InitialProposal or MyProposal                           *)
    hash256,      (* the hash function                                       *)
    strength,     (* PUZZLE_STRENGTH                                         *)
    stage,        (* of the exchange                                         *)
    entry,        (* the puzzle's text and digest, known to the server only  *)
    bucket,       (* MyProposal: the verification bucket                     *)
    puzzle,       (* the masked puzzle, its digest and its mask, as sent     *)
    trail,        (* bruteForceSearch: at each depth, the digit in word      *)
    solved,       (* calculateSolution: was a word found, and solvedPuzzle   *)
    iterations,   (* of ClientCrypto, InitialProposal                        *)
    verdict       (* what verifySolution returns                             *)

searchVars == <<design, hash256, strength, stage, entry, bucket, puzzle, trail,
                solved, iterations, verdict>>

NoPuzzleYet == [text |-> <<>>, digest |-> <<>>, missing |-> 0]

SearchInit ==
    /\ design \in {"InitialProposal", "MyProposal"}
    /\ hash256 \in Hashes
    /\ strength \in Strengths
    /\ stage = "new"
    /\ entry = <<>>
    /\ bucket = {}
    /\ puzzle = NoPuzzleYet
    /\ trail = <<>>
    /\ solved = [found |-> FALSE, text |-> <<>>]
    /\ iterations = 0
    /\ verdict = FALSE

-----------------------------------------------------------------------------
(* t hashed n times: Digests(t)[n].                                          *)
Digests(t) == LET d[n \in Nat] == IF n = 0 THEN t ELSE hash256[d[n - 1]] IN d

(* Hashed once, and then again while k < n.                                  *)
AtLeastOnce(n) == IF n > 1 THEN n ELSE 1
OnceMore(t, n) == Digests(t)[n + 1]                  (* mutation: while k <= n *)
iterativelyHash(t, n) == Digests(t)[AtLeastOnce(n)]

(* Random bytes, printed as a text.                                          *)
generateServerSideSecret == Texts

(* A text nobody knows, and the digest of it: InitialProposal draws it when  *)
(* a client asks, MyProposal when it starts.                                 *)
RoundsDrawn == MIN_ITERATIONS .. (MIN_ITERATIONS + MAX_ITERATIONS - 1)
generateEntry ==
    /\ stage = "new"
    /\ \E pre \in generateServerSideSecret, rounds \in RoundsDrawn :
           entry' = <<pre, iterativelyHash(pre, rounds)>>
    /\ stage' = "made"
    /\ UNCHANGED <<design, hash256, strength, bucket, puzzle, trail, solved, iterations, verdict>>

(* The first digits are replaced by as many zeros.                           *)
missing == strength \div 4
generateClientPuzzle(t) == Filled(missing) \o SubSeq(t, missing + 1, PuzzleLength)

(* Sent with the number of digits that are missing; MyProposal remembers the *)
(* word.                                                                     *)
init_clientPuzzle ==
    [text |-> generateClientPuzzle(entry[1]), digest |-> entry[2], missing |-> missing]

getPuzzlePayload ==
    /\ stage = "made"
    /\ puzzle' = init_clientPuzzle
    /\ bucket' = IF design = "MyProposal" THEN {entry} ELSE {}
    /\ stage' = "searching"
    /\ trail' = IF missing = 0 THEN <<>> ELSE <<1>>
    /\ UNCHANGED <<design, hash256, strength, entry, solved, iterations, verdict>>

-----------------------------------------------------------------------------
(* The digits of the word on the way to the current depth, zeros behind it.  *)
Shown == SubSeq(puzzle.text, puzzle.missing + 1, PuzzleLength)
Word == [i \in 1 .. puzzle.missing |->
            IF i <= Len(trail) THEN hexValues[trail[i]] ELSE Zero]
Guess == Word \o Shown

(* hashCheck: the numbers of rounds, one or more but within the limit, after *)
(* which the guess gives the digest.                                         *)
hashCheck(t) ==
    { n \in 1 .. AtLeastOnce(MAX_ITERATIONS) : Digests(t)[n] = puzzle.digest }

SkipsZero(s) ==                              (* mutation: one digit is not tried *)
    IF Len(s) < puzzle.missing THEN Append(s, 1)
    ELSE IF s[Len(s)] + 1 < Len(hexValues) THEN Append(Front(s), s[Len(s)] + 1) ELSE <<>>

GivesUpInside(s) ==                       (* mutation: "0" ends the search above *)
    IF Len(s) < puzzle.missing THEN Append(s, 1)
    ELSE IF s[Len(s)] < Len(hexValues) THEN Append(Front(s), s[Len(s)] + 1) ELSE <<>>

(* After a miss: the first digit of the next depth, or the next digit of the *)
(* deepest depth that has one.                                               *)
NextGuess(s) ==
    IF Len(s) < puzzle.missing THEN Append(s, 1)
    ELSE LET open == { i \in DOMAIN s : s[i] < Len(hexValues) }
         IN  IF open = {} THEN <<>>
             ELSE LET i == CHOOSE j \in open : \A m \in open : m <= j
                  IN  Append(SubSeq(s, 1, i - 1), s[i] + 1)

TryGuess ==
    /\ stage = "searching"
    /\ trail # <<>>
    /\ LET hits == hashCheck(Guess)
       IN  IF hits # {}
           THEN /\ iterations' = CHOOSE n \in hits : \A m \in hits : n <= m
                /\ solved' = [found |-> TRUE, text |-> Guess]
                /\ stage' = "answered"
                /\ UNCHANGED trail
           ELSE /\ trail' = NextGuess(trail)
                /\ UNCHANGED <<iterations, solved, stage>>
    /\ UNCHANGED <<design, hash256, strength, entry, bucket, puzzle, verdict>>

(* bruteForceSearch returns "0", which is put before the rest of the puzzle  *)
(* and sent all the same.                                                    *)
GiveUpSearch ==
    /\ stage = "searching"
    /\ trail = <<>>
    /\ solved' = [found |-> FALSE, text |-> <<Zero>> \o Shown]
    /\ stage' = "answered"
    /\ UNCHANGED <<design, hash256, strength, entry, bucket, puzzle, trail, iterations, verdict>>

-----------------------------------------------------------------------------
(* The answer goes back with the digest and the number of rounds.            *)
getPuzzleSolutionPayload ==
    [text |-> solved.text, digest |-> puzzle.digest, iterations |-> iterations]

(* verifySolution: InitialProposal hashes the answer as often as the client  *)
(* says, MyProposal looks the answer with its digest up and removes it.      *)
Recomputed(answer) ==
    /\ Len(answer.text) = PuzzleLength
    /\ iterativelyHash(answer.text, answer.iterations) = answer.digest
LookedUp(answer) == <<answer.text, answer.digest>> \in bucket

verifySolution ==
    /\ stage = "answered"
    /\ LET answer == getPuzzleSolutionPayload
       IN  /\ verdict' = IF design = "InitialProposal" THEN Recomputed(answer) ELSE LookedUp(answer)
           /\ bucket' = bucket \ {<<answer.text, answer.digest>>}
    /\ stage' = "verified"
    /\ UNCHANGED <<design, hash256, strength, entry, puzzle, trail, solved, iterations>>

SearchNext ==
    \/ generateEntry \/ getPuzzlePayload
    \/ TryGuess \/ GiveUpSearch
    \/ verifySolution

SearchSpec == SearchInit /\ [][SearchNext]_searchVars

-----------------------------------------------------------------------------
(* The texts that fit the puzzle and have its digest within the limit.       *)
Answers ==
    { w \o Shown : w \in { v \in Fillings(puzzle.missing) : hashCheck(v \o Shown) # {} } }

(* The depth-first search, which checks a word at every depth and returns    *)
(* "0" from every subtree without an answer, finds an answer whenever some   *)
(* digits are missing and an answer exists, and finds nothing else.          *)
SearchIsComplete ==
    stage \in {"answered", "verified"} =>
        /\ solved.found <=> (puzzle.missing > 0 /\ Answers # {})
        /\ solved.found => solved.text \in Answers

(* InitialProposal accepts every answer that was found: the number of rounds *)
(* the client kept is the one that verifySolution needs, even if it is not   *)
(* the number the puzzle was made with.  MyProposal accepts it if no other   *)
(* text that fits has the digest.                                            *)
FoundIsAccepted ==
    stage = "verified" /\ solved.found =>
        \/ verdict
        \/ design = "MyProposal" /\ Answers # {entry[1]}

(* What is sent after a search in vain, "0" before the rest of the puzzle    *)
(* and a number of rounds that was never set, may be as long as a puzzle.    *)
(* InitialProposal refuses it, and MyProposal accepts no text but the one it *)
(* masked.                                                                   *)
GuessworkIsRefused ==
    stage = "verified" /\ verdict =>
        IF design = "InitialProposal" THEN solved.found ELSE solved.text = entry[1]

(* crypt.h:343, "Max hash iterations": a client that searches with the limit *)
(* it was sent solves the puzzle.                                            *)
LimitCoversRounds ==
    stage \in {"answered", "verified"} /\ puzzle.missing > 0 => solved.found
=============================================================================

------------------------- MODULE VerificationBucket -------------------------
(***************************************************************************)
(* The buckets of ClientPuzzle (MyProposal/crypt.h), shared by all session *)
(* threads: fetchRandomPuzzle() adds the word it hands out to the machine  *)
(* of its index, verifySolution() looks a word up and rebuilds the machine *)
(* without it.  A machine is the set of words it accepts.  No lock is held *)
(* anywhere, so every access of a shared machine is a step of its own.     *)
(* Two threads inside the same += or rebuild are undefined behaviour in    *)
(* C++; the model gives them the outcome of one read and one write each.   *)
(***************************************************************************)
EXTENDS Integers

CONSTANTS Callers,        (* the session threads                             *)
          BucketWords,    (* the words of the distribution machines          *)
          Size,           (* machines in each of the two vectors             *)
          Home,           (* the distribution machine each word is in        *)
          COEFFICIENT,
          OFFSET_VALUE,
          Overlap,        (* TRUE: threads run at any time; FALSE: a thread  *)
                          (* enters a call only when no other is in one      *)
          NoWord          (* a text that is no word of the machine looked in *)

Indices == 0 .. (Size - 1)

ASSUME BucketAssumption ==
    /\ Size \in Nat \ {0}
    /\ Home \in [BucketWords -> Indices]
    /\ COEFFICIENT \in Nat \ {0}
    /\ OFFSET_VALUE \in Nat
    /\ Overlap \in BOOLEAN
    /\ NoWord \notin BucketWords

VARIABLES
    buckets,     (* verificationBucket                                       *)
    doing,       (* the step each thread is at                               *)
    word,        (* the word it was handed, then the text it verifies        *)
    ticket,      (* the index sent along with the puzzle, transposed         *)
    seen,        (* what it read of the machine it is going to write         *)
    valid,       (* what member_of_language() returned                       *)
    handed,      (* history: words ever handed out                           *)
    owed         (* history: words in the bucket's care and not yet redeemed *)

bucketVars == <<buckets, doing, word, ticket, seen, valid, handed, owed>>

Removing == {"reading", "clearing", "rebuilding"}
Calls    == {"adding", "checking"} \cup Removing
Steps    == {"idle", "holding"} \cup Calls

(* The index travels to the client and back as COEFFICIENT * x + OFFSET.     *)
TransposeNoScale(x) == x + OFFSET_VALUE    (* mutation: not multiplied *)
transposeIndex(x) == COEFFICIENT * x + OFFSET_VALUE
unTransposeIndex(y) == (y - OFFSET_VALUE) \div COEFFICIENT

At(t) == unTransposeIndex(ticket[t])

Goto(t, step) == doing' = [doing EXCEPT ![t] = step]
MayEnter(t) == ~Overlap => \A s \in Callers \ {t} : doing[s] \notin Calls

BucketInit ==
    /\ buckets = [i \in Indices |-> {}]
    /\ doing = [t \in Callers |-> "idle"]
    /\ word = [t \in Callers |-> NoWord]
    /\ ticket = [t \in Callers |-> transposeIndex(0)]
    /\ seen = [t \in Callers |-> {}]
    /\ valid = [t \in Callers |-> FALSE]
    /\ handed = {}
    /\ owed = {}

(* fetchRandomPuzzle(): a word of a random distribution machine, which keeps *)
(* it; then addWordToVerificationBucket() starts on machine += word.         *)
Fetch(t) ==
    /\ doing[t] = "idle"
    /\ MayEnter(t)
    /\ \E w \in BucketWords :
          /\ word' = [word EXCEPT ![t] = w]
          /\ ticket' = [ticket EXCEPT ![t] = transposeIndex(Home[w])]
          /\ seen' = [seen EXCEPT ![t] = buckets[Home[w]]]
          /\ handed' = handed \cup {w}
    /\ Goto(t, "adding")
    /\ UNCHANGED <<buckets, valid, owed>>

AddWord(t) ==
    /\ doing[t] = "adding"
    /\ buckets' = [buckets EXCEPT ![Home[word[t]]] = seen[t] \cup {word[t]}]
    /\ owed' = owed \cup {word[t]}
    /\ Goto(t, "holding")
    /\ UNCHANGED <<word, ticket, seen, valid, handed>>

(* The answer comes back with the index it was sent: the word itself,        *)
(* another of the machine it is from, or a text that is no word of that.     *)
AnswerArrives(t) ==
    /\ doing[t] = "holding"
    /\ MayEnter(t)
    /\ \E w \in { v \in BucketWords : Home[v] = Home[word[t]] } \cup {NoWord} :
          word' = [word EXCEPT ![t] = w]
    /\ Goto(t, "checking")
    /\ UNCHANGED <<buckets, ticket, seen, valid, handed, owed>>

AcceptsAll(t) == TRUE    (* mutation: the verdict is not tested *)
member_of_language(t) == word[t] \in buckets[At(t)]

Member(t) ==
    /\ doing[t] = "checking"
    /\ valid' = [valid EXCEPT ![t] = member_of_language(t)]
    /\ owed' = IF valid'[t] THEN owed \ {word[t]} ELSE owed
    /\ Goto(t, "reading")
    /\ UNCHANGED <<buckets, word, ticket, seen, handed>>

Unremoved(t) == buckets[At(t)]    (* mutation: language -= word is missing *)
Remaining(t) == buckets[At(t)] \ {word[t]}

(* removeWordFromMachine(), whatever the verdict: fmtofl() and the removal   *)
(* from the language, then clear(), then fltofm().                           *)
ReadLanguage(t) ==
    /\ doing[t] = "reading"
    /\ seen' = [seen EXCEPT ![t] = Remaining(t)]
    /\ Goto(t, "clearing")
    /\ UNCHANGED <<buckets, word, ticket, valid, handed, owed>>

ClearMachine(t) ==
    /\ doing[t] = "clearing"
    /\ buckets' = [buckets EXCEPT ![At(t)] = {}]
    /\ Goto(t, "rebuilding")
    /\ UNCHANGED <<word, ticket, seen, valid, handed, owed>>

Rebuild(t) ==
    /\ doing[t] = "rebuilding"
    /\ buckets' = [buckets EXCEPT ![At(t)] = seen[t]]
    /\ Goto(t, "idle")
    /\ UNCHANGED <<word, ticket, seen, valid, handed, owed>>

BucketStep(t) ==
    \/ Fetch(t)        \/ AddWord(t)      \/ AnswerArrives(t) \/ Member(t)
    \/ ReadLanguage(t) \/ ClearMachine(t) \/ Rebuild(t)

BucketNext == \E t \in Callers : BucketStep(t)

BucketSpec == BucketInit /\ [][BucketNext]_bucketVars

-----------------------------------------------------------------------------
(* Every variable keeps its type; above all, an index that came back from    *)
(* the client is one that was sent out, and a machine holds words only.      *)
BucketTypeOK ==
    /\ buckets \in [Indices -> SUBSET BucketWords]
    /\ doing \in [Callers -> Steps]
    /\ word \in [Callers -> BucketWords \cup {NoWord}]
    /\ ticket \in [Callers -> {transposeIndex(i) : i \in Indices}]
    /\ seen \in [Callers -> SUBSET BucketWords]
    /\ valid \in [Callers -> BOOLEAN]
    /\ handed \subseteq BucketWords
    /\ owed \subseteq BucketWords
    /\ \A t \in Callers : doing[t] = "adding" => word[t] \in BucketWords

(* However the calls of the threads of server.cpp overlap, a machine that    *)
(* one of them rebuilds while others add to it holds only words that were    *)
(* handed out with its index, and only such a word is judged valid there.    *)
NoForgedWord ==
    /\ \A i \in Indices : \A w \in buckets[i] : w \in handed /\ Home[w] = i
    /\ \A t \in Callers :
          doing[t] \in Removing /\ valid[t] => word[t] \in handed /\ Home[word[t]] = At(t)

(* crypt.h:271, "place inside verification bucket": once no thread is inside *)
(* a call, the bucket holds exactly the words handed out and not redeemed,   *)
(* each in the machine of its index.                                         *)
BucketExact ==
    (\A t \in Callers : doing[t] \notin Calls) =>
        \A i \in Indices : buckets[i] = { w \in owed : Home[w] = i }

(* The words a call in progress leaves redeemable: a removal counts from the *)
(* verdict on, and a cleared machine still stands for what was read of it.   *)
Settled(i) ==
    LET at(steps) == { t \in Callers : doing[t] \in steps /\ At(t) = i }
        base == IF at({"rebuilding"}) = {}
                  THEN buckets[i] ELSE UNION { seen[t] : t \in at({"rebuilding"}) }
    IN base \ { word[t] : t \in at({"reading", "clearing"}) }

Abstract == INSTANCE OneTimeBucket
              WITH Threads <- Callers, Words <- BucketWords, Wrong <- NoWord,
                   open <- UNION { Settled(i) : i \in Indices },
                   asked <- word, result <- valid

(* Calls that do not overlap behave as a bucket of one-time words.           *)
ImplementsOneTime == Abstract!OpenSpec
=============================================================================

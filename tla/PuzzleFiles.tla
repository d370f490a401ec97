----------------------------- MODULE PuzzleFiles -----------------------------
(***************************************************************************)
(* How a server of MyProposal gets its puzzles (crypt.h): runner() makes   *)
(* them in portions and writes each portion to a file, loadDFAFromFile()   *)
(* reads the files back, one distribution machine each, and only then does *)
(* main listen.  The files outlive the process, which may be killed at any *)
(* moment, and whose next build may have other numbers in config.h.        *)
(*                                                                         *)
(* Left out: the puzzles' text.  They are numbered from 1 in the order     *)
(* they are made, so a portion is an interval of numbers.                  *)
(***************************************************************************)
EXTENDS Integers, Sequences, FiniteSets

CONSTANTS Totals,      (* values of TOTAL_NUMBER_OF_PUZZLES                  *)
          Portions,    (* values of PUZZLES_PER_FILE                         *)
          MAX_STARTS   (* model bound: times the server is started           *)

ASSUME ConfigAssumption ==
    /\ Totals \subseteq Nat
    /\ Portions \subseteq Nat \ {0}
    /\ MAX_STARTS \in Nat

VARIABLES
    total,          (* TOTAL_NUMBER_OF_PUZZLES of this build                 *)
    perFile,        (* PUZZLES_PER_FILE of this build                        *)
    pc,             (* what the process is doing, or how it came to an end   *)
    start,          (* which start of the server this is                     *)
    remainder,      (* of runner()                                           *)
    iteration,      (* of runner(); then i of loadDFAFromFile()              *)
    distribution,   (* distributionBucket                                    *)
    directory,      (* is there a directory puzzles/ ?                       *)
    disk            (* the files puzzle_fm_<number> in it                    *)

config == <<total, perFile>>
filesVars == <<config, pc, start, remainder, iteration, distribution, directory, disk>>

(* "writing" in runner(), "loading" in loadDFAFromFile(), "spinning" in a    *)
(* loop that cannot end; "faulted" by a division by zero, "killed" by others *)
Running == {"writing", "loading", "listening", "spinning"}
Ended   == {"faulted", "killed"}

(* A file holds the puzzles first .. last of the start it was written by.    *)
File(n, s, a, b, w) == [number |-> n, writer |-> s, first |-> a, last |-> b, whole |-> w]

Numbered(n) == { f \in disk : f.number = n }

(* open() for writing empties a file that is there; without the directory it *)
(* fails, and nobody looks.                                                  *)
Written(f) == IF directory THEN (disk \ Numbered(f.number)) \cup {f} ELSE disk

FilesInit ==
    /\ total \in Totals
    /\ perFile \in Portions
    /\ pc = "killed"
    /\ start = 0
    /\ remainder = 0
    /\ iteration = 0
    /\ distribution = <<>>
    /\ directory \in BOOLEAN
    /\ disk = {}

-----------------------------------------------------------------------------
(* Built again, perhaps with other numbers, and started; somebody may have   *)
(* made the directory.                                                       *)
Start ==
    /\ pc \in Ended
    /\ start < MAX_STARTS
    /\ start' = start + 1
    /\ total' \in Totals
    /\ perFile' \in Portions
    /\ directory' \in {directory, TRUE}
    /\ pc' = "writing"
    /\ remainder' = total'
    /\ iteration' = 0
    /\ distribution' = <<>>
    /\ UNCHANGED disk

(* The last portion takes whatever is less than two portions.                *)
PortionShort ==                      (* mutation: the rest is a file of its own *)
    IF remainder >= perFile THEN perFile ELSE remainder
Portion == IF remainder - perFile >= perFile THEN perFile ELSE remainder

NextFile(whole) ==
    File(iteration, start, total - remainder + 1, total - remainder + Portion, whole)

DividesByZero == perFile \div 4 = 0

(* generateAutomataFiles()                                                   *)
WritePortion ==
    /\ pc = "writing"
    /\ remainder > 0
    /\ ~DividesByZero
    /\ disk' = Written(NextFile(TRUE))
    /\ remainder' = remainder - Portion
    /\ iteration' = iteration + 1
    /\ UNCHANGED <<config, pc, start, distribution, directory>>

(* Line 107: iteration % (PUZZLES_PER_FILE / 4)                              *)
ProgressFaults ==
    /\ pc = "writing"
    /\ remainder > 0
    /\ DividesByZero
    /\ pc' = "faulted"
    /\ UNCHANGED <<config, start, remainder, iteration, distribution, directory, disk>>

FinishWriting ==
    /\ pc = "writing"
    /\ remainder <= 0
    /\ pc' = "loading"
    /\ iteration' = 0
    /\ UNCHANGED <<config, start, remainder, distribution, directory, disk>>

fileCountUp == (total + perFile - 1) \div perFile    (* mutation: rounded up *)
fileCount == total \div perFile

LoadFile ==
    /\ pc = "loading"
    /\ iteration < fileCount
    /\ \E f \in Numbered(iteration) : distribution' = Append(distribution, f)
    /\ iteration' = iteration + 1
    /\ UNCHANGED <<config, pc, start, remainder, directory, disk>>

(* while (!file.eof()) on a stream that did not open                         *)
LoadForever ==
    /\ pc = "loading"
    /\ iteration < fileCount
    /\ Numbered(iteration) = {}
    /\ pc' = "spinning"
    /\ UNCHANGED <<config, start, remainder, iteration, distribution, directory, disk>>

Listen ==
    /\ pc = "loading"
    /\ iteration >= fileCount
    /\ pc' = "listening"
    /\ UNCHANGED <<config, start, remainder, iteration, distribution, directory, disk>>

(* The first puzzle that is asked for: rand() % distributionBucket.size()    *)
FetchFaults ==
    /\ pc = "listening"
    /\ distribution = <<>>
    /\ pc' = "faulted"
    /\ UNCHANGED <<config, start, remainder, iteration, distribution, directory, disk>>

(* The process ends; a file it was writing may be left cut short.            *)
Kill ==
    /\ pc \in Running
    /\ pc' = "killed"
    /\ \/ UNCHANGED disk
       \/ /\ pc = "writing" /\ remainder > 0 /\ ~DividesByZero
          /\ disk' = Written(NextFile(FALSE))
    /\ UNCHANGED <<config, start, remainder, iteration, distribution, directory>>

Starting == WritePortion \/ ProgressFaults \/ FinishWriting \/ LoadFile \/ LoadForever \/ Listen

FilesNext == Start \/ Starting \/ FetchFaults \/ Kill

FilesSpec == FilesInit /\ [][FilesNext]_filesVars

-----------------------------------------------------------------------------
FilesTypeOK ==
    /\ total \in Totals /\ perFile \in Portions
    /\ pc \in Running \cup Ended
    /\ start \in 0 .. MAX_STARTS
    /\ remainder \in 0 .. total
    /\ iteration \in Nat
    /\ directory \in BOOLEAN
    /\ \A f \in disk : f = File(f.number, f.writer, f.first, f.last, f.whole)
    /\ \A f, g \in disk : f.number = g.number => f = g
    /\ distribution \in Seq(disk)

(* A machine in memory is what this start of the server wrote, and whole,    *)
(* whatever files earlier starts and earlier builds left behind.             *)
NothingStale ==
    \A i \in DOMAIN distribution :
        distribution[i].writer = start /\ distribution[i].whole

(* Once the server listens, unless the puzzles do not fill one file, it can  *)
(* hand out every puzzle it made, and has each in one machine only.          *)
EveryPuzzleLoaded ==
    pc = "listening" /\ total >= perFile =>
        /\ \A n \in 1 .. total : \E i \in DOMAIN distribution :
              distribution[i].first <= n /\ n <= distribution[i].last
        /\ \A i, j \in DOMAIN distribution :
              i < j => distribution[i].last < distribution[j].first

(* A machine holds at least one portion, so that every index can be served,  *)
(* and less than two.                                                        *)
PortionSizes ==
    \A i \in DOMAIN distribution :
        LET size == distribution[i].last - distribution[i].first + 1
        IN perFile <= size /\ size < 2 * perFile

(* The loader waits for ever only if nobody ever made the directory.         *)
SpinsForDirectoryOnly == pc = "spinning" => ~directory

(* With a directory and a portion that can be divided by four, a start ends  *)
(* in a server that listens, unless it is killed.                            *)
StartSucceeds ==
    (pc = "writing" /\ directory /\ ~DividesByZero) ~> (pc \in {"listening", "killed"})
=============================================================================

----------------------------- MODULE PuzzleStore -----------------------------
(***************************************************************************)
(* Version 2 keeps its puzzles in one file, puzzleCreator.cpp: a run       *)
(* appends NUM_PUZZLES records of two fields, the pre-image and the digest *)
(* of a puzzle, and then reads two records back from places it draws.      *)
(*                                                                         *)
(* The file is the sequence of its fields.  A write is not checked: of a   *)
(* record none, one or both fields may reach the file (a full disk, a file *)
(* that cannot be opened).  A run may be killed at any point, and end by   *)
(* itself when no secret can be drawn; a later run finds the file as it is.*)
(***************************************************************************)
EXTENDS Integers, Sequences, FiniteSets

CONSTANTS NUM_PUZZLES,   (* records written by a run                          *)
          MaxRuns,       (* bound on the runs of the program                  *)
          MaxTorn        (* bound on the records that are not written whole   *)

ASSUME StoreAssumption ==
    /\ NUM_PUZZLES \in Nat \ {0}
    /\ MaxRuns \in Nat \ {0}
    /\ MaxTorn \in Nat

VARIABLES
    file,      (* the fields in the file, each [puzzle, part]                 *)
    run,       (* the runs started                                            *)
    k,         (* the loop counter of generatePuzzleFiles; 0: no run          *)
    reads,     (* records the run has still to read                           *)
    got,       (* the two fields of the puzzle returned last                  *)
    torn       (* records that are not whole in the file                      *)

storeVars == <<file, run, k, reads, got, torn>>

Parts == {"preImageMessage", "messageDigest"}
Field(p, part) == [puzzle |-> p, part |-> part]
Unread == Field(<<>>, "uninitialised")   (* a char array nobody has written   *)
NoPuzzle == [pre |-> Unread, md |-> Unread]

StoreInit ==
    /\ file = <<>>
    /\ run = 0
    /\ k = 0
    /\ reads = 0
    /\ got = NoPuzzle
    /\ torn = 0

(* main starts, on whatever file is there.                                   *)
StartRun ==
    /\ k = 0
    /\ run < MaxRuns
    /\ run' = run + 1
    /\ k' = 1
    /\ reads' = 2
    /\ got' = NoPuzzle
    /\ UNCHANGED <<file, torn>>

(* A puzzle is known by its run and its number in it.                        *)
Record == <<Field(<<run, k>>, "preImageMessage"), Field(<<run, k>>, "messageDigest")>>

(* writePuzzleToFile appends what it can of the record.                      *)
WritePuzzle(fields) ==
    /\ k \in 1 .. NUM_PUZZLES
    /\ fields < 2 => torn < MaxTorn
    /\ file' = file \o SubSeq(Record, 1, fields)
    /\ torn' = IF fields < 2 THEN torn + 1 ELSE torn
    /\ k' = k + 1
    /\ UNCHANGED <<run, reads, got>>

(* A read into a char array: the field if the file has it, and nothing once  *)
(* the file has ended.                                                       *)
FieldAt(i) == IF i <= Len(file) THEN file[i] ELSE Unread

FieldsForRecords(recordIndex) ==    (* mutation: the index counts fields *)
    /\ k > NUM_PUZZLES
    /\ reads > 0
    /\ got' = IF file = <<>> THEN NoPuzzle
                 ELSE [pre |-> FieldAt(recordIndex + 1), md |-> FieldAt(recordIndex + 2)]
    /\ reads' = reads - 1
    /\ UNCHANGED <<file, run, k, torn>>
(* getRandomPuzzleFromFile: rand() % (NUM_PUZZLES + 1) is the record.        *)
GetRandomPuzzle(recordIndex) ==
    /\ k > NUM_PUZZLES
    /\ reads > 0
    /\ got' = IF file = <<>> THEN NoPuzzle
                 ELSE [pre |-> FieldAt(2 * recordIndex + 1), md |-> FieldAt(2 * recordIndex + 2)]
    /\ reads' = reads - 1
    /\ UNCHANGED <<file, run, k, torn>>

RecordIndexes == 0 .. NUM_PUZZLES

(* The program returns, is killed, or throws because RAND_bytes failed.      *)
EndRun ==
    /\ k > 0
    /\ k' = 0
    /\ UNCHANGED <<file, run, reads, got, torn>>

StoreNext ==
    \/ StartRun
    \/ \E fields \in 0 .. 2 : WritePuzzle(fields)
    \/ \E recordIndex \in RecordIndexes : GetRandomPuzzle(recordIndex)
    \/ EndRun

StoreSpec == StoreInit /\ [][StoreNext]_storeVars

(***************************************************************************)
(* Properties.                                                             *)
(***************************************************************************)
Puzzles == (1 .. MaxRuns) \X (1 .. NUM_PUZZLES)

StoreTypeOK ==
    /\ file \in Seq([puzzle : Puzzles, part : Parts])
    /\ run \in 0 .. MaxRuns
    /\ k \in 0 .. NUM_PUZZLES + 1
    /\ reads \in 0 .. 2
    /\ torn \in 0 .. MaxTorn

(* As long as every record was written whole, kills and reruns included, a   *)
(* puzzle read back has both fields of one puzzle, or none at all: the       *)
(* digest never belongs to another pre-image.                                *)
FieldsOfOnePuzzle ==
    torn = 0 =>
        \/ got = NoPuzzle
        \/ /\ got.pre.puzzle = got.md.puzzle
           /\ got.pre.part = "preImageMessage"
           /\ got.md.part = "messageDigest"
=============================================================================

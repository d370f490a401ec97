---------------------------- MODULE PuzzleProofs ----------------------------
(***************************************************************************)
(* Where puzzles come from and what becomes of their answers: PuzzleFiles, *)
(* how a server of MyProposal gets its puzzles, PuzzleStore, the file of   *)
(* version 2, PuzzleSearch, how puzzles are made and solved, and           *)
(* VerificationBucket, which hands puzzles out and redeems their answers.  *)
(* They share nothing but the library's facts about sequences.             *)
(***************************************************************************)
EXTENDS PuzzleFiles, PuzzleStore, PuzzleSearch, VerificationBucket, SequenceTheorems,
        NaturalsInduction, WellFoundedInduction, TLAPS

(***************************************************************************)
(* What holds of PuzzleFiles for every number of puzzles, every portion,   *)
(* every history of starts, builds and kills: the machines in memory are   *)
(* the files of this start, and together they hold every puzzle once.      *)
(***************************************************************************)
(* Everything but the contents of the machines.                              *)
FilesShape ==
    /\ total \in Nat /\ perFile \in Nat \ {0}
    /\ total \in Totals /\ perFile \in Portions
    /\ pc \in Running \cup Ended
    /\ start \in 0 .. MAX_STARTS
    /\ remainder \in 0 .. total
    /\ iteration \in Nat
    /\ directory \in BOOLEAN
    /\ \A f \in disk : f = File(f.number, f.writer, f.first, f.last, f.whole)
    /\ \A f, g \in disk : f.number = g.number => f = g
    /\ ~directory => disk = {}
    /\ distribution \in Seq(disk)
    /\ pc = "writing" => distribution = <<>>

(* The n-th file of this start, if there is a portion for it.                *)
LastOf(n) == IF n = fileCount - 1 THEN total ELSE perFile * (n + 1)
Expected(n) == File(n, start, perFile * n + 1, LastOf(n), TRUE)

Ready(n) ==
    /\ \A f \in Numbered(n) : f = Expected(n)
    /\ directory => Numbered(n) # {}

(* While it writes, iteration portions are made and their files are ready;   *)
(* the rest is always more than one portion short of none.                   *)
FilesWritten ==
    pc = "writing" =>
        /\ remainder # 0 => total = perFile * iteration + remainder
        /\ remainder # 0 /\ total >= perFile => remainder >= perFile
        /\ remainder = 0 => total < perFile * iteration + perFile
        /\ \A n \in 0 .. iteration - 1 : n < fileCount => Ready(n)

FilesReady ==
    pc \in {"loading", "listening", "spinning"} => \A n \in 0 .. fileCount - 1 : Ready(n)

Loaded ==
    /\ Len(distribution) <= fileCount
    /\ pc = "loading" => Len(distribution) = iteration
    /\ pc = "listening" => Len(distribution) = fileCount
    /\ pc = "spinning" => ~directory
    /\ \A i \in 1 .. Len(distribution) : distribution[i] = Expected(i - 1)

FilesInv == FilesShape /\ FilesWritten /\ FilesReady /\ Loaded

-----------------------------------------------------------------------------
(* Division.                                                                 *)

(* The whole portions in a number.                                           *)
LEMMA PortionsIn ==
    ASSUME NEW m \in Nat, NEW p \in Nat \ {0}
    PROVE  /\ m \div p \in Nat
           /\ p * (m \div p) <= m
           /\ m < p * (m \div p) + p
OBVIOUS

(* Fewer portions are a smaller number.                                      *)
LEMMA Multiples ==
    ASSUME NEW p \in Nat \ {0}, NEW a \in Int, NEW b \in Int, a <= b
    PROVE  p * a <= p * b
OBVIOUS

(* A number of portions that fits is no more than the whole ones.            *)
LEMMA WholePortions ==
    ASSUME NEW m \in Nat, NEW p \in Nat \ {0}, NEW c \in Nat
    PROVE  /\ p * c <= m => c <= m \div p
           /\ m < p * c + p => m \div p <= c
<1>1. DEFINE q == m \div p
<1>2. q \in Nat /\ p * q <= m /\ m < p * q + p
  BY PortionsIn
<1>3. ASSUME p * c <= m, q < c PROVE FALSE
  <2>1. p * (q + 1) <= p * c
    BY <1>2, <1>3, Multiples
  <2> QED
    BY <1>2, <1>3, <2>1
<1>4. ASSUME m < p * c + p, c < q PROVE FALSE
  <2>1. p * (c + 1) <= p * q
    BY <1>2, <1>4, Multiples
  <2> QED
    BY <1>2, <1>4, <2>1
<1> QED
  BY <1>2, <1>3, <1>4

LEMMA CountProperties ==
    ASSUME FilesShape
    PROVE  /\ fileCount \in Nat
           /\ perFile * fileCount <= total
           /\ total < perFile * fileCount + perFile
BY PortionsIn DEF FilesShape, fileCount

-----------------------------------------------------------------------------
(* The invariant holds at first and is kept by every step.                   *)

LEMMA InitFilesInv == FilesInit => FilesInv
<1> SUFFICES ASSUME FilesInit PROVE FilesInv
  OBVIOUS
<1>1. FilesShape
  <2>1. <<>> \in Seq(disk)
    BY EmptySeq
  <2> QED
    BY <2>1, ConfigAssumption DEF FilesInit, FilesShape, Ended
<1>2. Loaded
  <2>1. Len(distribution) = 0
    BY DEF FilesInit
  <2> QED
    BY <1>1, <2>1, CountProperties DEF FilesInit, Loaded
<1> QED
  BY <1>1, <1>2 DEF FilesInit, FilesInv, FilesWritten, FilesReady

(* The next portion, from the number of puzzles left.                        *)
LEMMA PortionProperties ==
    ASSUME FilesShape, remainder > 0
    PROVE  /\ Portion \in 1 .. remainder
           /\ remainder - Portion \in 0 .. total
           /\ Portion = perFile \/ Portion = remainder
           /\ Portion # remainder => Portion = perFile /\ remainder - perFile >= perFile
           /\ Portion = remainder => remainder < perFile + perFile
BY DEF FilesShape, Portion

LEMMA NextFileShape ==
    ASSUME NEW w PROVE NextFile(w) = File(NextFile(w).number, NextFile(w).writer,
                                          NextFile(w).first, NextFile(w).last, NextFile(w).whole)
                       /\ NextFile(w).number = iteration
BY DEF NextFile, File

(* Writing a file keeps the others and the numbers unique.                   *)
LEMMA WrittenProperties ==
    ASSUME FilesShape, NEW f, f = File(f.number, f.writer, f.first, f.last, f.whole),
           disk' = Written(f)
    PROVE  /\ \A g \in disk' : g = File(g.number, g.writer, g.first, g.last, g.whole)
           /\ \A g, h \in disk' : g.number = h.number => g = h
           /\ directory => f \in disk'
           /\ \A g \in disk' : g.number = f.number => g = f
           /\ ~directory => disk' = {}
           /\ \A g : g.number # f.number => (g \in disk' <=> g \in disk)
BY DEF FilesShape, Written, Numbered

(* What is ready stays so while the build, the start and the files do.       *)
LEMMA ReadyKept ==
    ASSUME NEW CONSTANT n, UNCHANGED <<config, start, directory, disk>>
    PROVE  /\ fileCount' = fileCount
           /\ Expected(n)' = Expected(n)
           /\ Ready(n) => Ready(n)'
BY DEF config, fileCount, Expected, LastOf, File, Ready, Numbered

(* A start clears memory and leaves the disk as it is.                       *)
LEMMA StartKeeps == FilesInv /\ Start => FilesInv'
<1> SUFFICES ASSUME FilesInv, Start PROVE FilesInv'
  OBVIOUS
<1>1. total' \in Nat /\ perFile' \in Nat \ {0}
  BY ConfigAssumption DEF Start
<1>2. <<>> \in Seq(disk') /\ Len(<<>>) = 0
  BY EmptySeq
<1>3. fileCount' \in Nat
  BY <1>1, PortionsIn DEF fileCount
<1>4. FilesShape'
  <2>1. start' \in 0 .. MAX_STARTS
    <3>1. start \in 0 .. MAX_STARTS
      BY DEF FilesInv, FilesShape
    <3>2. start < MAX_STARTS /\ start' = start + 1
      BY DEF Start
    <3>3. MAX_STARTS \in Nat
      BY ConfigAssumption
    <3> QED
      BY <3>1, <3>2, <3>3
  <2>2. distribution' \in Seq(disk') /\ pc' \in Running
    BY <1>2 DEF Start, Running
  <2>3. remainder' \in 0 .. total' /\ iteration' \in Nat
    BY <1>1 DEF Start
  <2>4. ~directory' => disk' = {}
    <3>1. CASE directory
      <4>1. directory' \in {TRUE}
        BY <3>1 DEF FilesInv, FilesShape, Start
      <4> QED
        BY <4>1
    <3>2. CASE ~directory
      BY <3>2 DEF FilesInv, FilesShape, Start
    <3> QED
      BY <3>1, <3>2
  <2>5. /\ total' \in Totals /\ perFile' \in Portions /\ directory' \in BOOLEAN
        /\ disk' = disk /\ distribution' = <<>>
    BY DEF FilesInv, FilesShape, Start
  <2> QED
    BY <1>1, <2>1, <2>2, <2>3, <2>4, <2>5 DEF FilesInv, FilesShape
<1>5. FilesWritten'
  <2>1. iteration' = 0 /\ remainder' = total'
    BY DEF Start
  <2>2. \A p \in Nat : p * 0 = 0
    OBVIOUS
  <2>3. perFile' * iteration' = 0
    BY <1>1, <2>1, <2>2
  <2>4. \A n \in 0 .. iteration' - 1 : FALSE
    BY <2>1
  <2>5. /\ total' = perFile' * iteration' + remainder'
        /\ total' >= perFile' => remainder' >= perFile'
        /\ remainder' = 0 => total' < perFile' * iteration' + perFile'
    <3>1. PICK z \in {0} : z = perFile' * iteration'
      BY <2>3
    <3>2. /\ total' = z + remainder'
          /\ total' >= perFile' => remainder' >= perFile'
          /\ remainder' = 0 => total' < z + perFile'
      <4>1. remainder' = total' /\ total' \in Int /\ perFile' \in Int /\ perFile' > 0
        BY <1>1, <2>1
      <4>2. total' = z + remainder'
        BY <3>1, <4>1
      <4>3. remainder' = 0 => total' < z + perFile'
        BY <3>1, <4>1
      <4> QED
        BY <4>1, <4>2, <4>3
    <3> QED
      BY <3>1, <3>2
  <2> QED
    BY <2>4, <2>5 DEF FilesWritten
<1>6. FilesReady'
  BY DEF Start, FilesReady
<1>7. Loaded'
  BY <1>2, <1>3 DEF Start, Loaded
<1> QED
  BY <1>4, <1>5, <1>6, <1>7 DEF FilesInv

(* The next file is the one expected under its number.                       *)
LEMMA NextFileExpected ==
    ASSUME FilesInv, pc = "writing", remainder > 0, iteration < fileCount
    PROVE  NextFile(TRUE) = Expected(iteration)
<1> USE DEF FilesInv
<1>1. /\ total \in Nat /\ perFile \in Nat \ {0} /\ iteration \in Nat
      /\ remainder \in Nat /\ fileCount \in Nat
  BY CountProperties DEF FilesShape
<1>2. DEFINE made == perFile * iteration
<1>3. made \in Nat /\ total = made + remainder
  BY <1>1 DEF FilesWritten
<1>4. perFile * (iteration + 1) = made + perFile
  BY <1>1
<1>5. perFile * (iteration + 2) = made + perFile + perFile
  BY <1>1
<1>6. CASE Portion = remainder
  <2>1. total < perFile * (iteration + 1) + perFile
    BY <1>1, <1>3, <1>4, <1>6, PortionProperties
  <2>2. fileCount <= iteration + 1
    BY <1>1, <2>1, WholePortions DEF fileCount
  <2>3. LastOf(iteration) = total
    BY <1>1, <2>2 DEF LastOf
  <2> QED
    BY <1>1, <1>3, <1>6, <2>3 DEF NextFile, Expected
<1>7. CASE Portion # remainder
  <2>1. Portion = perFile /\ perFile * (iteration + 2) <= total
    BY <1>1, <1>3, <1>5, <1>7, PortionProperties
  <2>2. iteration + 2 <= fileCount
    BY <1>1, <2>1, WholePortions DEF fileCount
  <2>3. LastOf(iteration) = made + perFile
    BY <1>1, <1>4, <2>2 DEF LastOf
  <2> QED
    BY <1>1, <1>3, <2>1, <2>3 DEF NextFile, Expected
<1> QED
  BY <1>6, <1>7

(* Writing a portion makes one more file ready.                              *)
LEMMA WriteKeeps == FilesInv /\ WritePortion => FilesInv'
<1> SUFFICES ASSUME FilesInv, WritePortion PROVE FilesInv'
  OBVIOUS
<1> USE DEF FilesInv
<1>1. /\ total \in Nat /\ perFile \in Nat \ {0} /\ iteration \in Nat
      /\ remainder \in Nat /\ remainder > 0 /\ fileCount \in Nat
      /\ distribution = <<>> /\ pc = "writing"
  BY CountProperties DEF FilesShape, WritePortion
<1>2. /\ UNCHANGED <<config, pc, start, distribution, directory>>
      /\ disk' = Written(NextFile(TRUE))
      /\ remainder' = remainder - Portion /\ iteration' = iteration + 1
  BY DEF WritePortion
<1>3. FilesShape'
  <2>1. /\ \A g \in disk' : g = File(g.number, g.writer, g.first, g.last, g.whole)
        /\ \A g, h \in disk' : g.number = h.number => g = h
        /\ ~directory => disk' = {}
    BY <1>2, NextFileShape, WrittenProperties
  <2>2. distribution' \in Seq(disk')
    BY <1>1, <1>2, EmptySeq
  <2>3. remainder' \in 0 .. total' /\ iteration' \in Nat
    BY <1>1, <1>2, PortionProperties DEF config
  <2> QED
    BY <1>1, <1>2, <2>1, <2>2, <2>3 DEF FilesShape, config
<1>4. FilesWritten'
  <2>1. DEFINE made == perFile * iteration
  <2>2. made \in Nat /\ total = made + remainder /\ perFile' * iteration' = made + perFile
    BY <1>1, <1>2 DEF FilesWritten, config
  <2>3. /\ remainder' # 0 => total' = perFile' * iteration' + remainder'
        /\ remainder' # 0 => remainder' >= perFile'
        /\ remainder' = 0 => total' < perFile' * iteration' + perFile'
    BY <1>1, <1>2, <2>2, PortionProperties DEF config
  <2>4. ASSUME NEW n \in 0 .. iteration, n < fileCount PROVE Ready(n)'
    <3>1. Expected(n)' = Expected(n)
      BY <1>2 DEF config, fileCount, Expected, LastOf, File
    <3>2. CASE n = iteration
      <4>1. NextFile(TRUE) = Expected(n)
        BY <1>1, <2>4, <3>2, NextFileExpected
      <4>2. /\ directory => NextFile(TRUE) \in disk'
            /\ \A g \in disk' : g.number = iteration => g = NextFile(TRUE)
            /\ NextFile(TRUE).number = iteration
        BY <1>2, NextFileShape, WrittenProperties
      <4>3. /\ \A g \in disk' : g.number = n => g = Expected(n)'
            /\ directory' => Expected(n)' \in disk' /\ Expected(n)'.number = n
        BY <1>2, <3>1, <3>2, <4>1, <4>2
      <4> QED
        BY <4>3 DEF Ready, Numbered
    <3>3. CASE n # iteration
      <4>0. NextFile(TRUE).number = iteration
        BY NextFileShape
      <4>1. n \in 0 .. iteration - 1 /\ NextFile(TRUE).number # n
        <5>1. iteration \in Nat
          BY <1>1
        <5>2. n \in 0 .. iteration - 1
          BY <3>3, <5>1
        <5> QED
          BY <3>3, <4>0, <5>2
      <4>2. Ready(n)
        BY <1>1, <2>4, <4>1 DEF FilesWritten
      <4>3. Numbered(n)' = Numbered(n)
        BY <1>2, <4>1, NextFileShape, WrittenProperties DEF Numbered
      <4> QED
        BY <1>2, <3>1, <4>2, <4>3 DEF Ready
    <3> QED
      BY <3>2, <3>3
  <2>5. \A n \in 0 .. iteration' - 1 : n < fileCount' => Ready(n)'
    BY <1>1, <1>2, <2>4 DEF config, fileCount
  <2> QED
    BY <2>3, <2>5 DEF FilesWritten
<1>5. FilesReady'
  BY <1>1, <1>2 DEF FilesReady
<1>6. Loaded'
  <2>1. Len(distribution') = 0 /\ fileCount' \in Nat
    BY <1>1, <1>2, EmptySeq DEF config, fileCount
  <2> QED
    BY <1>1, <1>2, <2>1 DEF Loaded
<1> QED
  BY <1>3, <1>4, <1>5, <1>6

(* When nothing is left to make, there is a ready file for every machine.    *)
LEMMA FinishKeeps == FilesInv /\ FinishWriting => FilesInv'
<1> SUFFICES ASSUME FilesInv, FinishWriting PROVE FilesInv'
  OBVIOUS
<1>1. /\ UNCHANGED <<config, start, remainder, distribution, directory, disk>>
      /\ pc = "writing" /\ pc' = "loading" /\ iteration' = 0
      /\ distribution = <<>>
  BY DEF FilesInv, FilesShape, FinishWriting
<1>2. FilesShape'
  BY <1>1 DEF FilesInv, FilesShape, config, Running
<1>3. fileCount <= iteration /\ fileCount \in Nat /\ iteration \in Nat
  <2>1. /\ remainder = 0 /\ total \in Nat /\ perFile \in Nat \ {0} /\ iteration \in Nat
    BY DEF FilesInv, FilesShape, FinishWriting
  <2>2. total < perFile * iteration + perFile
    BY <1>1, <2>1 DEF FilesInv, FilesWritten
  <2> QED
    BY <2>1, <2>2, WholePortions, CountProperties DEF FilesInv, fileCount
<1>4. FilesReady'
  <2> SUFFICES ASSUME NEW n \in 0 .. fileCount - 1 PROVE Ready(n)'
    BY <1>1, ReadyKept DEF FilesReady
  <2>1. n \in 0 .. iteration - 1 /\ n < fileCount
    BY <1>3
  <2>2. Ready(n)
    BY <1>1, <2>1 DEF FilesInv, FilesWritten
  <2> QED
    BY <1>1, <2>2, ReadyKept
<1>5. Loaded'
  <2>1. Len(distribution') = 0
    BY <1>1, EmptySeq
  <2>2. fileCount' = fileCount
    BY <1>1 DEF config, fileCount
  <2> QED
    BY <1>1, <1>3, <2>1, <2>2 DEF Loaded
<1> QED
  BY <1>1, <1>2, <1>4, <1>5 DEF FilesInv, FilesWritten

(* A machine is loaded from the file that is expected under its number.      *)
LEMMA LoadKeeps == FilesInv /\ LoadFile => FilesInv'
<1> SUFFICES ASSUME FilesInv, LoadFile PROVE FilesInv'
  OBVIOUS
<1>1. /\ UNCHANGED <<config, start, remainder, directory, disk>>
      /\ pc = "loading" /\ pc' = "loading" /\ iteration' = iteration + 1
      /\ iteration < fileCount
  BY DEF LoadFile
<1>2. PICK f \in Numbered(iteration) : distribution' = Append(distribution, f)
  BY DEF LoadFile
<1>3. /\ iteration \in Nat /\ fileCount \in Nat /\ distribution \in Seq(disk)
      /\ Len(distribution) = iteration /\ f \in disk
  BY <1>1, <1>2, CountProperties DEF FilesInv, FilesShape, Loaded, Numbered
<1>4. f = Expected(iteration)
  <2>1. iteration \in 0 .. fileCount - 1
    BY <1>1, <1>3
  <2> QED
    BY <1>1, <1>2, <2>1 DEF FilesInv, FilesReady, Ready
<1>5. /\ distribution' \in Seq(disk)
      /\ Len(distribution') = iteration + 1
      /\ distribution'[iteration + 1] = f
      /\ \A i \in 1 .. iteration : distribution'[i] = distribution[i]
  BY <1>2, <1>3, AppendProperties
<1>6. FilesShape'
  BY <1>1, <1>3, <1>5 DEF FilesInv, FilesShape, config, Running
<1>7. FilesReady'
  <2> SUFFICES ASSUME NEW n \in 0 .. fileCount - 1 PROVE Ready(n)'
    BY <1>1, ReadyKept DEF FilesReady
  <2>1. Ready(n)
    BY <1>1 DEF FilesInv, FilesReady
  <2> QED
    BY <1>1, <2>1, ReadyKept
<1>8. Loaded'
  <2>1. ASSUME NEW i \in 1 .. iteration + 1 PROVE distribution'[i] = Expected(i - 1)'
    <3>1. i \in Int /\ Expected(i - 1)' = Expected(i - 1)
      BY <1>1, <1>3 DEF config, fileCount, Expected, LastOf, File
    <3>2. CASE i = iteration + 1
      <4>1. i - 1 = iteration
        BY <1>3, <3>2
      <4> QED
        BY <1>4, <1>5, <3>1, <3>2, <4>1
    <3>3. CASE i # iteration + 1
      <4>1. i \in 1 .. iteration
        BY <1>3, <3>3
      <4> QED
        BY <1>3, <1>5, <3>1, <4>1 DEF FilesInv, Loaded
    <3> QED
      BY <3>2, <3>3
  <2>2. fileCount' = fileCount
    BY <1>1 DEF config, fileCount
  <2>3. Len(distribution') <= fileCount'
    BY <1>1, <1>3, <1>5, <2>2
  <2> QED
    BY <1>1, <1>5, <2>1, <2>3 DEF Loaded
<1> QED
  BY <1>1, <1>6, <1>7, <1>8 DEF FilesInv, FilesWritten

(* The steps that change neither memory nor any file.                        *)
LEMMA TurnKeeps ==
    ASSUME FilesInv,
           UNCHANGED <<config, start, remainder, iteration, distribution, directory, disk>>,
           pc' \in {"faulted", "killed"} \/ pc' = pc
               \/ (pc = "loading" /\ pc' = "listening" /\ iteration >= fileCount)
               \/ (pc = "loading" /\ pc' = "spinning" /\ ~directory)
    PROVE  FilesInv'
<1>1. FilesShape'
  BY DEF FilesInv, FilesShape, config, Running, Ended
<1>2. FilesWritten'
  <2> SUFFICES ASSUME pc' = "writing" PROVE FilesWritten'
    BY DEF FilesWritten
  <2>1. pc = "writing" /\ fileCount' = fileCount
    BY DEF config, fileCount
  <2>2. \A n \in 0 .. iteration - 1 : n < fileCount => Ready(n)'
    BY <2>1, ReadyKept DEF FilesInv, FilesWritten
  <2> QED
    BY <2>1, <2>2 DEF FilesInv, FilesWritten, config
<1>3. FilesReady'
  <2> SUFFICES ASSUME pc' \in {"loading", "listening", "spinning"},
                      NEW n \in 0 .. fileCount - 1
               PROVE  Ready(n)'
    BY ReadyKept DEF FilesReady
  <2>1. Ready(n)
    BY DEF FilesInv, FilesReady
  <2> QED
    BY <2>1, ReadyKept
<1>4. Loaded'
  <2>1. fileCount' = fileCount /\ \A n : Expected(n)' = Expected(n)
    BY DEF config, fileCount, Expected, LastOf, File
  <2>2. /\ fileCount \in Nat /\ Len(distribution) \in Nat /\ iteration \in Nat
    BY CountProperties, LenProperties DEF FilesInv, FilesShape
  <2> QED
    BY <2>1, <2>2 DEF FilesInv, Loaded
<1> QED
  BY <1>1, <1>2, <1>3, <1>4 DEF FilesInv

(* A file cut short is one of a start that is over.                          *)
LEMMA KillKeeps == FilesInv /\ Kill => FilesInv'
<1> SUFFICES ASSUME FilesInv, Kill PROVE FilesInv'
  OBVIOUS
<1>1. CASE UNCHANGED disk
  BY <1>1, TurnKeeps DEF Kill
<1>2. CASE disk # disk'
  <2>1. /\ UNCHANGED <<config, start, remainder, iteration, distribution, directory>>
        /\ disk' = Written(NextFile(FALSE)) /\ pc = "writing" /\ pc' = "killed"
    BY <1>2 DEF Kill
  <2>2. /\ \A g \in disk' : g = File(g.number, g.writer, g.first, g.last, g.whole)
        /\ \A g, h \in disk' : g.number = h.number => g = h
        /\ ~directory => disk' = {}
    BY <2>1, NextFileShape, WrittenProperties DEF FilesInv
  <2>3. distribution = <<>> /\ distribution' \in Seq(disk')
    BY <2>1, EmptySeq DEF FilesInv, FilesShape
  <2>4. FilesShape'
    BY <2>1, <2>2, <2>3 DEF FilesInv, FilesShape, config, Ended
  <2>5. Loaded'
    <3>1. Len(distribution') = 0 /\ fileCount' = fileCount /\ fileCount \in Nat
      BY <2>1, <2>3, EmptySeq, CountProperties DEF FilesInv, config, fileCount
    <3> QED
      BY <2>1, <3>1 DEF Loaded
  <2> QED
    BY <2>1, <2>4, <2>5 DEF FilesInv, FilesWritten, FilesReady
<1> QED
  BY <1>1, <1>2

LEMMA NextFilesInv == FilesInv /\ [FilesNext]_filesVars => FilesInv'
<1> SUFFICES ASSUME FilesInv, [FilesNext]_filesVars PROVE FilesInv'
  OBVIOUS
<1>1. CASE Start
  BY <1>1, StartKeeps
<1>2. CASE WritePortion
  BY <1>2, WriteKeeps
<1>3. CASE ProgressFaults
  BY <1>3, TurnKeeps DEF ProgressFaults
<1>4. CASE FinishWriting
  BY <1>4, FinishKeeps
<1>5. CASE LoadFile
  BY <1>5, LoadKeeps
<1>6. CASE LoadForever
  <2>1. iteration \in 0 .. fileCount - 1
    BY <1>6, CountProperties DEF FilesInv, FilesShape, LoadForever
  <2>2. ~directory
    BY <1>6, <2>1 DEF FilesInv, FilesReady, Ready, LoadForever
  <2> QED
    BY <1>6, <2>2, TurnKeeps DEF LoadForever
<1>7. CASE Listen
  BY <1>7, TurnKeeps DEF Listen
<1>8. CASE FetchFaults
  BY <1>8, TurnKeeps DEF FetchFaults
<1>9. CASE Kill
  BY <1>9, KillKeeps
<1>10. CASE UNCHANGED filesVars
  BY <1>10, TurnKeeps DEF filesVars
<1> QED
  BY <1>1, <1>2, <1>3, <1>4, <1>5, <1>6, <1>7, <1>8, <1>9, <1>10 DEF FilesNext, Starting

LEMMA FilesInvariant == FilesSpec => []FilesInv
<1>1. FilesInit => FilesInv
  BY InitFilesInv
<1>2. FilesInv /\ [FilesNext]_filesVars => FilesInv'
  BY NextFilesInv
<1> QED
  BY <1>1, <1>2, PTL DEF FilesSpec

-----------------------------------------------------------------------------
(* What it says of the machines in memory.                                   *)

(* Every variable keeps its type; no two files have one number.              *)
THEOREM FilesTypeCorrect == FilesSpec => []FilesTypeOK
<1>1. FilesInv => FilesTypeOK
  BY DEF FilesInv, FilesShape, FilesTypeOK
<1> QED
  BY <1>1, FilesInvariant, PTL

(* Whatever starts, builds and kills came before, the server loads only what *)
(* the same start wrote, and whole.                                          *)
THEOREM OnlyFreshFiles == FilesSpec => []NothingStale
<1>1. FilesInv => NothingStale
  <2> SUFFICES ASSUME FilesInv, NEW i \in DOMAIN distribution
               PROVE  distribution[i].writer = start /\ distribution[i].whole
    BY DEF NothingStale
  <2>1. distribution[i] = Expected(i - 1)
    BY LenProperties DEF FilesInv, FilesShape, Loaded
  <2> QED
    BY <2>1 DEF Expected, File
<1> QED
  BY <1>1, FilesInvariant, PTL

(* The loader waits for a file for ever only without the directory.          *)
THEOREM LoaderNeedsDirectoryOnly == FilesSpec => []SpinsForDirectoryOnly
<1>1. FilesInv => SpinsForDirectoryOnly
  BY DEF FilesInv, Loaded, SpinsForDirectoryOnly
<1> QED
  BY <1>1, FilesInvariant, PTL

(* The first and the last puzzle of the i-th machine.                        *)
LEMMA MachineBounds ==
    ASSUME FilesInv, NEW i \in DOMAIN distribution
    PROVE  /\ i \in 1 .. fileCount
           /\ distribution[i].first = perFile * (i - 1) + 1
           /\ i # fileCount => distribution[i].last = perFile * (i - 1) + perFile
           /\ i = fileCount => distribution[i].last = total
<1>1. /\ i \in 1 .. Len(distribution) /\ Len(distribution) \in Nat /\ fileCount \in Nat
      /\ perFile \in Nat /\ Len(distribution) <= fileCount
  BY LenProperties, CountProperties DEF FilesInv, FilesShape, Loaded
<1>2. distribution[i] = Expected(i - 1)
  BY <1>1 DEF FilesInv, Loaded
<1>3. i - 1 = fileCount - 1 <=> i = fileCount
  BY <1>1
<1>4. perFile * ((i - 1) + 1) = perFile * (i - 1) + perFile
  BY <1>1
<1> QED
  BY <1>1, <1>2, <1>3, <1>4 DEF Expected, File, LastOf

(* Every machine holds a whole portion and less than two.                    *)
THEOREM PortionsAreWhole == FilesSpec => []PortionSizes
<1>1. FilesInv => PortionSizes
  <2> SUFFICES ASSUME FilesInv, NEW i \in DOMAIN distribution
               PROVE  LET size == distribution[i].last - distribution[i].first + 1
                      IN perFile <= size /\ size < 2 * perFile
    BY DEF PortionSizes
  <2>1. /\ total \in Nat /\ perFile \in Nat \ {0} /\ fileCount \in Nat /\ i \in 1 .. fileCount
        /\ distribution[i].first = perFile * (i - 1) + 1
        /\ i # fileCount => distribution[i].last = perFile * (i - 1) + perFile
        /\ i = fileCount => distribution[i].last = total
    BY MachineBounds, CountProperties DEF FilesInv, FilesShape
  <2>2. PICK m \in Int : m = perFile * (i - 1)
    BY <2>1
  <2>3. perFile * i = m + perFile
    BY <2>1, <2>2
  <2>4. i = fileCount => m + perFile <= total /\ total < m + perFile + perFile
    BY <2>1, <2>3, CountProperties DEF FilesInv
  <2>5. CASE i = fileCount
    BY <2>1, <2>2, <2>4, <2>5
  <2>6. CASE i # fileCount
    BY <2>1, <2>2, <2>6
  <2> QED
    BY <2>5, <2>6
<1> QED
  BY <1>1, FilesInvariant, PTL

(* A server that listens, and has a portion's worth of puzzles, has them all *)
(* in memory, and no puzzle twice.                                           *)
THEOREM AllPuzzlesOnce == FilesSpec => []EveryPuzzleLoaded
<1>1. FilesInv => EveryPuzzleLoaded
  <2> SUFFICES ASSUME FilesInv, pc = "listening", total >= perFile
               PROVE  /\ \A n \in 1 .. total : \E i \in DOMAIN distribution :
                            distribution[i].first <= n /\ n <= distribution[i].last
                      /\ \A i, j \in DOMAIN distribution :
                            i < j => distribution[i].last < distribution[j].first
    BY DEF EveryPuzzleLoaded
  <2>1. /\ total \in Nat /\ perFile \in Nat \ {0} /\ fileCount \in Nat
        /\ perFile * fileCount <= total /\ DOMAIN distribution = 1 .. fileCount
    BY CountProperties, LenProperties DEF FilesInv, FilesShape, Loaded
  <2>2. fileCount >= 1
    BY <2>1, WholePortions DEF fileCount
  <2>3. ASSUME NEW n \in 1 .. total
        PROVE  \E i \in DOMAIN distribution :
                  distribution[i].first <= n /\ n <= distribution[i].last
    <3>1. PICK q \in Nat : perFile * q <= n - 1 /\ n - 1 < perFile * q + perFile
      <4>1. n - 1 \in Nat
        BY <2>1
      <4> QED
        BY <2>1, <4>1, PortionsIn
    <3>2. CASE q + 1 < fileCount
      <4>1. q + 1 \in DOMAIN distribution /\ (q + 1) - 1 = q
        BY <2>1, <3>2
      <4>2. /\ distribution[q + 1].first = perFile * q + 1
            /\ distribution[q + 1].last = perFile * q + perFile
        BY <2>1, <3>2, <4>1, MachineBounds
      <4>3. PICK m \in Int : m = perFile * q
        BY <2>1
      <4>4. distribution[q + 1].first <= n /\ n <= distribution[q + 1].last
        BY <2>1, <3>1, <4>2, <4>3
      <4> QED
        BY <4>1, <4>4
    <3>3. CASE fileCount <= q + 1
      <4>1. fileCount \in DOMAIN distribution /\ fileCount - 1 \in Int
        BY <2>1, <2>2
      <4>2. /\ distribution[fileCount].first = perFile * (fileCount - 1) + 1
            /\ distribution[fileCount].last = total
        BY <2>1, <4>1, MachineBounds
      <4>3. fileCount - 1 <= q
        BY <2>1, <3>3
      <4>4. perFile * (fileCount - 1) <= perFile * q
        BY <2>1, <4>1, <4>3, Multiples
      <4>5. PICK m \in Int, c \in Int : m = perFile * q /\ c = perFile * (fileCount - 1)
        BY <2>1, <4>1
      <4>6. distribution[fileCount].first <= n /\ n <= distribution[fileCount].last
        BY <2>1, <3>1, <4>2, <4>4, <4>5
      <4> QED
        BY <4>1, <4>6
    <3> QED
      BY <2>1, <3>2, <3>3
  <2>4. ASSUME NEW i \in DOMAIN distribution, NEW j \in DOMAIN distribution, i < j
        PROVE  distribution[i].last < distribution[j].first
    <3>1. i \in Int /\ j \in Int /\ i <= j - 1 /\ i # fileCount
      BY <2>1, <2>4
    <3>2. /\ distribution[i].last = perFile * (i - 1) + perFile
          /\ distribution[j].first = perFile * (j - 1) + 1
      BY <3>1, MachineBounds
    <3>3. perFile * i <= perFile * (j - 1)
      BY <2>1, <3>1, Multiples
    <3>4. perFile * (i - 1) + perFile = perFile * i
      BY <2>1, <3>1
    <3>5. PICK m \in Int, c \in Int : m = perFile * i /\ c = perFile * (j - 1)
      BY <2>1, <3>1
    <3> QED
      BY <3>2, <3>3, <3>4, <3>5
  <2> QED
    BY <2>3, <2>4
<1> QED
  BY <1>1, FilesInvariant, PTL

-----------------------------------------------------------------------------
(***************************************************************************)
(* PuzzleStore for any number of records, runs and torn writes: as long as *)
(* no write was torn the fields of the file come in pairs, the pre-image   *)
(* of a puzzle at each odd place and its digest at the next even one, so   *)
(* that the places 2r+1 and 2r+2 of a record are filled together.          *)
(***************************************************************************)
Fields == [puzzle : Puzzles, part : Parts]

InPairs ==
    /\ \E n \in Nat : Len(file) = 2 * n
    /\ \A r \in Nat :
          2 * r + 1 <= Len(file) =>
              /\ file[2 * r + 1].puzzle = file[2 * r + 2].puzzle
              /\ file[2 * r + 1].part = "preImageMessage"
              /\ file[2 * r + 2].part = "messageDigest"

StoreInv ==
    /\ StoreTypeOK
    /\ k > 0 => run > 0
    /\ torn = 0 => InPairs
    /\ FieldsOfOnePuzzle

LEMMA StoreInvInit == StoreInit => StoreInv
<1> SUFFICES ASSUME StoreInit PROVE StoreInv
  OBVIOUS
<1>1. StoreTypeOK /\ (k > 0 => run > 0)
  BY StoreAssumption DEF StoreInit, StoreTypeOK
<1>2. InPairs
  BY DEF StoreInit, InPairs
<1>3. FieldsOfOnePuzzle
  BY DEF StoreInit, FieldsOfOnePuzzle
<1> QED
  BY <1>1, <1>2, <1>3 DEF StoreInv

(* The record of the puzzle being written has the two fields of one puzzle.  *)
LEMMA RecordIsPair ==
    ASSUME StoreInv, k \in 1 .. NUM_PUZZLES
    PROVE  /\ Record \in Seq(Fields) /\ Len(Record) = 2
           /\ Record[1].puzzle = Record[2].puzzle
           /\ Record[1].part = "preImageMessage"
           /\ Record[2].part = "messageDigest"
<1>1. run \in 1 .. MaxRuns
  BY StoreAssumption DEF StoreInv, StoreTypeOK
<1>2. <<run, k>> \in Puzzles
  BY <1>1 DEF Puzzles
<1>3. \A part \in Parts : Field(<<run, k>>, part) \in Fields
  BY <1>2 DEF Field, Fields
<1> QED
  BY <1>3 DEF Record, Field, Parts

(* A record behind pairs makes pairs.                                        *)
LEMMA WholeRecordKeepsPairs ==
    ASSUME StoreInv, k \in 1 .. NUM_PUZZLES, InPairs, file' = file \o Record
    PROVE  InPairs'
<1>1. PICK n \in Nat : Len(file) = 2 * n
  BY DEF InPairs
<1>2. file \in Seq(Fields)
  BY DEF StoreInv, StoreTypeOK, Fields
<1>7. Record \in Seq(Fields) /\ Len(Record) = 2
  BY RecordIsPair
<1>8. /\ Len(file') = Len(file) + 2
      /\ \A i \in 1 .. Len(file) + 2 :
            file'[i] = IF i <= Len(file) THEN file[i] ELSE Record[i - Len(file)]
  <2>1. /\ Len(file \o Record) = Len(file) + Len(Record)
        /\ \A i \in 1 .. Len(file) + Len(Record) :
              (file \o Record)[i] = IF i <= Len(file) THEN file[i] ELSE Record[i - Len(file)]
    BY <1>2, <1>7, ConcatProperties, Zenon
  <2>2. file' = file \o Record
    OBVIOUS
  <2>3. Len(Record) = 2
    BY <1>7
  <2> QED
    BY <2>1, <2>2, <2>3, Zenon
<1>3. Len(file') = 2 * (n + 1)
  BY <1>1, <1>8
<1>4. file'[2 * n + 1] = Record[1] /\ file'[2 * n + 2] = Record[2]
  BY <1>1, <1>8
<1>5. ASSUME NEW r \in Nat, 2 * r + 1 <= Len(file')
      PROVE  /\ file'[2 * r + 1].puzzle = file'[2 * r + 2].puzzle
             /\ file'[2 * r + 1].part = "preImageMessage"
             /\ file'[2 * r + 2].part = "messageDigest"
  <2>1. CASE r < n
    <3>1. 2 * r + 1 \in 1 .. Len(file) /\ 2 * r + 2 \in 1 .. Len(file)
      BY <1>1, <2>1
    <3>2. file'[2 * r + 1] = file[2 * r + 1] /\ file'[2 * r + 2] = file[2 * r + 2]
      BY <1>1, <1>8, <3>1
    <3> QED
      BY <3>1, <3>2 DEF InPairs
  <2>2. CASE r = n
    BY <1>4, <2>2, RecordIsPair
  <2> QED
    BY <1>3, <1>5, <2>1, <2>2
<1>6. \E m \in Nat : Len(file') = 2 * m
  <2>1. n + 1 \in Nat
    OBVIOUS
  <2> QED
    BY <1>3, <2>1
<1> QED
  BY <1>5, <1>6 DEF InPairs

LEMMA WritePuzzleKeeps ==
    ASSUME StoreInv, NEW fields \in 0 .. 2, WritePuzzle(fields)
    PROVE  StoreInv'
<1>1. /\ k \in 1 .. NUM_PUZZLES
      /\ file' = file \o SubSeq(Record, 1, fields)
      /\ torn' = IF fields < 2 THEN torn + 1 ELSE torn
      /\ fields < 2 => torn < MaxTorn
      /\ k' = k + 1 /\ run' = run /\ reads' = reads /\ got' = got
  BY DEF WritePuzzle
<1>2. Record \in Seq(Fields) /\ Len(Record) = 2
  BY <1>1, RecordIsPair
<1>3. SubSeq(Record, 1, fields) \in Seq(Fields)
  <2>1. \A i \in 1 .. fields : Record[i] \in Fields
    BY <1>2
  <2> QED
    BY <2>1, SubSeqProperties
<1>4. file' \in Seq(Fields)
  BY <1>1, <1>3, ConcatProperties DEF StoreInv, StoreTypeOK, Fields
<1>5. StoreTypeOK' /\ (k' > 0 => run' > 0)
  <2>1. run' \in 0 .. MaxRuns /\ k' \in 0 .. NUM_PUZZLES + 1 /\ reads' \in 0 .. 2
    BY <1>1, StoreAssumption DEF StoreInv, StoreTypeOK
  <2>2. torn' \in 0 .. MaxTorn
    BY <1>1, StoreAssumption DEF StoreInv, StoreTypeOK
  <2>3. k > 0 => run > 0
    BY DEF StoreInv
  <2> QED
    BY <1>1, <1>4, <2>1, <2>2, <2>3 DEF StoreTypeOK, Fields
<1>6. ASSUME torn' = 0 PROVE torn = 0 /\ file' = file \o Record
  <2>1. torn \in Nat
    BY StoreAssumption DEF StoreInv, StoreTypeOK
  <2>2. fields = 2
    BY <1>1, <1>6, <2>1
  <2>3. SubSeq(Record, 1, 2) = Record
    BY <1>2, SubSeqFull
  <2>4. torn = 0
    BY <1>1, <1>6, <2>1, <2>2
  <2>5. file' = file \o Record
    BY <1>1, <2>2, <2>3, Zenon
  <2> QED
    BY <2>4, <2>5
<1>7. torn' = 0 => InPairs'
  BY <1>1, <1>6, WholeRecordKeepsPairs DEF StoreInv
<1>8. FieldsOfOnePuzzle'
  BY <1>1, <1>6 DEF StoreInv, FieldsOfOnePuzzle
<1> QED
  BY <1>5, <1>7, <1>8 DEF StoreInv

(* Either both places of the record are in the file or neither is.           *)
LEMMA GetRandomPuzzleKeeps ==
    ASSUME StoreInv, NEW recordIndex \in RecordIndexes, GetRandomPuzzle(recordIndex)
    PROVE  StoreInv'
<1>1. /\ reads > 0 /\ reads' = reads - 1
      /\ got' = IF file = <<>> THEN NoPuzzle
                ELSE [pre |-> FieldAt(2 * recordIndex + 1), md |-> FieldAt(2 * recordIndex + 2)]
      /\ UNCHANGED <<file, run, k, torn>>
  BY DEF GetRandomPuzzle
<1>2. StoreTypeOK' /\ (k' > 0 => run' > 0) /\ (torn' = 0 => InPairs')
  BY <1>1 DEF StoreInv, StoreTypeOK, InPairs
<1>3. FieldsOfOnePuzzle'
  <2> SUFFICES ASSUME torn = 0, got' # NoPuzzle
               PROVE  /\ got'.pre.puzzle = got'.md.puzzle
                      /\ got'.pre.part = "preImageMessage"
                      /\ got'.md.part = "messageDigest"
    BY <1>1 DEF FieldsOfOnePuzzle
  <2>1. InPairs /\ recordIndex \in Nat
    BY StoreAssumption DEF StoreInv, RecordIndexes
  <2>2. got' = [pre |-> FieldAt(2 * recordIndex + 1), md |-> FieldAt(2 * recordIndex + 2)]
    BY <1>1
  <2>3. PICK n \in Nat : Len(file) = 2 * n
    BY <2>1 DEF InPairs
  <2>4. 2 * recordIndex + 1 <= Len(file)
    <3> SUFFICES ASSUME ~ (2 * recordIndex + 1 <= Len(file)) PROVE FALSE
      OBVIOUS
    <3>1. ~ (2 * recordIndex + 2 <= Len(file))
      BY <2>1, <2>3
    <3> QED
      BY <2>2, <3>1 DEF FieldAt, NoPuzzle
  <2>5. 2 * recordIndex + 2 <= Len(file)
    BY <2>1, <2>3, <2>4
  <2>6. got'.pre = file[2 * recordIndex + 1] /\ got'.md = file[2 * recordIndex + 2]
    BY <2>2, <2>4, <2>5 DEF FieldAt
  <2> QED
    BY <2>1, <2>4, <2>6 DEF InPairs
<1> QED
  BY <1>2, <1>3 DEF StoreInv

LEMMA StoreInvNext == StoreInv /\ [StoreNext]_storeVars => StoreInv'
<1> SUFFICES ASSUME StoreInv, [StoreNext]_storeVars PROVE StoreInv'
  OBVIOUS
<1>1. CASE StartRun
  <2>1. k' = 1 /\ run' = run + 1 /\ run < MaxRuns /\ reads' = 2 /\ file' = file /\ torn' = torn
    BY <1>1 DEF StartRun
  <2>2. StoreTypeOK' /\ run' > 0
    BY <2>1, StoreAssumption DEF StoreInv, StoreTypeOK
  <2>3. torn' = 0 => InPairs'
    BY <2>1 DEF StoreInv, InPairs
  <2>4. FieldsOfOnePuzzle'
    BY <1>1 DEF StartRun, FieldsOfOnePuzzle
  <2> QED
    BY <2>2, <2>3, <2>4 DEF StoreInv
<1>2. ASSUME NEW fields \in 0 .. 2, WritePuzzle(fields) PROVE StoreInv'
  BY <1>2, WritePuzzleKeeps
<1>3. ASSUME NEW recordIndex \in RecordIndexes, GetRandomPuzzle(recordIndex) PROVE StoreInv'
  BY <1>3, GetRandomPuzzleKeeps
<1>4. CASE EndRun
  BY <1>4, StoreAssumption
     DEF EndRun, StoreInv, StoreTypeOK, InPairs, FieldsOfOnePuzzle
<1>5. CASE UNCHANGED storeVars
  BY <1>5 DEF storeVars, StoreInv, StoreTypeOK, InPairs, FieldsOfOnePuzzle
<1> QED
  BY <1>1, <1>2, <1>3, <1>4, <1>5 DEF StoreNext

(* The fields in the file, the counters and the torn writes keep their       *)
(* types through every run of puzzleCreator.cpp.                             *)
THEOREM StoreTypeCorrect == StoreSpec => []StoreTypeOK
<1>1. StoreInv => StoreTypeOK
  BY DEF StoreInv
<1> QED
  BY <1>1, StoreInvInit, StoreInvNext, PTL DEF StoreSpec

(* However often the program is killed and run again, as long as every       *)
(* record was written whole getRandomPuzzleFromFile returns both fields of   *)
(* one puzzle or none.                                                       *)
THEOREM StoreReadsOnePuzzle == StoreSpec => []FieldsOfOnePuzzle
<1>1. StoreInv => FieldsOfOnePuzzle
  BY DEF StoreInv
<1> QED
  BY <1>1, StoreInvInit, StoreInvNext, PTL DEF StoreSpec

-----------------------------------------------------------------------------
(***************************************************************************)
(* PuzzleSearch for every length, strength, digit set and hash function.   *)
(*                                                                         *)
(* The search is complete because of one fact about the place it has come  *)
(* to: no filling that lies before that place in the order of the digits   *)
(* has the digest.  A step down adds no filling to those; a step to the    *)
(* next digit of the deepest open depth adds the filling that was just     *)
(* tried and no other, since below that depth every digit was the last.    *)
(*                                                                         *)
(* What hashing n times computes is never needed, only that the client and *)
(* the server compute the same.                                            *)
(***************************************************************************)

Answered == stage \in {"answered", "verified"}

Made ==
    /\ design \in {"InitialProposal", "MyProposal"}
    /\ strength \in 0 .. 4 * PuzzleLength
    /\ stage \in {"new", "made", "searching", "answered", "verified"}
    /\ stage # "new" => entry = <<entry[1], entry[2]>> /\ entry[1] \in Texts

Sent ==
    stage \notin {"new", "made"} =>
        /\ puzzle.missing \in 0 .. PuzzleLength
        /\ puzzle.text \in Seq(Hex) /\ Len(puzzle.text) = PuzzleLength
        /\ puzzle.digest = entry[2]
        /\ stage # "verified" =>
               bucket = (IF design = "MyProposal" THEN {entry} ELSE {})

OnTrail ==
    /\ trail \in Seq(1 .. Len(hexValues))
    /\ stage = "searching" => Len(trail) <= puzzle.missing
    /\ ~ Answered => solved.found = FALSE /\ iterations = 0
    /\ solved.found \in BOOLEAN

(* v lies before the trail s in the order of the digits.                     *)
Before(v, s) ==
    \E i \in 1 .. Len(s) :
        /\ \A j \in 1 .. i - 1 : v[j] = hexValues[s[j]]
        /\ \E m \in 1 .. s[i] - 1 : v[i] = hexValues[m]

Misses(v) == hashCheck(v \o Shown) = {}

PassedMiss ==
    stage = "searching" /\ puzzle.missing > 0 =>
        \A v \in Fillings(puzzle.missing) : trail = <<>> \/ Before(v, trail) => Misses(v)

Found ==
    Answered /\ solved.found =>
        /\ puzzle.missing > 0
        /\ solved.text \in Answers
        /\ Len(solved.text) = PuzzleLength
        /\ iterations \in Nat \ {0}
        /\ Digests(solved.text)[iterations] = puzzle.digest

NotFound ==
    Answered /\ ~ solved.found =>
        /\ iterations = 0
        /\ solved.text = <<Zero>> \o Shown
        /\ puzzle.missing > 0 => Answers = {}

SearchInv ==
    /\ Made /\ Sent /\ OnTrail /\ PassedMiss /\ Found /\ NotFound
    /\ FoundIsAccepted /\ GuessworkIsRefused

-----------------------------------------------------------------------------
(* Natural numbers, digits and texts.                                        *)
LEMMA HasLeast ==
    ASSUME NEW T \in SUBSET Nat, T # {}
    PROVE  \E x \in T : \A y \in T : x <= y
<1>1. \E x \in T : \A y \in T : ~ (<<y, x>> \in OpToRel(<, Nat))
  BY NatLessThanWellFounded, WFMin, Zenon
<1>2. ASSUME NEW x \in Nat, NEW y \in Nat, x < y PROVE <<x, y>> \in OpToRel(<, Nat)
  <2>1. <<x, y>> \in Nat \X Nat /\ <<x, y>>[1] = x /\ <<x, y>>[2] = y
    OBVIOUS
  <2> QED
    BY <1>2, <2>1, Zenon DEF OpToRel
<1>3. \E x \in T : \A y \in T : ~ (y < x)
  BY <1>1, <1>2, Zenon
<1> QED
  BY <1>3

LEMMA HasGreatest ==
    ASSUME NEW n \in Nat, NEW T \in SUBSET (0 .. n), T # {}
    PROVE  \E x \in T : \A y \in T : y <= x
<1> DEFINE D == { n - x : x \in T }
<1>1. D \in SUBSET Nat /\ D # {}
  <2>1. \A x \in T : x \in Int /\ n - x \in Nat
    OBVIOUS
  <2>2. PICK t \in T : TRUE
    OBVIOUS
  <2>3. n - t \in D
    OBVIOUS
  <2> QED
    BY <2>1, <2>3
<1>2. PICK d \in D : \A e \in D : d <= e
  BY <1>1, HasLeast
<1>3. PICK x \in T : d = n - x
  OBVIOUS
<1>4. ASSUME NEW y \in T PROVE y <= x
  <2>1. n - y \in D
    OBVIOUS
  <2>2. n - x <= n - y
    BY <1>2, <1>3, <2>1
  <2>3. x \in Int /\ y \in Int
    OBVIOUS
  <2> QED
    BY <2>2, <2>3
<1> QED
  BY <1>4

LEMMA Digits ==
    /\ Len(hexValues) \in Nat \ {0}
    /\ \A i \in 1 .. Len(hexValues) : hexValues[i] \in Hex
    /\ \A x \in Hex : \E i \in 1 .. Len(hexValues) : x = hexValues[i]
<1>1. hexValues \in Seq(Hex) /\ Zero \in Hex
  BY SearchAssumption
<1>2. DOMAIN hexValues = 1 .. Len(hexValues) /\ Len(hexValues) \in Nat
  BY <1>1
<1>3. Hex = { hexValues[i] : i \in 1 .. Len(hexValues) }
  BY <1>2 DEF Hex, ToSet
<1>4. Len(hexValues) # 0
  BY <1>1, <1>2, <1>3
<1> QED
  BY <1>2, <1>3, <1>4

LEMMA FillingIsSeq ==
    ASSUME NEW n \in Nat, NEW v \in Fillings(n)
    PROVE  v \in Seq(Hex) /\ Len(v) = n
  BY DEF Fillings

LEMMA FilledIsFilling ==
    ASSUME NEW n \in Nat
    PROVE  Filled(n) \in Fillings(n)
  BY SearchAssumption DEF Filled, Fillings

LEMMA ShownType ==
    ASSUME SearchInv, stage \notin {"new", "made"}
    PROVE  Shown \in Seq(Hex) /\ Len(Shown) = PuzzleLength - puzzle.missing
<1>1. /\ puzzle.missing \in 0 .. PuzzleLength /\ PuzzleLength \in Nat
      /\ puzzle.text \in Seq(Hex) /\ Len(puzzle.text) = PuzzleLength
  BY SearchAssumption DEF SearchInv, Sent
<1> DEFINE a == puzzle.missing + 1
<1>2. \A i \in a .. PuzzleLength : puzzle.text[i] \in Hex
  BY <1>1, ElementOfSeq
<1>3. a \in Int /\ PuzzleLength \in Int
  BY <1>1
<1>4. /\ SubSeq(puzzle.text, a, PuzzleLength) \in Seq(Hex)
      /\ Len(SubSeq(puzzle.text, a, PuzzleLength)) =
             IF a <= PuzzleLength THEN PuzzleLength - a + 1 ELSE 0
  <2> HIDE DEF a
  <2> QED
    BY <1>2, <1>3, SubSeqProperties
<1> QED
  BY <1>1, <1>4 DEF Shown

(* A filling before what is shown is a text as long as a puzzle.             *)
LEMMA CandidateLength ==
    ASSUME SearchInv, stage \notin {"new", "made"}, NEW v \in Fillings(puzzle.missing)
    PROVE  Len(v \o Shown) = PuzzleLength
<1>1. puzzle.missing \in Nat /\ PuzzleLength \in Nat
  BY SearchAssumption DEF SearchInv, Sent
<1>2. v \in Seq(Hex) /\ Len(v) = puzzle.missing
  BY <1>1, FillingIsSeq
<1>3. Len(v \o Shown) = Len(v) + Len(Shown)
  BY <1>2, ShownType, ConcatProperties
<1> QED
  BY <1>1, <1>2, <1>3, ShownType

LEMMA WordIsFilling ==
    ASSUME SearchInv, stage = "searching"
    PROVE  Word \in Fillings(puzzle.missing)
<1>1. trail \in Seq(1 .. Len(hexValues)) /\ Zero \in Hex
  BY SearchAssumption DEF SearchInv, OnTrail
<1>2. \A i \in 1 .. puzzle.missing :
          (IF i <= Len(trail) THEN hexValues[trail[i]] ELSE Zero) \in Hex
  <2> TAKE i \in 1 .. puzzle.missing
  <2>1. i \in Nat \ {0}
    BY DEF SearchInv, Sent
  <2>2. CASE i <= Len(trail)
    <3>1. trail[i] \in 1 .. Len(hexValues)
      BY <1>1, <2>1, <2>2, ElementOfSeq
    <3> QED
      BY <2>2, <3>1, Digits
  <2>3. CASE ~ (i <= Len(trail))
    BY <1>1, <2>3
  <2> QED
    BY <2>2, <2>3
<1> QED
  BY <1>2 DEF Word, Fillings

(* While the puzzle and the hash function stay, so does everything that is   *)
(* said about candidates.                                                    *)
LEMMA SameChecks ==
    ASSUME hash256' = hash256, puzzle' = puzzle
    PROVE  /\ \A t : hashCheck(t)' = hashCheck(t) /\ Digests(t)' = Digests(t)
           /\ Shown' = Shown
           /\ Answers' = Answers
           /\ \A v : Misses(v)' = Misses(v)
<1>1. ASSUME NEW t PROVE Digests(t)' = Digests(t)
  BY Zenon DEF Digests
<1>2. ASSUME NEW t PROVE hashCheck(t)' = hashCheck(t)
  BY <1>1 DEF hashCheck
<1>3. Shown' = Shown
  BY DEF Shown
<1>4. Answers' = Answers
  BY <1>2, <1>3 DEF Answers
<1>5. ASSUME NEW v PROVE Misses(v)' = Misses(v)
  BY <1>2, <1>3 DEF Misses
<1> QED
  BY <1>1, <1>2, <1>3, <1>4, <1>5

-----------------------------------------------------------------------------
(* The step from one guess to the next.                                      *)

(* A filling that agrees with s up to i, and s has the last digit behind i:  *)
(* it lies before s or is the word of s.                                     *)
LEMMA LastDigitsAreLast ==
    ASSUME NEW s \in Seq(1 .. Len(hexValues)), NEW v \in Fillings(Len(s)),
           NEW i \in 0 .. Len(s),
           \A j \in 1 .. i : v[j] = hexValues[s[j]],
           \A j \in i + 1 .. Len(s) : s[j] = Len(hexValues)
    PROVE  Before(v, s) \/ \A j \in 1 .. Len(s) : v[j] = hexValues[s[j]]
<1> DEFINE T == { j \in 1 .. Len(s) : v[j] # hexValues[s[j]] }
<1>1. CASE T = {}
  BY <1>1
<1>2. CASE T # {}
  <2>1. Len(s) \in Nat /\ T \in SUBSET Nat
    OBVIOUS
  <2>2. PICK x \in T : \A y \in T : x <= y
    BY <1>2, <2>1, HasLeast
  <2>3. x \in 1 .. Len(s) /\ v[x] # hexValues[s[x]]
    OBVIOUS
  <2>4. ASSUME NEW j \in 1 .. x - 1 PROVE v[j] = hexValues[s[j]]
    <3>1. j \in 1 .. Len(s) /\ ~ (x <= j)
      BY <2>1, <2>3
    <3> QED
      BY <2>2, <3>1
  <2>5. s[x] = Len(hexValues)
    <3>1. x \in 1 .. i \/ x \in i + 1 .. Len(s)
      BY <2>1, <2>3
    <3> QED
      BY <2>3, <3>1
  <2>6. PICK m \in 1 .. Len(hexValues) : v[x] = hexValues[m]
    BY <2>1, <2>3, Digits DEF Fillings
  <2>7. m \in 1 .. s[x] - 1
    BY <2>3, <2>5, <2>6, Digits
  <2> QED
    BY <2>3, <2>4, <2>6, <2>7 DEF Before
<1> QED
  BY <1>1, <1>2

LEMMA Advance ==
    ASSUME NEW s \in Seq(1 .. Len(hexValues)), ~ (Len(s) < puzzle.missing)
    PROVE  \/ /\ NextGuess(s) = <<>>
              /\ \A j \in 1 .. Len(s) : s[j] = Len(hexValues)
           \/ \E i \in 1 .. Len(s) :
                 /\ s[i] < Len(hexValues)
                 /\ \A j \in i + 1 .. Len(s) : s[j] = Len(hexValues)
                 /\ NextGuess(s) = Append(SubSeq(s, 1, i - 1), s[i] + 1)
<1> DEFINE open == { i \in DOMAIN s : s[i] < Len(hexValues) }
           last == CHOOSE j \in open : \A m \in open : m <= j
<1>1. NextGuess(s) = IF open = {} THEN <<>>
                     ELSE Append(SubSeq(s, 1, last - 1), s[last] + 1)
  BY DEF NextGuess
<1>2. /\ DOMAIN s = 1 .. Len(s) /\ Len(s) \in Nat
      /\ \A j \in 1 .. Len(s) : s[j] \in 1 .. Len(hexValues)
  OBVIOUS
<1>3. \A j \in 1 .. Len(s) : j \notin open => s[j] = Len(hexValues)
  BY <1>2, Digits
<1>4. CASE open = {}
  BY <1>1, <1>3, <1>4
<1>5. CASE open # {}
  <2>1. open \in SUBSET (0 .. Len(s))
    BY <1>2
  <2>2. \E x \in open : \A y \in open : y <= x
    <3> HIDE DEF open
    <3> QED
      BY <1>2, <1>5, <2>1, HasGreatest
  <2>3. last \in open /\ \A y \in open : y <= last
    <3> HIDE DEF open
    <3> QED
      BY <2>2
  <2>4. last \in 1 .. Len(s) /\ s[last] < Len(hexValues)
    <3> HIDE DEF last
    <3> QED
      BY <1>2, <2>3
  <2>5. \A j \in last + 1 .. Len(s) : s[j] = Len(hexValues)
    <3> SUFFICES ASSUME NEW j \in last + 1 .. Len(s) PROVE s[j] = Len(hexValues)
      OBVIOUS
    <3> HIDE DEF last, open
    <3>1. j \in 1 .. Len(s) /\ ~ (j <= last)
      BY <1>2, <2>4
    <3> QED
      BY <1>3, <2>3, <3>1
  <2>6. NextGuess(s) = Append(SubSeq(s, 1, last - 1), s[last] + 1)
    BY <1>1, <1>5
  <2> HIDE DEF last, open
  <2> QED
    BY <2>4, <2>5, <2>6
<1> QED
  BY <1>4, <1>5

LEMMA NextDigit ==
    ASSUME NEW s \in Seq(1 .. Len(hexValues)), NEW i \in 1 .. Len(s),
           s[i] < Len(hexValues),
           NEW t, t = Append(SubSeq(s, 1, i - 1), s[i] + 1)
    PROVE  /\ t \in Seq(1 .. Len(hexValues)) /\ Len(t) = i /\ t[i] = s[i] + 1
           /\ \A j \in 1 .. i - 1 : t[j] = s[j]
<1> DEFINE S == 1 .. Len(hexValues)
           f == SubSeq(s, 1, i - 1)
<1>1. Len(s) \in Nat /\ \A j \in 1 .. Len(s) : s[j] \in S
  OBVIOUS
<1>2. s[i] \in Nat /\ s[i] + 1 \in S
  BY <1>1, Digits
<1>3. /\ \A j \in 1 .. i - 1 : s[j] \in S
      /\ i - 1 \in Nat /\ (1 <= i - 1 => (i - 1) - 1 + 1 = i - 1)
  BY <1>1
<1>4. /\ f \in Seq(S)
      /\ Len(f) = i - 1
      /\ \A j \in 1 .. i - 1 : f[j] = s[j]
  <2>1. /\ f \in Seq(S)
        /\ Len(f) = IF 1 <= i - 1 THEN (i - 1) - 1 + 1 ELSE 0
        /\ \A j \in 1 .. (i - 1) - 1 + 1 : f[j] = s[1 + j - 1]
    BY <1>3, SubSeqProperties
  <2> HIDE DEF f, S
  <2> QED
    BY <1>3, <2>1
<1>5. /\ Append(f, s[i] + 1) \in Seq(S)
      /\ Len(Append(f, s[i] + 1)) = Len(f) + 1
      /\ \A j \in 1 .. Len(f) : Append(f, s[i] + 1)[j] = f[j]
      /\ Append(f, s[i] + 1)[Len(f) + 1] = s[i] + 1
  <2> HIDE DEF f, S
  <2> QED
    BY <1>2, <1>4, AppendProperties
<1> HIDE DEF f
<1>6. t = Append(f, s[i] + 1)
  BY DEF f
<1> QED
  BY <1>3, <1>4, <1>5, <1>6

(* A filling before the next guess was before this one, or is this one.      *)
LEMMA NothingPassedOver ==
    ASSUME NEW s \in Seq(1 .. Len(hexValues)), s # <<>>, Len(s) = puzzle.missing,
           NEW v \in Fillings(puzzle.missing),
           NextGuess(s) = <<>> \/ Before(v, NextGuess(s))
    PROVE  Before(v, s) \/ \A j \in 1 .. Len(s) : v[j] = hexValues[s[j]]
<1>1. Len(s) \in Nat /\ v \in Fillings(Len(s)) /\ ~ (Len(s) < puzzle.missing)
  OBVIOUS
<1>2. CASE NextGuess(s) = <<>> /\ \A j \in 1 .. Len(s) : s[j] = Len(hexValues)
  <2>1. 0 \in 0 .. Len(s) /\ \A j \in 0 + 1 .. Len(s) : s[j] = Len(hexValues)
    BY <1>1, <1>2
  <2>2. \A j \in 1 .. 0 : v[j] = hexValues[s[j]]
    OBVIOUS
  <2> QED
    BY <1>1, <2>1, <2>2, LastDigitsAreLast
<1>3. ASSUME NEW i \in 1 .. Len(s),
             s[i] < Len(hexValues),
             \A j \in i + 1 .. Len(s) : s[j] = Len(hexValues),
             NextGuess(s) = Append(SubSeq(s, 1, i - 1), s[i] + 1)
      PROVE  Before(v, s) \/ \A j \in 1 .. Len(s) : v[j] = hexValues[s[j]]
  <2> DEFINE t == NextGuess(s)
  <2>1. /\ t \in Seq(1 .. Len(hexValues)) /\ Len(t) = i /\ t[i] = s[i] + 1
        /\ \A j \in 1 .. i - 1 : t[j] = s[j]
    BY <1>3, NextDigit
  <2>2. t # <<>> /\ s[i] \in Nat
    BY <1>1, <2>1
  <2>3. Before(v, t)
    BY <2>2
  <2> HIDE DEF t
  <2>4. PICK h \in 1 .. i : /\ \A j \in 1 .. h - 1 : v[j] = hexValues[t[j]]
                           /\ \E m \in 1 .. t[h] - 1 : v[h] = hexValues[m]
    BY <2>1, <2>3 DEF Before
  <2>5. CASE h < i
    <3>1. /\ h \in 1 .. Len(s) /\ t[h] = s[h]
          /\ \A j \in 1 .. h - 1 : v[j] = hexValues[s[j]]
      <4>1. h \in 1 .. i - 1 /\ h \in 1 .. Len(s)
        BY <1>1, <2>5
      <4>2. t[h] = s[h]
        BY <2>1, <4>1
      <4>3. ASSUME NEW j \in 1 .. h - 1 PROVE v[j] = hexValues[s[j]]
        <5>1. j \in 1 .. i - 1
          BY <4>1
        <5> QED
          BY <2>1, <2>4, <5>1
      <4> QED
        BY <4>1, <4>2, <4>3
    <3> QED
      BY <2>4, <3>1 DEF Before
  <2>6. CASE h = i
    <3>1. \A j \in 1 .. i - 1 : v[j] = hexValues[s[j]]
      BY <2>1, <2>4, <2>6
    <3>2. PICK m \in 1 .. s[i] : v[i] = hexValues[m]
      BY <2>1, <2>2, <2>4, <2>6
    <3>3. CASE m < s[i]
      <4>1. m \in 1 .. s[i] - 1
        BY <2>2, <3>3
      <4> QED
        BY <3>1, <3>2, <4>1 DEF Before
    <3>4. CASE m = s[i]
      <4>1. \A j \in 1 .. i : v[j] = hexValues[s[j]]
        BY <3>1, <3>2, <3>4
      <4>2. i \in 0 .. Len(s)
        BY <1>1
      <4> QED
        BY <1>1, <1>3, <4>1, <4>2, LastDigitsAreLast
    <3> QED
      BY <2>2, <3>3, <3>4
  <2> QED
    BY <2>5, <2>6
<1> QED
  BY <1>1, <1>2, <1>3, Advance

-----------------------------------------------------------------------------
(* The actions.                                                              *)
LEMMA SearchInvInit == SearchInit => SearchInv
<1> SUFFICES ASSUME SearchInit PROVE SearchInv
  OBVIOUS
<1>1. Made
  BY SearchAssumption DEF SearchInit, Made
<1>2. Sent /\ PassedMiss /\ Found /\ NotFound /\ FoundIsAccepted /\ GuessworkIsRefused
  BY DEF SearchInit, Sent, PassedMiss, Found, NotFound, Answered, FoundIsAccepted,
         GuessworkIsRefused
<1>3. OnTrail
  BY DEF SearchInit, OnTrail, Answered
<1> QED
  BY <1>1, <1>2, <1>3 DEF SearchInv

LEMMA EntryKeeps ==
    ASSUME SearchInv, generateEntry
    PROVE  SearchInv'
<1>1. /\ stage = "new" /\ stage' = "made"
      /\ UNCHANGED <<design, hash256, strength, bucket, puzzle, trail, solved, iterations, verdict>>
  BY DEF generateEntry
<1>2. PICK pre \in Texts, rounds \in RoundsDrawn : entry' = <<pre, iterativelyHash(pre, rounds)>>
  BY DEF generateEntry, generateServerSideSecret
<1>3. Made'
  BY <1>1, <1>2 DEF SearchInv, Made
<1>4. Sent' /\ PassedMiss' /\ Found' /\ NotFound' /\ FoundIsAccepted' /\ GuessworkIsRefused'
  BY <1>1 DEF Sent, PassedMiss, Found, NotFound, Answered, FoundIsAccepted, GuessworkIsRefused
<1>5. OnTrail'
  BY <1>1 DEF SearchInv, OnTrail, Answered
<1> QED
  BY <1>3, <1>4, <1>5 DEF SearchInv

(* The masked puzzle is as long as the text it was made from.                *)
LEMMA MaskedType ==
    ASSUME SearchInv, stage = "made"
    PROVE  /\ missing \in 0 .. PuzzleLength
           /\ generateClientPuzzle(entry[1]) \in Seq(Hex)
           /\ Len(generateClientPuzzle(entry[1])) = PuzzleLength
<1>1. PuzzleLength \in Nat \ {0} /\ strength \in 0 .. 4 * PuzzleLength
  BY SearchAssumption DEF SearchInv, Made
<1>2. missing \in 0 .. PuzzleLength
  BY <1>1 DEF missing
<1>3. Filled(missing) \in Seq(Hex) /\ Len(Filled(missing)) = missing
  BY <1>2, FilledIsFilling, FillingIsSeq
<1> DEFINE a == missing + 1
           shown == SubSeq(entry[1], a, PuzzleLength)
<1>4. /\ shown \in Seq(Hex)
      /\ Len(shown) = PuzzleLength - missing
  <2>1. \A i \in a .. PuzzleLength : entry[1][i] \in Hex
    <3>1. entry[1] \in [1 .. PuzzleLength -> Hex]
      BY DEF SearchInv, Made, Texts
    <3>2. a \in Nat \ {0}
      BY <1>2
    <3> QED
      BY <1>1, <3>1, <3>2
  <2>2. a \in Int /\ PuzzleLength \in Int
    BY <1>1, <1>2
  <2>3. /\ shown \in Seq(Hex)
        /\ Len(shown) = IF a <= PuzzleLength THEN PuzzleLength - a + 1 ELSE 0
    <3> HIDE DEF a
    <3> QED
      BY <2>1, <2>2, SubSeqProperties
  <2> QED
    BY <1>1, <1>2, <2>3
<1> HIDE DEF shown
<1>5. /\ Filled(missing) \o shown \in Seq(Hex)
      /\ Len(Filled(missing) \o shown) = Len(Filled(missing)) + Len(shown)
  BY <1>3, <1>4, ConcatProperties
<1>6. generateClientPuzzle(entry[1]) = Filled(missing) \o shown
  BY DEF generateClientPuzzle, shown
<1> QED
  BY <1>1, <1>2, <1>3, <1>4, <1>5, <1>6

LEMMA PuzzleSentKeeps ==
    ASSUME SearchInv, getPuzzlePayload
    PROVE  SearchInv'
<1>1. /\ stage = "made" /\ stage' = "searching"
      /\ puzzle' = init_clientPuzzle
      /\ bucket' = IF design = "MyProposal" THEN {entry} ELSE {}
      /\ trail' = IF missing = 0 THEN <<>> ELSE <<1>>
      /\ UNCHANGED <<design, hash256, strength, entry, solved, iterations, verdict>>
  BY DEF getPuzzlePayload
<1>2. Made'
  BY <1>1 DEF SearchInv, Made
<1>3. /\ puzzle'.missing = missing /\ puzzle'.digest = entry[2]
      /\ puzzle'.text = generateClientPuzzle(entry[1])
  BY <1>1 DEF init_clientPuzzle
<1>4. Sent'
  BY <1>1, <1>3, MaskedType DEF Sent
<1>5. OnTrail'
  <2>1. 1 \in 1 .. Len(hexValues)
    BY Digits
  <2>2. trail' \in Seq(1 .. Len(hexValues)) /\ Len(trail') <= missing
    <3>1. CASE missing = 0
      BY <1>1, <3>1
    <3>2. CASE missing # 0
      <4>1. trail' = <<1>> /\ missing \in Nat
        BY <1>1, <3>2, MaskedType
      <4> QED
        BY <2>1, <3>2, <4>1
    <3> QED
      BY <3>1, <3>2
  <2> QED
    BY <1>1, <1>3, <2>2 DEF SearchInv, OnTrail, Answered
<1>6. PassedMiss'
  <2> SUFFICES ASSUME puzzle'.missing > 0,
                      NEW v, trail' = <<>> \/ Before(v, trail')
               PROVE  FALSE
    BY DEF PassedMiss, Before
  <2>1. trail' = <<1>>
    BY <1>1, <1>3, MaskedType
  <2>2. PICK i \in 1 .. Len(trail') : \E m \in 1 .. trail'[i] - 1 : v[i] = hexValues[m]
    BY <2>1 DEF Before
  <2> QED
    BY <2>1, <2>2
<1>7. Found' /\ NotFound' /\ FoundIsAccepted' /\ GuessworkIsRefused'
  BY <1>1 DEF Found, NotFound, Answered, FoundIsAccepted, GuessworkIsRefused
<1> QED
  BY <1>2, <1>4, <1>5, <1>6, <1>7 DEF SearchInv

(* hashCheck of a hit, and the rounds the client keeps.                      *)
LEMMA HitRounds ==
    ASSUME NEW t, hashCheck(t) # {}
    PROVE  LET n == CHOOSE m \in hashCheck(t) : \A o \in hashCheck(t) : m <= o
           IN  n \in Nat \ {0} /\ Digests(t)[n] = puzzle.digest
<1> DEFINE hits == hashCheck(t)
           n == CHOOSE m \in hits : \A o \in hits : m <= o
<1>1. hits \in SUBSET (Nat \ {0}) /\ hits \in SUBSET Nat
  BY SearchAssumption DEF hashCheck, AtLeastOnce
<1>2. \A m \in hits : Digests(t)[m] = puzzle.digest
  BY DEF hashCheck
<1> HIDE DEF hits
<1>3. \E m \in hits : \A o \in hits : m <= o
  BY <1>1, HasLeast DEF hits
<1>4. n \in hits
  BY <1>3
<1> QED
  BY <1>1, <1>2, <1>4 DEF hits

LEMMA HitKeeps ==
    ASSUME SearchInv, TryGuess, hashCheck(Guess) # {}
    PROVE  SearchInv'
<1> DEFINE n == CHOOSE m \in hashCheck(Guess) : \A o \in hashCheck(Guess) : m <= o
<1>1. /\ stage = "searching" /\ stage' = "answered" /\ trail # <<>>
      /\ iterations' = n
      /\ solved' = [found |-> TRUE, text |-> Guess]
      /\ UNCHANGED <<design, hash256, strength, entry, bucket, puzzle, trail, verdict>>
  BY DEF TryGuess
<1>2. n \in Nat \ {0} /\ Digests(Guess)[n] = puzzle.digest
  BY HitRounds
<1> HIDE DEF n
<1>3. Word \in Fillings(puzzle.missing) /\ Len(Guess) = PuzzleLength
  BY <1>1, WordIsFilling, CandidateLength DEF Guess
<1>4. Guess \in Answers
  BY <1>3 DEF Answers, Guess
<1>5. puzzle.missing > 0
  <2>1. Len(trail) <= puzzle.missing /\ trail \in Seq(1 .. Len(hexValues))
    BY <1>1 DEF SearchInv, OnTrail
  <2>2. Len(trail) \in Nat \ {0} /\ puzzle.missing \in Nat
    BY <1>1, <2>1 DEF SearchInv, Sent
  <2> QED
    BY <2>1, <2>2
<1>6. Made' /\ Sent'
  BY <1>1 DEF SearchInv, Made, Sent
<1>7. OnTrail' /\ PassedMiss' /\ NotFound' /\ FoundIsAccepted' /\ GuessworkIsRefused'
  BY <1>1 DEF SearchInv, OnTrail, PassedMiss, NotFound, Answered, FoundIsAccepted,
              GuessworkIsRefused
<1>8. Found'
  <2>1. solved'.text = Guess /\ Answers' = Answers
    BY <1>1, SameChecks
  <2>2. Digests(solved.text)'[iterations'] = puzzle'.digest
    <3>1. ASSUME hash256' = hash256, NEW t, t = solved.text' PROVE Digests(solved.text)' = Digests(t)
      BY <3>1, Zenon DEF Digests
    <3>2. Digests(solved.text)' = Digests(Guess)
      BY <1>1, <2>1, <3>1
    <3> QED
      BY <1>1, <1>2, <3>2
  <2> QED
    BY <1>1, <1>2, <1>3, <1>4, <1>5, <2>1, <2>2 DEF Found
<1> QED
  BY <1>6, <1>7, <1>8 DEF SearchInv

(* The word of a complete trail.                                             *)
LEMMA WordOfTrail ==
    ASSUME SearchInv, stage = "searching", Len(trail) = puzzle.missing,
           NEW v \in Fillings(puzzle.missing),
           \A j \in 1 .. Len(trail) : v[j] = hexValues[trail[j]]
    PROVE  v = Word
<1>1. v \in [1 .. puzzle.missing -> Hex] /\ Word \in [1 .. puzzle.missing -> Hex]
  BY WordIsFilling DEF Fillings
<1>2. puzzle.missing \in Nat
  BY DEF SearchInv, Sent
<1>3. \A j \in 1 .. puzzle.missing : Word[j] = hexValues[trail[j]]
  BY <1>2 DEF Word
<1> QED
  BY <1>1, <1>3

LEMMA MissKeeps ==
    ASSUME SearchInv, TryGuess, hashCheck(Guess) = {}
    PROVE  SearchInv'
<1>1. /\ stage = "searching" /\ stage' = stage /\ trail # <<>>
      /\ trail' = NextGuess(trail)
      /\ UNCHANGED <<design, hash256, strength, entry, bucket, puzzle, solved, iterations, verdict>>
  BY DEF TryGuess
<1>2. /\ trail \in Seq(1 .. Len(hexValues)) /\ Len(trail) <= puzzle.missing
      /\ puzzle.missing \in Nat /\ Len(trail) \in Nat \ {0}
  <2>1. trail \in Seq(1 .. Len(hexValues)) /\ Len(trail) <= puzzle.missing
    BY <1>1 DEF SearchInv, OnTrail
  <2>2. puzzle.missing \in Nat
    BY <1>1 DEF SearchInv, Sent
  <2> QED
    BY <1>1, <2>1, <2>2
<1>3. Made' /\ Sent' /\ Found' /\ NotFound' /\ FoundIsAccepted' /\ GuessworkIsRefused'
  BY <1>1 DEF SearchInv, Made, Sent, Found, NotFound, Answered, FoundIsAccepted, GuessworkIsRefused
<1>4. ASSUME trail' \in Seq(1 .. Len(hexValues)), Len(trail') <= puzzle.missing
      PROVE  OnTrail'
  BY <1>1, <1>4 DEF SearchInv, OnTrail, Answered
<1>5. ASSUME NEW v \in Fillings(puzzle.missing), puzzle.missing > 0,
             trail = <<>> \/ Before(v, trail)
      PROVE  Misses(v)
  BY <1>1, <1>5 DEF SearchInv, PassedMiss
<1>6. ASSUME \A v \in Fillings(puzzle.missing) :
                 trail' = <<>> \/ Before(v, trail') =>
                     Before(v, trail) \/ (Len(trail) = puzzle.missing /\ v = Word)
      PROVE  PassedMiss'
  <2> SUFFICES ASSUME puzzle.missing > 0,
                      NEW v \in Fillings(puzzle.missing),
                      trail' = <<>> \/ Before(v, trail')
               PROVE  Misses(v)
    <3>1. \A v : Misses(v)' = Misses(v)
      BY <1>1, SameChecks
    <3> QED
      BY <1>1, <3>1 DEF PassedMiss, Before
  <2>1. CASE Before(v, trail)
    BY <1>5, <2>1
  <2>2. CASE v = Word
    BY <2>2 DEF Misses, Guess
  <2> QED
    BY <1>6, <2>1, <2>2
<1>7. CASE Len(trail) < puzzle.missing
  <2>1. trail' = Append(trail, 1)
    BY <1>1, <1>7 DEF NextGuess
  <2>2. 1 \in 1 .. Len(hexValues)
    BY Digits
  <2>3. /\ trail' \in Seq(1 .. Len(hexValues)) /\ Len(trail') = Len(trail) + 1
        /\ \A j \in 1 .. Len(trail) : trail'[j] = trail[j]
        /\ trail'[Len(trail) + 1] = 1
    BY <1>2, <2>1, <2>2, AppendProperties
  <2>4. OnTrail'
    BY <1>2, <1>4, <1>7, <2>3
  <2>5. ASSUME NEW v \in Fillings(puzzle.missing), trail' = <<>> \/ Before(v, trail')
        PROVE  Before(v, trail)
    <3>1. Before(v, trail')
      BY <1>2, <2>3, <2>5
    <3>2. PICK h \in 1 .. Len(trail') :
                  /\ \A j \in 1 .. h - 1 : v[j] = hexValues[trail'[j]]
                  /\ \E m \in 1 .. trail'[h] - 1 : v[h] = hexValues[m]
      BY <3>1 DEF Before
    <3>3. h # Len(trail) + 1
      BY <2>3, <3>2
    <3>4. h \in 1 .. Len(trail) /\ \A j \in 1 .. h - 1 : j \in 1 .. Len(trail)
      BY <1>2, <2>3, <3>3
    <3>5. \A j \in 1 .. Len(trail) : trail'[j] = trail[j]
      BY <2>3
    <3>6. /\ \A j \in 1 .. h - 1 : v[j] = hexValues[trail[j]]
          /\ \E m \in 1 .. trail[h] - 1 : v[h] = hexValues[m]
      BY <3>2, <3>4, <3>5
    <3> QED
      BY <3>4, <3>6 DEF Before
  <2> QED
    BY <1>3, <1>6, <2>4, <2>5 DEF SearchInv
<1>8. CASE Len(trail) = puzzle.missing
  <2>1. OnTrail'
    <3>1. CASE trail' = <<>>
      BY <1>2, <1>4, <3>1
    <3>2. ASSUME NEW i \in 1 .. Len(trail), trail[i] < Len(hexValues),
                 trail' = Append(SubSeq(trail, 1, i - 1), trail[i] + 1)
          PROVE  OnTrail'
      <4>1. trail' \in Seq(1 .. Len(hexValues)) /\ Len(trail') = i
        BY <1>2, <3>2, NextDigit
      <4> QED
        BY <1>2, <1>4, <4>1
    <3>3. \/ NextGuess(trail) = <<>>
          \/ \E i \in 1 .. Len(trail) :
                /\ trail[i] < Len(hexValues)
                /\ NextGuess(trail) = Append(SubSeq(trail, 1, i - 1), trail[i] + 1)
      <4>1. ~ (Len(trail) < puzzle.missing)
        BY <1>2, <1>8
      <4> QED
        BY <1>2, <4>1, Advance, Zenon
    <3> QED
      BY <1>1, <3>1, <3>2, <3>3, Zenon
  <2>2. ASSUME NEW v \in Fillings(puzzle.missing), trail' = <<>> \/ Before(v, trail')
        PROVE  Before(v, trail) \/ v = Word
    <3>1. NextGuess(trail) = <<>> \/ Before(v, NextGuess(trail))
      BY <1>1, <2>2
    <3>2. Before(v, trail) \/ \A j \in 1 .. Len(trail) : v[j] = hexValues[trail[j]]
      BY <1>1, <1>2, <1>8, <3>1, NothingPassedOver
    <3> QED
      BY <1>1, <1>8, <3>2, WordOfTrail
  <2> QED
    BY <1>3, <1>6, <1>8, <2>1, <2>2 DEF SearchInv
<1> QED
  BY <1>2, <1>7, <1>8

(* With no digit missing nothing was tried; otherwise every filling was.     *)
LEMMA GiveUpKeeps ==
    ASSUME SearchInv, GiveUpSearch
    PROVE  SearchInv'
<1>1. /\ stage = "searching" /\ stage' = "answered" /\ trail = <<>>
      /\ solved' = [found |-> FALSE, text |-> <<Zero>> \o Shown]
      /\ UNCHANGED <<design, hash256, strength, entry, bucket, puzzle, trail, iterations, verdict>>
  BY DEF GiveUpSearch
<1>2. Shown' = Shown /\ Answers' = Answers
  BY <1>1, SameChecks
<1>3. puzzle.missing > 0 => Answers = {}
  BY <1>1 DEF SearchInv, PassedMiss, Misses, Answers
<1>4. Made' /\ Sent'
  BY <1>1 DEF SearchInv, Made, Sent
<1>5. iterations = 0
  BY <1>1 DEF SearchInv, OnTrail, Answered
<1>6. OnTrail' /\ PassedMiss' /\ Found' /\ FoundIsAccepted' /\ GuessworkIsRefused'
  BY <1>1 DEF SearchInv, OnTrail, PassedMiss, Found, Answered, FoundIsAccepted, GuessworkIsRefused
<1>7. NotFound'
  BY <1>1, <1>2, <1>3, <1>5 DEF NotFound
<1> QED
  BY <1>4, <1>6, <1>7 DEF SearchInv

(* "0" before the rest of a puzzle is refused by a server that hashes it.    *)
LEMMA ZeroIsRefused ==
    ASSUME SearchInv, Answered, ~ solved.found,
           NEW answer, answer = getPuzzleSolutionPayload
    PROVE  ~ Recomputed(answer)
<1> SUFFICES ASSUME Recomputed(answer) PROVE FALSE
  OBVIOUS
<1>1. /\ answer.text = <<Zero>> \o Shown /\ answer.iterations = 0
      /\ answer.digest = puzzle.digest
      /\ puzzle.missing > 0 => Answers = {}
  BY DEF SearchInv, NotFound, getPuzzleSolutionPayload
<1>2. <<Zero>> \in Seq(Hex) /\ Len(<<Zero>>) = 1
  BY SearchAssumption
<1>3. stage \notin {"new", "made"}
  BY DEF Answered
<1>4. Len(<<Zero>> \o Shown) = 1 + Len(Shown)
  BY <1>2, <1>3, ShownType, ConcatProperties
<1>5. puzzle.missing = 1
  <2>1. Len(<<Zero>> \o Shown) = PuzzleLength
    BY <1>1 DEF Recomputed
  <2>2. puzzle.missing \in Nat /\ PuzzleLength \in Nat
    BY <1>3, SearchAssumption DEF SearchInv, Sent
  <2> QED
    BY <1>3, <1>4, <2>1, <2>2, ShownType
<1>6. Digests(answer.text)[1] = puzzle.digest
  BY <1>1 DEF Recomputed, iterativelyHash, AtLeastOnce
<1>7. 1 \in hashCheck(<<Zero>> \o Shown)
  BY <1>1, <1>6, SearchAssumption DEF hashCheck, AtLeastOnce
<1>8. <<Zero>> \in Fillings(puzzle.missing)
  BY <1>5, SearchAssumption DEF Fillings
<1>9. <<Zero>> \o Shown \in Answers
  BY <1>7, <1>8 DEF Answers
<1> QED
  BY <1>1, <1>5, <1>9

LEMMA VerifyKeeps ==
    ASSUME SearchInv, verifySolution
    PROVE  SearchInv'
<1> DEFINE answer == getPuzzleSolutionPayload
<1>1. /\ stage = "answered" /\ stage' = "verified"
      /\ verdict' = IF design = "InitialProposal" THEN Recomputed(answer) ELSE LookedUp(answer)
      /\ UNCHANGED <<design, hash256, strength, entry, puzzle, trail, solved, iterations>>
  BY DEF verifySolution
<1>2. /\ Shown' = Shown /\ Answers' = Answers
      /\ Digests(solved.text)' = Digests(solved.text)
  <2>1. ASSUME hash256' = hash256, solved' = solved
        PROVE  Digests(solved.text)' = Digests(solved.text)
    BY <2>1, Zenon DEF Digests
  <2> QED
    BY <1>1, <2>1, SameChecks
<1>3. Made' /\ Sent' /\ OnTrail' /\ PassedMiss'
  BY <1>1 DEF SearchInv, Made, Sent, OnTrail, PassedMiss, Answered
<1>4. Found' /\ NotFound'
  BY <1>1, <1>2 DEF SearchInv, Found, NotFound, Answered
<1>5. /\ answer.text = solved.text /\ answer.digest = puzzle.digest
      /\ answer.iterations = iterations
  BY DEF getPuzzleSolutionPayload
<1>6. ASSUME design = "MyProposal"
      PROVE  LookedUp(answer) <=> solved.text = entry[1]
  <2>1. bucket = {entry} /\ puzzle.digest = entry[2] /\ entry = <<entry[1], entry[2]>>
    BY <1>1, <1>6 DEF SearchInv, Sent, Made
  <2>2. LookedUp(answer) <=> <<solved.text, entry[2]>> = entry
    BY <1>5, <2>1 DEF LookedUp
  <2> QED
    BY <2>1, <2>2
<1>7. ASSUME solved.found, design = "InitialProposal" PROVE Recomputed(answer)
  <2>1. /\ Len(solved.text) = PuzzleLength /\ iterations \in Nat \ {0}
        /\ Digests(solved.text)[iterations] = puzzle.digest
    BY <1>1, <1>7 DEF SearchInv, Found, Answered
  <2>2. AtLeastOnce(iterations) = iterations
    BY <2>1 DEF AtLeastOnce
  <2> HIDE DEF answer
  <2> QED
    BY <1>5, <2>1, <2>2 DEF Recomputed, iterativelyHash
<1>8. ASSUME ~ solved.found PROVE ~ Recomputed(answer)
  BY <1>1, <1>8, ZeroIsRefused DEF Answered
<1>9. design \in {"InitialProposal", "MyProposal"}
  BY DEF SearchInv, Made
<1> HIDE DEF answer
<1>10. FoundIsAccepted'
  <2> SUFFICES ASSUME solved.found, ~ verdict', design = "MyProposal" => Answers = {entry[1]}
               PROVE  FALSE
    BY <1>1, <1>2, <1>9 DEF FoundIsAccepted
  <2>1. CASE design = "InitialProposal"
    BY <1>1, <1>7, <2>1
  <2>2. CASE design = "MyProposal"
    <3>1. solved.text \in Answers
      BY <1>1 DEF SearchInv, Found, Answered
    <3> QED
      BY <1>1, <1>6, <2>2, <3>1
  <2> QED
    BY <1>9, <2>1, <2>2
<1>11. GuessworkIsRefused'
  <2> SUFFICES ASSUME verdict'
               PROVE  IF design = "InitialProposal" THEN solved.found ELSE solved.text = entry[1]
    BY <1>1 DEF GuessworkIsRefused
  <2>1. CASE design = "InitialProposal"
    BY <1>1, <1>8, <2>1
  <2>2. CASE design = "MyProposal"
    BY <1>1, <1>6, <2>2
  <2> QED
    BY <1>9, <2>1, <2>2
<1> QED
  BY <1>3, <1>4, <1>10, <1>11 DEF SearchInv

LEMMA SearchInvNext == SearchInv /\ [SearchNext]_searchVars => SearchInv'
<1> SUFFICES ASSUME SearchInv, [SearchNext]_searchVars PROVE SearchInv'
  OBVIOUS
<1>1. CASE TryGuess
  BY <1>1, HitKeeps, MissKeeps
<1>2. CASE UNCHANGED searchVars
  <2>1. ASSUME UNCHANGED <<hash256, solved>>
        PROVE  Digests(solved.text)' = Digests(solved.text)
    BY <2>1, Zenon DEF Digests
  <2>2. /\ Shown' = Shown /\ Answers' = Answers /\ \A v : Misses(v)' = Misses(v)
        /\ Digests(solved.text)' = Digests(solved.text)
    BY <1>2, <2>1, SameChecks DEF searchVars
  <2>3. Made' /\ Sent' /\ OnTrail' /\ FoundIsAccepted' /\ GuessworkIsRefused'
    BY <1>2, <2>2 DEF searchVars, SearchInv, Made, Sent, OnTrail, Answered, FoundIsAccepted,
                      GuessworkIsRefused
  <2>4. Found' /\ NotFound'
    BY <1>2, <2>2 DEF searchVars, SearchInv, Answered, Found, NotFound
  <2>5. PassedMiss'
    BY <1>2, <2>2 DEF searchVars, SearchInv, PassedMiss, Before
  <2> QED
    BY <2>3, <2>4, <2>5 DEF SearchInv
<1> QED
  BY <1>1, <1>2, EntryKeeps, PuzzleSentKeeps, GiveUpKeeps, VerifyKeeps DEF SearchNext

-----------------------------------------------------------------------------
(* bruteForceSearch finds an answer exactly when digits are missing and one  *)
(* exists within the limit, for every number of digits and every hash.       *)
THEOREM SearchFindsWhatExists == SearchSpec => []SearchIsComplete
<1>1. SearchInv => SearchIsComplete
  <2> SUFFICES ASSUME SearchInv, Answered PROVE SearchIsComplete
    BY DEF SearchIsComplete, Answered
  <2>1. CASE solved.found
    BY <2>1 DEF SearchInv, Found, SearchIsComplete
  <2>2. CASE ~ solved.found
    BY <2>2 DEF SearchInv, NotFound, SearchIsComplete
  <2> QED
    BY <2>1, <2>2
<1> QED
  BY <1>1, SearchInvInit, SearchInvNext, PTL DEF SearchSpec

(* What the client found is accepted by the server that made the puzzle;     *)
(* MyProposal may refuse it only if another text has the digest too.         *)
THEOREM SearchAnswerAccepted == SearchSpec => []FoundIsAccepted
<1>1. SearchInv => FoundIsAccepted
  BY DEF SearchInv
<1> QED
  BY <1>1, SearchInvInit, SearchInvNext, PTL DEF SearchSpec

(* What is sent after a search in vain is refused by InitialProposal, and    *)
(* MyProposal accepts no text but the masked one.                            *)
THEOREM SearchGuessworkRefused == SearchSpec => []GuessworkIsRefused
<1>1. SearchInv => GuessworkIsRefused
  BY DEF SearchInv
<1> QED
  BY <1>1, SearchInvInit, SearchInvNext, PTL DEF SearchSpec

-----------------------------------------------------------------------------
(***************************************************************************)
(* What holds of VerificationBucket for every number of threads, words and *)
(* machines and every transposition of the index: whatever the threads     *)
(* interleave, no word is valid that was not handed out; and if calls do   *)
(* not overlap, the bucket is exactly the words handed out and unredeemed. *)
(***************************************************************************)
(* The index a client sends back is the one the puzzle was taken from.       *)
LEMMA TransposeRoundTrip ==
    ASSUME NEW i \in Indices
    PROVE  unTransposeIndex(transposeIndex(i)) = i
<1>1. i \in Nat /\ COEFFICIENT \in Nat \ {0} /\ OFFSET_VALUE \in Nat
  BY BucketAssumption DEF Indices
<1>2. (COEFFICIENT * i) \div COEFFICIENT = i
  BY <1>1, SMT
<1>3. (COEFFICIENT * i + OFFSET_VALUE) - OFFSET_VALUE = COEFFICIENT * i
  BY <1>1
<1> QED
  BY <1>2, <1>3 DEF transposeIndex, unTransposeIndex

(* Where a ticket leads is a machine of the vector.                          *)
LEMMA AtIsIndex ==
    ASSUME BucketTypeOK, NEW t \in Callers
    PROVE  At(t) \in Indices
<1>1. PICK i \in Indices : ticket[t] = transposeIndex(i)
  BY DEF BucketTypeOK
<1> QED
  BY <1>1, TransposeRoundTrip DEF At

(* The word of a puzzle is in the machine its ticket names.                  *)
LEMMA AtIsHome ==
    ASSUME NEW t \in Callers, NEW w \in BucketWords, ticket[t] = transposeIndex(Home[w])
    PROVE  At(t) = Home[w]
BY TransposeRoundTrip, BucketAssumption DEF At

-----------------------------------------------------------------------------
(* The types hold at first.                                                  *)
LEMMA BucketInitType == BucketInit => BucketTypeOK
BY BucketAssumption DEF BucketInit, BucketTypeOK, Steps, Indices

(* Every step keeps the types.                                               *)
LEMMA BucketNextType == BucketTypeOK /\ [BucketNext]_bucketVars => BucketTypeOK'
<1> SUFFICES ASSUME BucketTypeOK, [BucketNext]_bucketVars
             PROVE  BucketTypeOK'
  OBVIOUS
<1> USE DEF BucketTypeOK, Steps, Calls, Removing, Goto
<1>1. ASSUME NEW t \in Callers, Fetch(t)
      PROVE  BucketTypeOK'
  <2>1. PICK w \in BucketWords : /\ word' = [word EXCEPT ![t] = w]
                           /\ ticket' = [ticket EXCEPT ![t] = transposeIndex(Home[w])]
                           /\ seen' = [seen EXCEPT ![t] = buckets[Home[w]]]
                           /\ handed' = handed \cup {w}
    BY <1>1 DEF Fetch
  <2>2. Home[w] \in Indices
    BY BucketAssumption
  <2>3. ticket' \in [Callers -> {transposeIndex(i) : i \in Indices}]
    BY <2>1, <2>2
  <2>4. /\ word' \in [Callers -> BucketWords \cup {NoWord}]
        /\ seen' \in [Callers -> SUBSET BucketWords]
        /\ handed' \subseteq BucketWords
    BY <2>1, <2>2
  <2>5. doing' \in [Callers -> Steps]
    BY <1>1 DEF Fetch
  <2>6. UNCHANGED <<buckets, valid, owed>>
    BY <1>1 DEF Fetch
  <2>7. \A s \in Callers : doing'[s] = "adding" => word'[s] \in BucketWords
    BY <1>1, <2>1 DEF Fetch
  <2> QED
    BY <2>3, <2>4, <2>5, <2>6, <2>7 DEF transposeIndex
<1>2. ASSUME NEW t \in Callers, AddWord(t)
      PROVE  BucketTypeOK'
  BY <1>2 DEF AddWord
<1>3. ASSUME NEW t \in Callers, AnswerArrives(t)
      PROVE  BucketTypeOK'
  <2>1. /\ \E w \in BucketWords \cup {NoWord} : word' = [word EXCEPT ![t] = w]
        /\ doing' = [doing EXCEPT ![t] = "checking"]
    BY <1>3 DEF AnswerArrives
  <2> QED
    BY <1>3, <2>1 DEF AnswerArrives
<1>4. ASSUME NEW t \in Callers, Member(t)
      PROVE  BucketTypeOK'
  BY <1>4 DEF Member, member_of_language
<1>5. ASSUME NEW t \in Callers, ReadLanguage(t)
      PROVE  BucketTypeOK'
  <2>1. Remaining(t) \subseteq BucketWords
    BY AtIsIndex DEF Remaining
  <2> QED
    BY <1>5, <2>1 DEF ReadLanguage
<1>6. ASSUME NEW t \in Callers, ClearMachine(t)
      PROVE  BucketTypeOK'
  BY <1>6 DEF ClearMachine
<1>7. ASSUME NEW t \in Callers, Rebuild(t)
      PROVE  BucketTypeOK'
  BY <1>7 DEF Rebuild
<1>8. CASE UNCHANGED bucketVars
  BY <1>8 DEF bucketVars
<1> QED
  BY <1>1, <1>2, <1>3, <1>4, <1>5, <1>6, <1>7, <1>8 DEF BucketNext, BucketStep

(* No interleaving puts anything but a word into a machine, or lets a thread *)
(* look outside the vector of machines.                                      *)
THEOREM BucketTypeCorrect == BucketSpec => []BucketTypeOK
BY BucketInitType, BucketNextType, PTL DEF BucketSpec

-----------------------------------------------------------------------------
(* A word is judged valid because a machine holds it, a machine holds it     *)
(* because a thread wrote it, and the thread had it from that machine or     *)
(* from the puzzle it handed out.                                            *)
OfMachine(i, W) == \A w \in W : w \in handed /\ Home[w] = i

OnlyHandedOut ==
    /\ \A i \in Indices : OfMachine(i, buckets[i])
    /\ \A t \in Callers : doing[t] = "adding" => OfMachine(Home[word[t]], seen[t] \cup {word[t]})
    /\ \A t \in Callers : doing[t] \in {"clearing", "rebuilding"} => OfMachine(At(t), seen[t])
    /\ \A t \in Callers : doing[t] \in Removing /\ valid[t] => OfMachine(At(t), {word[t]})

(* At first nothing was handed out, and nothing is valid.                    *)
LEMMA InitHandedOut == BucketInit => OnlyHandedOut
BY DEF BucketInit, OnlyHandedOut, OfMachine, Removing

(* No step makes a word valid that was not handed out, or takes one to       *)
(* another machine.                                                          *)
LEMMA NextHandedOut == BucketTypeOK /\ OnlyHandedOut /\ [BucketNext]_bucketVars => OnlyHandedOut'
<1> SUFFICES ASSUME BucketTypeOK, OnlyHandedOut, [BucketNext]_bucketVars
             PROVE  OnlyHandedOut'
  OBVIOUS
<1> USE DEF OnlyHandedOut, OfMachine, Goto, Removing
<1>1. ASSUME NEW t \in Callers, Fetch(t)
      PROVE  OnlyHandedOut'
  <2>1. PICK w \in BucketWords : /\ word' = [word EXCEPT ![t] = w]
                           /\ ticket' = [ticket EXCEPT ![t] = transposeIndex(Home[w])]
                           /\ seen' = [seen EXCEPT ![t] = buckets[Home[w]]]
                           /\ handed' = handed \cup {w}
    BY <1>1 DEF Fetch
  <2>2. Home[w] \in Indices
    BY BucketAssumption
  <2>3. \A s \in Callers \ {t} : At(s)' = At(s)
    BY <2>1 DEF At, BucketTypeOK
  <2> QED
    BY <1>1, <2>1, <2>2, <2>3 DEF Fetch, BucketTypeOK
<1>2. ASSUME NEW t \in Callers, AddWord(t)
      PROVE  OnlyHandedOut'
  <2>1. OfMachine(Home[word[t]], seen[t] \cup {word[t]})
    BY <1>2 DEF AddWord
  <2>2. \A s \in Callers : At(s)' = At(s)
    BY <1>2 DEF AddWord, At
  <2> QED
    BY <1>2, <2>1, <2>2 DEF AddWord, BucketTypeOK
<1>3. ASSUME NEW t \in Callers, AnswerArrives(t)
      PROVE  OnlyHandedOut'
  <2>1. \A s \in Callers : At(s)' = At(s)
    BY <1>3 DEF AnswerArrives, At
  <2> QED
    BY <1>3, <2>1 DEF AnswerArrives, BucketTypeOK
<1>4. ASSUME NEW t \in Callers, Member(t)
      PROVE  OnlyHandedOut'
  <2>1. word[t] \in buckets[At(t)] => OfMachine(At(t), {word[t]})
    BY AtIsIndex
  <2>2. \A s \in Callers : At(s)' = At(s)
    BY <1>4 DEF Member, At
  <2>3. doing' = [doing EXCEPT ![t] = "reading"] /\ UNCHANGED <<buckets, word, seen, handed>>
    BY <1>4 DEF Member
  <2>4. valid' = [valid EXCEPT ![t] = word[t] \in buckets[At(t)]]
    BY <1>4 DEF Member, member_of_language
  <2>5. \A s \in Callers : doing[s]' # doing[s] => s = t /\ doing[s]' = "reading"
    BY <2>3 DEF BucketTypeOK
  <2>6. ASSUME NEW s \in Callers, doing'[s] \in Removing, valid'[s]
        PROVE  OfMachine(At(s), {word[s]})
    <3>1. CASE s = t
      <4>1. word[t] \in buckets[At(t)]
        BY <2>4, <2>6, <3>1 DEF BucketTypeOK
      <4> QED
        BY <2>1, <3>1, <4>1
    <3>2. CASE s # t
      <4>1. doing[s] \in Removing /\ valid[s]
        BY <2>3, <2>4, <2>6, <3>2 DEF BucketTypeOK
      <4> QED
        BY <4>1
    <3> QED
      BY <3>1, <3>2
  <2> QED
    BY <2>2, <2>3, <2>5, <2>6
<1>5. ASSUME NEW t \in Callers, ReadLanguage(t)
      PROVE  OnlyHandedOut'
  <2>1. OfMachine(At(t), Remaining(t))
    BY AtIsIndex DEF Remaining
  <2>2. \A s \in Callers : At(s)' = At(s)
    BY <1>5 DEF ReadLanguage, At
  <2> QED
    BY <1>5, <2>1, <2>2 DEF ReadLanguage, BucketTypeOK
<1>6. ASSUME NEW t \in Callers, ClearMachine(t)
      PROVE  OnlyHandedOut'
  <2>1. \A s \in Callers : At(s)' = At(s)
    BY <1>6 DEF ClearMachine, At
  <2> QED
    BY <1>6, <2>1 DEF ClearMachine, BucketTypeOK
<1>7. ASSUME NEW t \in Callers, Rebuild(t)
      PROVE  OnlyHandedOut'
  <2>1. \A s \in Callers : At(s)' = At(s)
    BY <1>7 DEF Rebuild, At
  <2> QED
    BY <1>7, <2>1 DEF Rebuild, BucketTypeOK
<1>8. CASE UNCHANGED bucketVars
  BY <1>8 DEF bucketVars, At
<1> QED
  BY <1>1, <1>2, <1>3, <1>4, <1>5, <1>6, <1>7, <1>8 DEF BucketNext, BucketStep

(* No machine of the bucket gets a word that was not handed out with its     *)
(* index, though nothing in crypt.h keeps its threads apart.                 *)
THEOREM NoWordIsForged == BucketSpec => []NoForgedWord
<1>1. OnlyHandedOut => NoForgedWord
  BY DEF OnlyHandedOut, OfMachine, NoForgedWord
<1> QED
  BY <1>1, BucketInitType, BucketNextType, InitHandedOut, NextHandedOut, PTL DEF BucketSpec

-----------------------------------------------------------------------------
(* Calls that do not overlap.  What a machine is missing, or holds too many, *)
(* is then what the one thread inside a call is about to write.              *)
Owed(i) == { w \in owed : Home[w] = i }
ExactBut(i) == \A j \in Indices \ {i} : buckets[j] = Owed(j)

SerialCalls ==
    /\ \A s, t \in Callers : doing[s] \in Calls /\ doing[t] \in Calls => s = t
    /\ owed \subseteq BucketWords
    /\ \A t \in Callers :
          doing[t] \in {"adding", "holding"} =>
              word[t] \in BucketWords /\ ticket[t] = transposeIndex(Home[word[t]])
    /\ \A t \in Callers :
          doing[t] = "checking" =>
              word[t] = NoWord \/ (word[t] \in BucketWords /\ At(t) = Home[word[t]])
    /\ \A t \in Callers :
          doing[t] = "adding" => seen[t] = buckets[Home[word[t]]]
    /\ (\A t \in Callers : doing[t] \notin Removing) => \A i \in Indices : buckets[i] = Owed(i)
    /\ \A t \in Callers : doing[t] \in {"reading", "clearing"} => Remaining(t) = Owed(At(t))
    /\ \A t \in Callers : doing[t] \in {"clearing", "rebuilding"} => seen[t] = Owed(At(t))
    /\ \A t \in Callers : doing[t] \in Removing => ExactBut(At(t))

(* At first no call is open.                                                 *)
LEMMA InitSerial == BucketInit => SerialCalls
BY DEF BucketInit, SerialCalls, Calls, Removing, Owed, ExactBut

(* A step of one call, while no other is open, keeps the bucket exact.       *)
LEMMA NextSerial ==
    ASSUME ~Overlap, BucketTypeOK, SerialCalls, [BucketNext]_bucketVars
    PROVE  SerialCalls'
<1> USE DEF SerialCalls, Calls, Removing, Goto, Owed, ExactBut
<1>1. ASSUME NEW t \in Callers, Fetch(t)
      PROVE  SerialCalls'
  <2>1. PICK w \in BucketWords : /\ word' = [word EXCEPT ![t] = w]
                           /\ ticket' = [ticket EXCEPT ![t] = transposeIndex(Home[w])]
                           /\ seen' = [seen EXCEPT ![t] = buckets[Home[w]]]
    BY <1>1 DEF Fetch
  <2>2. \A s \in Callers : doing[s] \notin Calls
    BY <1>1 DEF Fetch, MayEnter
  <2>3. UNCHANGED <<buckets, valid, owed>> /\ doing' = [doing EXCEPT ![t] = "adding"]
    BY <1>1 DEF Fetch
  <2> QED
    BY <2>1, <2>2, <2>3 DEF BucketTypeOK
<1>2. ASSUME NEW t \in Callers, AddWord(t)
      PROVE  SerialCalls'
  <2>1. /\ \A s \in Callers : doing[s] \in Calls => s = t
        /\ doing[t] = "adding" /\ doing' = [doing EXCEPT ![t] = "holding"]
        /\ UNCHANGED <<word, ticket, seen, valid, handed>>
    BY <1>2 DEF AddWord
  <2>2. /\ word[t] \in BucketWords /\ Home[word[t]] \in Indices
        /\ buckets' = [buckets EXCEPT ![Home[word[t]]] = buckets[Home[word[t]]] \cup {word[t]}]
        /\ owed' = owed \cup {word[t]}
    BY <1>2, BucketAssumption DEF AddWord
  <2>3. \A i \in Indices : buckets[i] = Owed(i)
    BY <2>1
  <2>4. \A i \in Indices : buckets'[i] = Owed(i)'
    BY <2>2, <2>3 DEF BucketTypeOK
  <2> QED
    BY <2>1, <2>2, <2>4 DEF BucketTypeOK
<1>3. ASSUME NEW t \in Callers, AnswerArrives(t)
      PROVE  SerialCalls'
  <2>1. \A s \in Callers : doing[s] \notin Calls
    BY <1>3 DEF AnswerArrives, MayEnter
  <2>2. PICK w \in { v \in BucketWords : Home[v] = Home[word[t]] } \cup {NoWord} :
             word' = [word EXCEPT ![t] = w]
    BY <1>3 DEF AnswerArrives
  <2>3. /\ doing[t] = "holding" /\ doing' = [doing EXCEPT ![t] = "checking"]
        /\ UNCHANGED <<buckets, ticket, seen, valid, handed, owed>>
    BY <1>3 DEF AnswerArrives
  <2>4. At(t) = Home[word[t]]
    BY <2>3, AtIsHome
  <2>5. w = NoWord \/ (w \in BucketWords /\ At(t) = Home[w])
    BY <2>2, <2>4
  <2>6. \A s \in Callers : At(s)' = At(s)
    BY <2>3 DEF At
  <2> QED
    BY <2>1, <2>2, <2>3, <2>5, <2>6 DEF BucketTypeOK
<1>4. ASSUME NEW t \in Callers, Member(t)
      PROVE  SerialCalls'
  <2>1. /\ \A s \in Callers : doing[s] \in Calls => s = t
        /\ doing[t] = "checking" /\ doing' = [doing EXCEPT ![t] = "reading"]
        /\ valid' = [valid EXCEPT ![t] = member_of_language(t)]
        /\ owed' = IF valid'[t] THEN owed \ {word[t]} ELSE owed
        /\ UNCHANGED <<buckets, word, ticket, seen, handed>>
    BY <1>4 DEF Member
  <2>2. /\ At(t) \in Indices
        /\ \A i \in Indices : buckets[i] = Owed(i)
        /\ \A s \in Callers : At(s)' = At(s)
    BY <2>1, AtIsIndex DEF At
  <2>3. owed' = IF word[t] \in buckets[At(t)] THEN owed \ {word[t]} ELSE owed
    BY <2>1 DEF member_of_language, BucketTypeOK
  <2>4. Remaining(t)' = Owed(At(t))'
    <3>1. Remaining(t)' = buckets[At(t)] \ {word[t]}
      BY <2>1, <2>2 DEF Remaining
    <3> QED
      BY <2>2, <2>3, <3>1
  <2>5. \A j \in Indices \ {At(t)} : buckets'[j] = Owed(j)'
    BY <2>1, <2>2, <2>3
  <2> QED
    BY <2>1, <2>2, <2>3, <2>4, <2>5 DEF BucketTypeOK
<1>5. ASSUME NEW t \in Callers, ReadLanguage(t)
      PROVE  SerialCalls'
  <2>1. /\ \A s \in Callers : doing[s] \in Calls => s = t
        /\ doing[t] = "reading" /\ doing' = [doing EXCEPT ![t] = "clearing"]
        /\ seen' = [seen EXCEPT ![t] = Remaining(t)]
        /\ UNCHANGED <<buckets, word, ticket, valid, handed, owed>>
    BY <1>5 DEF ReadLanguage
  <2>2. \A s \in Callers : At(s)' = At(s) /\ Remaining(s)' = Remaining(s)
    BY <2>1 DEF At, Remaining
  <2> QED
    BY <2>1, <2>2 DEF BucketTypeOK
<1>6. ASSUME NEW t \in Callers, ClearMachine(t)
      PROVE  SerialCalls'
  <2>1. /\ \A s \in Callers : doing[s] \in Calls => s = t
        /\ doing[t] = "clearing" /\ doing' = [doing EXCEPT ![t] = "rebuilding"]
        /\ buckets' = [buckets EXCEPT ![At(t)] = {}]
        /\ UNCHANGED <<word, ticket, seen, valid, handed, owed>>
    BY <1>6 DEF ClearMachine
  <2>2. \A s \in Callers : At(s)' = At(s)
    BY <2>1 DEF At
  <2> QED
    BY <2>1, <2>2 DEF BucketTypeOK
<1>7. ASSUME NEW t \in Callers, Rebuild(t)
      PROVE  SerialCalls'
  <2>1. /\ \A s \in Callers : doing[s] \in Calls => s = t
        /\ doing[t] = "rebuilding" /\ doing' = [doing EXCEPT ![t] = "idle"]
        /\ buckets' = [buckets EXCEPT ![At(t)] = seen[t]]
        /\ UNCHANGED <<word, ticket, seen, valid, handed, owed>>
    BY <1>7 DEF Rebuild
  <2>2. \A i \in Indices : buckets'[i] = Owed(i)
    BY <2>1 DEF BucketTypeOK
  <2> QED
    BY <2>1, <2>2 DEF BucketTypeOK
<1>8. CASE UNCHANGED bucketVars
  BY <1>8 DEF bucketVars, Remaining, At
<1> QED
  BY <1>1, <1>2, <1>3, <1>4, <1>5, <1>6, <1>7, <1>8 DEF BucketNext, BucketStep

(* MyProposal/crypt.h:271, "place inside verification bucket", for calls     *)
(* that do not overlap: between calls the bucket is exactly the words handed *)
(* out and not redeemed, each in the machine its index names.  BucketLost    *)
(* shows that nothing less than "do not overlap" will do.                    *)
THEOREM SerialBucketIsExact ==
    ASSUME ~Overlap
    PROVE  BucketSpec => []BucketExact
<1>1. BucketTypeOK /\ SerialCalls /\ [BucketNext]_bucketVars => SerialCalls'
  BY NextSerial
<1>2. SerialCalls => BucketExact
  BY DEF SerialCalls, BucketExact, Calls, Owed
<1> QED
  BY <1>1, <1>2, BucketInitType, BucketNextType, InitSerial, PTL DEF BucketSpec

-----------------------------------------------------------------------------
(* Without overlap, the words that count as redeemable in the middle of a    *)
(* call are the words owed, and with them every call is one step of a bucket *)
(* of one-time words: AddWord issues, Member redeems.                        *)
LEMMA SettledIsOwed ==
    ASSUME BucketTypeOK, SerialCalls, NEW i \in Indices
    PROVE  Settled(i) = Owed(i)
<1> DEFINE at(steps) == { t \in Callers : doing[t] \in steps /\ At(t) = i }
<1>1. Settled(i) = (IF at({"rebuilding"}) = {}
                     THEN buckets[i] ELSE UNION { seen[t] : t \in at({"rebuilding"}) })
                    \ { word[t] : t \in at({"reading", "clearing"}) }
  BY DEF Settled
<1>2. CASE \A t \in Callers : doing[t] \in Removing => At(t) # i
  <2>1. at({"rebuilding"}) = {} /\ at({"reading", "clearing"}) = {}
    BY <1>2 DEF Removing
  <2>2. buckets[i] = Owed(i)
    BY <1>2 DEF SerialCalls, ExactBut
  <2> HIDE DEF at
  <2> QED
    BY <1>1, <2>1, <2>2
<1>3. CASE \E t \in Callers : doing[t] \in Removing /\ At(t) = i
  <2>1. PICK t \in Callers : doing[t] \in Removing /\ At(t) = i
    BY <1>3
  <2>2. \A s \in Callers : doing[s] \in Removing => s = t
    BY <2>1 DEF SerialCalls, Calls
  <2>3. CASE doing[t] = "rebuilding"
    <3>1. at({"rebuilding"}) = {t} /\ at({"reading", "clearing"}) = {}
      BY <2>1, <2>2, <2>3 DEF Removing
    <3>2. seen[t] = Owed(i)
      BY <2>1, <2>3 DEF SerialCalls
    <3> HIDE DEF at
    <3> QED
      BY <1>1, <3>1, <3>2
  <2>4. CASE doing[t] \in {"reading", "clearing"}
    <3>1. at({"rebuilding"}) = {} /\ at({"reading", "clearing"}) = {t}
      BY <2>1, <2>2, <2>4 DEF Removing
    <3>2. buckets[i] \ {word[t]} = Owed(i)
      BY <2>1, <2>4 DEF SerialCalls, Remaining
    <3> HIDE DEF at
    <3> QED
      BY <1>1, <3>1, <3>2
  <2> QED
    BY <2>1, <2>3, <2>4 DEF Removing
<1> QED
  BY <1>2, <1>3

(* Over all machines, the open words are those owed.                         *)
LEMMA OpenIsOwed ==
    BucketTypeOK /\ SerialCalls => UNION { Settled(i) : i \in Indices } = owed
<1> SUFFICES ASSUME BucketTypeOK, SerialCalls
             PROVE  UNION { Settled(i) : i \in Indices } = owed
  OBVIOUS
<1>1. UNION { Settled(i) : i \in Indices } = UNION { Owed(i) : i \in Indices }
  BY SettledIsOwed
<1>2. \A w \in owed : Home[w] \in Indices
  BY BucketAssumption DEF SerialCalls
<1> QED
  BY <1>1, <1>2 DEF Owed

(* A step of a call is a step of the abstract bucket, or none.               *)
LEMMA CallsAreOneTime ==
    ASSUME BucketTypeOK, SerialCalls, BucketTypeOK', SerialCalls', [BucketNext]_bucketVars
    PROVE  [Abstract!OpenNext]_<<UNION { Settled(i) : i \in Indices }, word, valid>>
<1> DEFINE open == UNION { Settled(i) : i \in Indices }
<1>1. open = owed /\ open' = owed'
  <2>1. (BucketTypeOK /\ SerialCalls => UNION { Settled(i) : i \in Indices } = owed)'
    BY OpenIsOwed, PTL
  <2> QED
    BY <2>1, OpenIsOwed
<1> SUFFICES Abstract!OpenNext \/ UNCHANGED <<open, word, valid>>
  OBVIOUS
<1> HIDE DEF open
<1>2. ASSUME NEW t \in Callers, Fetch(t) \/ AnswerArrives(t)
      PROVE  Abstract!OpenNext
  <2>1. \E w \in BucketWords \cup {NoWord} : word' = [word EXCEPT ![t] = w]
    BY <1>2 DEF Fetch, AnswerArrives, BucketTypeOK
  <2>2. UNCHANGED <<open, valid>>
    BY <1>1, <1>2 DEF Fetch, AnswerArrives
  <2>3. Abstract!Ask(t)
    BY <2>1, <2>2 DEF Abstract!Ask, open
  <2> QED
    BY <2>3 DEF Abstract!OpenNext
<1>3. ASSUME NEW t \in Callers, AddWord(t)
      PROVE  Abstract!OpenNext
  <2>1. word[t] \in BucketWords
    BY <1>3 DEF AddWord, BucketTypeOK
  <2>2. open' = open \cup {word[t]} /\ UNCHANGED <<word, valid>>
    BY <1>1, <1>3 DEF AddWord
  <2>3. Abstract!Issue(t)
    BY <2>1, <2>2 DEF Abstract!Issue, open
  <2> QED
    BY <2>3 DEF Abstract!OpenNext
<1>4. ASSUME NEW t \in Callers, Member(t)
      PROVE  Abstract!OpenNext
  <2>1. /\ doing[t] = "checking" /\ valid' = [valid EXCEPT ![t] = word[t] \in buckets[At(t)]]
        /\ owed' = (IF valid'[t] THEN owed \ {word[t]} ELSE owed) /\ word' = word
    BY <1>4 DEF Member, member_of_language
  <2>2. buckets[At(t)] = Owed(At(t))
    BY <2>1, AtIsIndex DEF SerialCalls, Calls, Removing
  <2>3. word[t] = NoWord \/ At(t) = Home[word[t]]
    BY <2>1 DEF SerialCalls
  <2>4. owed \subseteq BucketWords /\ NoWord \notin BucketWords
    BY BucketAssumption DEF SerialCalls
  <2>5. word[t] \in buckets[At(t)] <=> word[t] \in owed
    BY <2>2, <2>3, <2>4 DEF Owed
  <2>6. valid'[t] <=> word[t] \in owed
    BY <2>1, <2>5 DEF BucketTypeOK
  <2>7. owed' = owed \ {word[t]}
    BY <2>1, <2>6
  <2>8. valid' = [valid EXCEPT ![t] = word[t] \in open]
    <3>1. (word[t] \in buckets[At(t)]) = (word[t] \in open)
      BY <1>1, <2>5
    <3> QED
      BY <2>1, <3>1, Zenon
  <2>9. Abstract!Redeem(t)
    BY <1>1, <2>1, <2>7, <2>8 DEF Abstract!Redeem, open
  <2> QED
    BY <2>9 DEF Abstract!OpenNext
<1>5. ASSUME NEW t \in Callers, ReadLanguage(t) \/ ClearMachine(t) \/ Rebuild(t)
      PROVE  UNCHANGED <<open, word, valid>>
  BY <1>1, <1>5 DEF ReadLanguage, ClearMachine, Rebuild
<1>6. CASE UNCHANGED bucketVars
  BY <1>1, <1>6 DEF bucketVars
<1> QED
  BY <1>2, <1>3, <1>4, <1>5, <1>6 DEF BucketNext, BucketStep

(* ImplementsOneTime: if calls do not overlap, adding a word, looking it up  *)
(* and rebuilding the machine without it are together a bucket in which a    *)
(* word can be redeemed once, for every number of machines and words.        *)
THEOREM SerialBucketIsOneTime ==
    ASSUME ~Overlap
    PROVE  BucketSpec => ImplementsOneTime
<1>1. BucketTypeOK /\ SerialCalls /\ [BucketNext]_bucketVars => SerialCalls'
  BY NextSerial
<1>2. BucketInit => Abstract!OpenInit
  <2> SUFFICES ASSUME BucketInit PROVE Abstract!OpenInit
    OBVIOUS
  <2>1. UNION { Settled(i) : i \in Indices } = owed
    BY BucketInitType, InitSerial, OpenIsOwed
  <2> QED
    BY <2>1 DEF BucketInit, Abstract!OpenInit
<1>3. BucketTypeOK /\ SerialCalls /\ BucketTypeOK' /\ SerialCalls' /\ [BucketNext]_bucketVars
        => [Abstract!OpenNext]_<<UNION { Settled(i) : i \in Indices }, word, valid>>
  BY CallsAreOneTime
<1> QED
  BY <1>1, <1>2, <1>3, BucketInitType, BucketNextType, InitSerial, PTL
  DEF BucketSpec, ImplementsOneTime, Abstract!OpenSpec
=============================================================================

------------------------------ MODULE MCPrograms ------------------------------
(***************************************************************************)
(* Programs of the repository that share nothing, one of which runs: the   *)
(* parallel minimiser, a list behind an array, the generator of automata,  *)
(* two containers of grail, the puzzle file of version 2, the puzzle files *)
(* of a starting server, one puzzle from its making to its verification,   *)
(* and the verification bucket when its calls do not overlap.              *)
(***************************************************************************)
EXTENDS ParMinimise, DynArray, Icdfa, Containers, PuzzleStore, PuzzleFiles, MCPuzzleSearch,
        MCVerificationBucket

VARIABLES program,
          names      (* the containers a program declares *)

OneLetter(n, finals, sinks) ==
    [n |-> n, l |-> 1, begin |-> 0, final |-> finals,
     sink |-> [x \in (0 .. n - 1) \X {1} |-> sinks[x[1] + 1]]]

(* Two letters: states 1 and 2 accept and differ only by what comes later.   *)
TwoLetters ==
    [n |-> 3, l |-> 2, begin |-> 0, final |-> {1, 2},
     sink |-> [x \in (0 .. 2) \X {1, 2} |->
                  CASE x[1] = 0 -> IF x[2] = 1 THEN 1 ELSE 2
                    [] x[1] = 1 -> IF x[2] = 1 THEN 0 ELSE NoSink
                    [] x[1] = 2 -> 0]]

(* All one-letter machines of two states, some of three, one of five and one *)
(* of seven; the last needs three ranks besides rank 0, the others two.      *)
MCMachines ==
    {OneLetter(2, F, s) : F \in SUBSET {0, 1}, s \in [1 .. 2 -> {0, 1, NoSink}]}
    \cup {OneLetter(3, F, s) : F \in {{0}, {1}, {2}, {1, 2}},
                               s \in {<<1, 2, 0>>, <<1, 2, 2>>, <<2, 0, NoSink>>}}
    \cup {OneLetter(5, {4}, <<1, 2, 3, 4, 2>>), OneLetter(7, {0, 3}, <<1, 2, 3, 4, 5, 0, NoSink>>)}
    \cup {TwoLetters}

MCSizes == {<<2, 2>>, <<3, 1>>, <<3, 2>>}

(* Of the programs that do not run, one initial state is enough.             *)
ProgramsInit ==
    /\ program \in {"minimiser", "array", "generator", "containers",
                    "puzzle store", "puzzle files", "one puzzle", "bucket"}
    /\ names \in {{"a", "b"}, {"a", "l"}, {"l", "m"}}
    /\ program # "containers" => names = {"l", "m"}
    /\ ParInit /\ IcdfaInit /\ StoreInit /\ ContainersInit
    /\ ArrayInit /\ (program # "array" => latest_index = 0)
    /\ FilesInit /\ (program # "puzzle files" => total = 0 /\ perFile = 5 /\ directory)
    /\ SearchInit
    /\ BucketInit
    /\ program # "one puzzle" =>
           design = "MyProposal" /\ strength = 4 /\ hash256 = [t \in Texts |-> t]

ProgramsNext ==
    /\ UNCHANGED <<program, names>>
    /\ \/ /\ program = "minimiser"
          /\ ParNext
          /\ UNCHANGED <<arrayVars, icdfaVars, containerVars, storeVars, filesVars, searchVars, bucketVars>>
       \/ /\ program = "array"
          /\ ArrayNext
          /\ UNCHANGED <<parVars, icdfaVars, containerVars, storeVars, filesVars, searchVars, bucketVars>>
       \/ /\ program = "generator"
          /\ IcdfaNext
          /\ UNCHANGED <<parVars, arrayVars, containerVars, storeVars, filesVars, searchVars, bucketVars>>
       \/ /\ program = "containers"
          /\ ContainersNext
          /\ DOMAIN arrays' \subseteq names
          /\ UNCHANGED <<parVars, arrayVars, icdfaVars, storeVars, filesVars, searchVars, bucketVars>>
       \/ /\ program = "puzzle store"
          /\ StoreNext
          /\ UNCHANGED <<parVars, arrayVars, icdfaVars, containerVars, filesVars, searchVars, bucketVars>>
       \/ /\ program = "puzzle files"
          /\ FilesNext
          /\ UNCHANGED <<parVars, arrayVars, icdfaVars, containerVars, storeVars, searchVars, bucketVars>>
       \/ /\ program = "one puzzle"
          /\ SearchNext
          /\ UNCHANGED <<parVars, arrayVars, icdfaVars, containerVars, storeVars, filesVars, bucketVars>>
       \/ /\ program = "bucket"
          /\ BucketNext
          /\ UNCHANGED <<parVars, arrayVars, icdfaVars, containerVars, storeVars, filesVars,
                         searchVars>>

programsVars == <<program, names, parVars, arrayVars, icdfaVars, containerVars,
                  storeVars, filesVars, searchVars, bucketVars>>

(* Ranks run, messages arrive, and a server that starts goes on starting     *)
(* until it is killed; nobody has to start one, or ask it for a puzzle.      *)
ProgramsSpec ==
    /\ ProgramsInit
    /\ [][ProgramsNext]_programsVars
    /\ WF_parVars(program = "minimiser" /\ MasterStep)
    /\ \A r \in AllRanks : WF_parVars(program = "minimiser" /\ RankStep(r))
    /\ WF_filesVars(program = "puzzle files" /\ Starting)
=============================================================================

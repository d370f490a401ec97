SPECIFICATION ProgramsSpec
CONSTANTS
    MachineFiles <- MCMachines
    ProcCounts = {2, 3, 4}
    NoSink = NoSink
    MaxIndex = 5
    NULL = NULL
    Sizes <- MCSizes
    Drawn = {0, 1, 5, 50, 200}
    SetNames = {"a", "b"}
    ListNames = {"l", "m"}
    Items = {1, 2}
    ARRAY_SIZE = 1
    max_pool = 2
    KeptUpTo = 1
    NearEnd = 2
    MaxItems = 2
    SizesAsked = {0}
    NUM_PUZZLES = 2
    MaxRuns = 3
    MaxTorn = 1
    Totals = {0, 3, 5, 8, 10, 11, 13}
    Portions = {2, 4, 5}
    MAX_STARTS = 3
    hexValues <- MCHexValues
    Zero = "0"
    PuzzleLength = 3
    Hashes <- MCHashes
    Strengths = {3, 4, 8, 12}
    MIN_ITERATIONS = 2
    MAX_ITERATIONS = 3
    Callers = {t1, t2}
    w1 = w1
    w2 = w2
    w3 = w3
    BucketWords = {w1, w2, w3}
    Size = 2
    Home <- MCHome
    COEFFICIENT = 3
    OFFSET_VALUE = 1
    Overlap = FALSE
    NoWord = NoWord
INVARIANTS
    Lockstep
    PrintsMinimal
    StringsAreComplete
    AsIfSimpleArray
    OneOwner
    SetsAreSets
    FieldsOfOnePuzzle
    NothingStale
    EveryPuzzleLoaded
    SearchIsComplete
    FoundIsAccepted
    GuessworkIsRefused
    BucketExact
PROPERTIES
    MasterStopsOrIsDeserted
    NoStringSkipped
    StartSucceeds
    ImplementsOneTime
CHECK_DEADLOCK FALSE

SPECIFICATION SearchSpec
CONSTANTS
    hexValues <- MCHexValues
    Zero = "0"
    PuzzleLength = 3
    Hashes <- MCHashes
    Strengths = {4}
    MIN_ITERATIONS = 2
    MAX_ITERATIONS = 3
INVARIANT
    LimitCoversRounds
CHECK_DEADLOCK FALSE

SPECIFICATION RaceSpec
CONSTANTS
    Clients = {c1, c2}
    Threads = {0, 1}
    easy = easy
    edge = edge
    hard = hard
    Puzzles = {easy, hard}
    RoundsOf <- MCRoundsOf
    MIN_ITERATIONS = 2
    MAX_ITERATIONS = 3
    MAX_RETRY = 0
    OneTime = FALSE
    Arrival = "any"
    MayVanish = {}
    NoSocket = NoSocket
    NoData = NoData
    Wrong = Wrong
    Unparsable = Unparsable
    MAX_GIVEN = 2
    MAX_QUEUED = 4
    BACKLOG = 2
    Limits = {1, 2}
    PromptStart = FALSE
    Callers = {t1, t2}
    w1 = w1
    w2 = w2
    w3 = w3
    BucketWords = {w1, w2, w3}
    Size = 2
    Home <- MCHome
    COEFFICIENT = 3
    OFFSET_VALUE = 1
    Overlap = TRUE
    NoWord = NoWord
SYMMETRY AnyClient
INVARIANTS
    ServedAfterPaid
    NoForgedWord
CHECK_DEADLOCK FALSE

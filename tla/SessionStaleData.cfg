SPECIFICATION Spec
CONSTANTS
    Clients = {c1}
    Threads = {t1}
    easy = easy
    edge = edge
    hard = hard
    Puzzles = {easy, hard}
    RoundsOf <- MCRoundsOf
    MIN_ITERATIONS = 2
    MAX_ITERATIONS = 3
    MAX_RETRY = 3
    OneTime = TRUE
    Arrival = "any"
    MayVanish = {}
    NoSocket = NoSocket
    NoData = NoData
    Wrong = Wrong
    Unparsable = Unparsable
INVARIANTS
    EveryAnswerIsCollected
CHECK_DEADLOCK FALSE

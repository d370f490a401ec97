SPECIFICATION Spec
CONSTANTS
    Clients = {c1, c2}
    Threads = {t1, t2}
    easy = easy
    edge = edge
    hard = hard
    Puzzles = {easy}
    RoundsOf <- MCRoundsOf
    MIN_ITERATIONS = 2
    MAX_ITERATIONS = 3
    MAX_RETRY = 3
    OneTime = TRUE
    Arrival = "single"
    MayVanish = {}
    NoSocket = NoSocket
    NoData = NoData
    Wrong = Wrong
    Unparsable = Unparsable
INVARIANTS
    CorrectAnswersAccepted
CHECK_DEADLOCK FALSE

SPECIFICATION FairSpec
CONSTANTS
    Clients = {c1, c2}
    Threads = {t1, t2}
    easy = easy
    edge = edge
    hard = hard
    Puzzles = {easy, edge, hard}
    RoundsOf <- MCRoundsOf
    MIN_ITERATIONS = 2
    MAX_ITERATIONS = 3
    MAX_RETRY = 3
    OneTime = FALSE
    Arrival = "single"
    MayVanish = {}
    NoSocket = NoSocket
    NoData = NoData
    Wrong = Wrong
    Unparsable = Unparsable
INVARIANTS
    TypeOK
    RetryLimit
    ServerSurvives
PROPERTIES
    EveryClientFinishes
    SolverIsServed
CHECK_DEADLOCK FALSE

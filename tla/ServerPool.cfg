SPECIFICATION FullFairSpec
CONSTANTS
    Clients = {c1, c2, c3}
    Threads = {0, 1}
    easy = easy
    edge = edge
    hard = hard
    Puzzles = {easy, hard}
    RoundsOf <- MCRoundsOf
    MIN_ITERATIONS = 2
    MAX_ITERATIONS = 3
    MAX_RETRY = 0
    OneTime = FALSE
    Arrival = "single"
    MayVanish = {}
    NoSocket = NoSocket
    NoData = NoData
    Wrong = Wrong
    Unparsable = Unparsable
    MAX_GIVEN = 2
    MAX_QUEUED = 3
    BACKLOG = 2
    Limits = {2, 3}
    PromptStart = TRUE
INVARIANTS
    OwnSocket
    DeathIsExhaustion
PROPERTIES
    EveryClientStops
CHECK_DEADLOCK FALSE

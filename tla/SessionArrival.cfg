SPECIFICATION FairSpec
CONSTANTS
    Clients = {c1, c2}
    Threads = {t1, t2}
    easy = easy
    edge = edge
    hard = hard
    Puzzles = {easy, hard}
    RoundsOf <- MCRoundsOf
    MIN_ITERATIONS = 2
    MAX_ITERATIONS = 3
    MAX_RETRY = 1
    OneTime = TRUE
    Arrival = "any"
    MayVanish = {c1}
    NoSocket = NoSocket
    NoData = NoData
    Wrong = Wrong
    Unparsable = Unparsable
INVARIANTS
    NoStandoff
    TurnTaking
    AnswerMatchesPuzzle
    BucketOutstanding
    ServedAfterAccepted
PROPERTIES
    EveryClientStops
    ImplementsGate
CHECK_DEADLOCK FALSE

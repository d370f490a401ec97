SPECIFICATION BucketSpec
CONSTANTS
    Callers = {t1, t2}
    w1 = w1
    w2 = w2
    w3 = w3
    BucketWords = {w1, w2, w3}
    Size = 2
    Home <- MCHome
    COEFFICIENT = 3
    OFFSET_VALUE = 1
    Overlap = TRUE
    NoWord = NoWord
INVARIANTS
    BucketExact

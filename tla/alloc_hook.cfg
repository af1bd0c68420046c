CONSTANTS
    Threads = {t1, t2}
    Blocks = {b1, b2}
    Chunks = {c1, c2}
    MaxCalls = 2
    MaxFailed = 1
    Null = Null
    Junk = Junk
SPECIFICATION Spec
SYMMETRY Symmetry
INVARIANTS DepthBalanced AnswerReachesBlock ChunksAccounted
CHECK_DEADLOCK FALSE

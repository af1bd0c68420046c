CONSTANTS
    Threads = {t1, t2}
    Keys = {k1}
    Sizes = {1}
    SMALL_MEMORY_CHUNK = 2
    LARGE_MEMORY_CHUNK = 4
    S2T_MAP_SIZE = 2
    CheckMax = 2
    DecayInterval = 4
    Ratio = 2
    IntWidth = 2
    Chunks = {c1, c2}
SPECIFICATION Spec
SYMMETRY Symmetry
INVARIANTS IntervalPositive AnswerHasMajority

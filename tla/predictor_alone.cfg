CONSTANTS
    Threads = {t1}
    Keys = {k1}
    Sizes = {1, 3, 4}
    SMALL_MEMORY_CHUNK = 2
    LARGE_MEMORY_CHUNK = 4
    S2T_MAP_SIZE = 2
    CheckMax = 2
    DecayInterval = 6
    Ratio = 2
    IntWidth = 4
    Chunks = {c1}
SPECIFICATION AskingSpec
PROPERTY Rechecked

CONSTANTS
    t1 = t1
    t2 = t2
    s1 = s1
    s2 = s2
    Threads = {t1, t2}
    NoThread = NoThread
    Samples = {s1, s2}
    Chunk = Chunk
    Touches <- TouchesApart
    BaseCycle = 1
    HookedIO = FALSE
    MaxRevives = 2
SPECIFICATION Spec
INVARIANT OneRevivePerChunk
CHECK_DEADLOCK FALSE

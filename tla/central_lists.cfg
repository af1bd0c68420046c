CONSTANTS
    Threads = {t1, t2}
    NoThread = NoThread
    Spans = {s1, s2, s3}
    ObjectsPerSpan = 2
    num_objects_to_move = 2
    Lists <- ListsDefault
    CacheSize <- CacheSizes
    MaxCacheSize <- MaxCacheSizes
SPECIFICATION Spec
SYMMETRY Symmetry
INVARIANTS ObjectsAccounted ListsAgree SlotsMoved NeverTwoLocks

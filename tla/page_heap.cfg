CONSTANTS
    NPages = 4
    MixedPages = 3
    kMaxPages = 2
    kMinSystemAlloc = 2
    MaxDrift = 0
    CoalesceInterval = 2
    Lengths = {1, 2}
    MixedLengths = {1}
    class_to_pages <- ClassToPages
    Programs = {TRUE, FALSE}
SPECIFICATION Spec
INVARIANTS SpansTile StatsAgree LoopEnds Coalesced CachedClassFresh

CONSTANTS
    PAGE_SIZE = 4
    SMALL_MEMORY_CHUNK = 8
    Starts = {4, 5, 6, 7}
    ChunkSizes = {8, 11, 14, 19, 25}
    Lengths = {1, 3, 4, 6, 9}
SPECIFICATION Spec
INVARIANTS SamplesInChunk SamplesDistinct AlignedBufferOpen

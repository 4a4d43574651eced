SPECIFICATION BufferSpec
CONSTANTS
    Origins = {o1, o2}
    MaxBatchRecords = 3
    MaxBatchAge = 1
    MaxChunk = 4
    MaxTicket = 3
    MaxTime = 2
SYMMETRY OriginSymmetry
INVARIANT
    ExpiredOldestFirst

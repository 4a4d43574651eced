SPECIFICATION BufferSpec
CONSTANTS
    Origins = {o1, o2}
    MaxBatchRecords = 3
    MaxBatchAge = 1
    MaxChunk = 4
    MaxTicket = 4
    MaxTime = 2
SYMMETRY OriginSymmetry
INVARIANTS
    BufferTypeOK
    SegmentsMatchRecords
    CompleteMarksLastRecord
    FifoPerOrigin
    DeadlineOfOldest

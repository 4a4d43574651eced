SPECIFICATION Spec
CONSTANTS
    r1 = r1
    r2 = r2
    o1 = o1
    o2 = o2
    Requests = {r1, r2}
    Work <- TwoRequests
    Poison <- SecondIsPoison
    Actors <- PipelineActors
    Durability = "commit"
    Faults = {"busy", "fatal", "writer exits", "batcher exits"}
    IngestCapacity = 2
    CommandCapacity = 1
    MaxBatchRecords = 2
    MaxTransientRetries = 1
    MaxFlushes = 1
    MaxTicket = 3
    MaxRecords = 2
INVARIANTS
    PipelineTypeOK
    ReservationHolds
    OrderIsKept
    LedgerMatchesTable
    NoTicketLeak
PROPERTIES
    ImplementsContract
    ImplementsLedger

SPECIFICATION Spec
CONSTANTS
    r1 = r1
    r2 = r2
    o1 = o1
    o2 = o2
    Requests = {r1, r2}
    Work <- TwoRequests
    Poison <- SecondIsPoison
    Actors <- PipelineActors
    Durability = "commit"
    Faults = {"batcher panics"}
    IngestCapacity = 2
    CommandCapacity = 1
    MaxBatchRecords = 2
    MaxTransientRetries = 1
    MaxFlushes = 0
    MaxTicket = 3
    MaxRecords = 2
INVARIANT
    UnavailableMeansNothingDurable

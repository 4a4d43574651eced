SPECIFICATION FairAckSpec
CONSTANTS
    MaxTicket = 2
    MaxRecords = 1
    Actors = {a1, a2}
    Tasks = {w1}
PROPERTIES
    CloseReleasesWaiters

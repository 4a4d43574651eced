SPECIFICATION AckSpec
CONSTANTS
    MaxTicket = 3
    MaxRecords = 1
    Actors = {a1, a2}
    Tasks = {w1}
SYMMETRY ActorSymmetry
INVARIANTS
    AckTypeOK
    WatermarkExact
    PublishedSound
    ReleasedAfterEveryPredecessor
    AnswerStaysTrue
    OutstandingExact
PROPERTIES
    SettledIsFinal
    ImplementsBook

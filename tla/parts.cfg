SPECIFICATION PartsSpec
CONSTANTS
    Requests = {r1, r2, r3}
    StreamCap = 2
    MapCap = 2
    Explored = {"admission", "process", "dog", "quota dog", "keeper", "rows", "shared rows", "copies", "pruned", "restore", "names", "schema", "vault", "reloader", "walk", "mapping", "config"}
INVARIANTS
    PartsTypeOK
    ExportsAreBounded
    OutcomeIsTrue
    HaltNeedsPause
    MappingIsFaithful
PROPERTIES
    MaintenanceIsJustified
    BackupsAreSound
    StartupIsSound
    TokensAreCurrent

SPECIFICATION PartsSpec
CONSTANTS
    Procs = {s1, s2}
    Latest <- SameBinary
    Overlap = TRUE
    MaxCrashes = 2
    Explored = {"schema", "process", "monitored", "dog", "reporting", "leaking", "keeper", "rows", "crashing rows", "copies", "vault", "exports", "timer", "waiters"}
INVARIANTS
    MigrationsRunOnce
PROPERTIES
    FaultsEndService
    MaintenanceHappens
    WaitsEnd

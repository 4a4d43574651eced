SPECIFICATION RestartingSpec
CONSTANTS
    Procs = {s1, s2}
    Latest <- SameBinary
    Overlap = TRUE
    MaxCrashes = 2
    Explored = {"crashing rows"}
PROPERTIES
    CrashedPruneResumes

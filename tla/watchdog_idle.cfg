SPECIFICATION PartsSpec
CONSTANTS
    Requests = {r1, r2, r3}
    StreamCap = 2
    MapCap = 2
    Explored = {"dog"}
INVARIANTS
    HaltMeansFault

SPECIFICATION ModesSpec
CONSTANTS
    r1 = r1
    r2 = r2
    r3 = r3
    r4 = r4
    o1 = o1
    o2 = o2
INVARIANTS
    DrainLosesNothing
    AcknowledgedIsDurable
PROPERTIES
    EveryRequestAnswered
    ShutdownCompletes

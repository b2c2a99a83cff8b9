\* Two replicas, one delivery sent again and again, or three instants; three calls of ingest.
SPECIFICATION Spec
CONSTANTS
    Threads = {a, b}
    Specs <- MCSpecs
    Deliveries = {1}
    KeyOf <- SameKey
    Instants = {1, 2, 3}
    Window = 1
    Skew = 1
    TickSeconds = 1
    MaxCatchUp = 2
    MaxTime = 5
    MaxCalls = 3
    MaxCrashes = 1
    MaxFreezes = 1
SYMMETRY Symmetry
CONSTRAINT Focus
INVARIANTS
    TypeOK
    OneRunPerWindow
    NonceOnce
    DeadLetterReleased
    
CHECK_DEADLOCK FALSE

\* Two replicas, a TTL of two ticks and enough time for several failovers.
SPECIFICATION Spec
CONSTANTS
    Replicas = {r1, r2}
    TTL = 2
    MaxTime = 5
    MaxEpoch = 4
INVARIANTS
    TypeOK
    FenceExclusive
    FailoverBounded
PROPERTIES
    NoUsurpation
    ImplementsFencedLock

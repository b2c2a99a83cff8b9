\* Three runs of two tenants on one workload, two submissions at a time.
SPECIFICATION MCSpec
CONSTANTS
    t1 = t1
    t2 = t2
    w1 = w1
    Runs = {r1, r2, r3}
    Spenders = {r1, r2, r3}
    Profiles <- MCProfiles
    PerWorkloadLimit = 1
    PerTenantLimit = 2
    MaxQueueDepth = 2
    Costs = {1}
    PerRun = 1
    PerDay = 1
    TenantCap = 2
    MaxThreads = 2
    MaxOps = 2
    MaxReports = 2
SYMMETRY Symmetry
CONSTRAINT Focus
INVARIANTS
    TypeOK
    NoSlotLeak
    
    
    
    HaltBounded
CHECK_DEADLOCK FALSE

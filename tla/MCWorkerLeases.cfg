\* Two workers of capacity one, a run, and two requests that claim leases.
SPECIFICATION Spec
CONSTANTS
    Workers = {w1, w2}
    Runs = {run1}
    Claimers = {c1, c2}
    Capacity = 1
    MaxLeases = 3
    MaxOps = 3
    MaxReports = 2
SYMMETRY Symmetry
CONSTRAINT Unraced
INVARIANTS
    TypeOK
    SingleLease
    NewestFence
    CompletedOnce

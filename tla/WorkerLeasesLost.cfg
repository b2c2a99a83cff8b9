\* A leased run whose worker dies while no other worker is ready.
SPECIFICATION Spec
CONSTANTS
    Workers = {w1, w2}
    Runs = {run1}
    Claimers = {c1}
    Capacity = 1
    MaxLeases = 2
    MaxOps = 2
    MaxReports = 1
INVARIANT
    NoRunLost

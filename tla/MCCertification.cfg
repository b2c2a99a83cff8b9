SPECIFICATION Spec
CONSTANTS
    Callers = {c1, c2}
    MinRuns = 1
    Artifacts = {1, 2}
    MaxCalls = 3
    MaxVersions = 2
    MaxRuns = 1
    MaxAttestations = 4
    MaxQuarantines = 2
    MaxCrashes = 1
SYMMETRY Symmetry
CONSTRAINT Focus
INVARIANTS TypeOK QuarantineHolds 
CHECK_DEADLOCK FALSE

SPECIFICATION FairSpec
CONSTANTS
    c1 = c1
    c2 = c2
    d1 = d1
    d2 = d2
    Clients <- OneClient
    Drives <- TwoDrives
    MaxControls = 3
    MaxBoxes = 2
    MaxOps = 4
    MaxCrashes = 2
INVARIANTS
    SingleDriver
    NoSandboxLeak
PROPERTY
    CancelUnblocks
CHECK_DEADLOCK FALSE

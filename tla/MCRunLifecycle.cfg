SPECIFICATION Spec
CONSTANTS
    c1 = c1
    c2 = c2
    d1 = d1
    d2 = d2
    Clients <- TwoClients
    Drives <- TwoDrives
    MaxControls = 3
    MaxBoxes = 2
    MaxOps = 3
    MaxCrashes = 2
SYMMETRY Symmetry
INVARIANTS
    TypeOK
    StartedIsPersisted
    FanoutFollowsSave
PROPERTIES
    
    RecoveryKeepsTerminal
CHECK_DEADLOCK FALSE

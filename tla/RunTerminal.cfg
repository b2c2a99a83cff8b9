SPECIFICATION FairSpec
CONSTANTS
    c1 = c1
    c2 = c2
    d1 = d1
    d2 = d2
    Clients <- OneClient
    Drives <- TwoDrives
    MaxControls = 2
    MaxBoxes = 2
    MaxOps = 2
    MaxCrashes = 0
PROPERTY
    TerminalIsFinal
CHECK_DEADLOCK FALSE

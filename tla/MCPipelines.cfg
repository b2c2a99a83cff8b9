SPECIFICATION FairSpec
CONSTANTS
    Tickers = {t1}
    Requests = {r1}
    Specs <- MCSpecs
    Width = 2
    MaxChildren = 4
    MaxAsks = 2
    MaxRetries = 1
    MaxRefusals = 1
    MaxCrashes = 1
CONSTRAINT Focus
INVARIANTS TypeOK NoOrphan  
 
CHECK_DEADLOCK FALSE

SPECIFICATION Spec
CONSTANTS
    Scripts <- MCScripts
    Tools = {"drop", "mail", "fetch"}
    Escalating = {"drop", "mail"}
    Requests = {q1}
    Operators = {o1, o2}
    Window = 2
    MinCalls = 1
    OpenFor = 1
    MaxDrives = 3
    MaxCalls = 1
    MaxAsks = 2
    MaxOps = 3
    MaxTime = 1
    MaxCrashes = 1
SYMMETRY Symmetry
CONSTRAINT Focus
INVARIANTS TypeOK GrantCovers  
CHECK_DEADLOCK FALSE

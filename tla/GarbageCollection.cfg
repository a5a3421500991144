SPECIFICATION FairSpec
CONSTANTS
    NodeIds = {n1, n2}
    Versions = {v1}
    Callers = {w1, w2}
    Copies = 2
    MaxWrites = 2
    None = None
    Controllers = {c1, c2}
    Threads = {t1, t2}
    NoThread = NoThread
    MaxControls = 3
    MaxErrors = 1
INVARIANTS
    GcTypeOK
    
    StartTakesEffect
PROPERTIES
    StopReachesAll
    Unravels
CHECK_DEADLOCK FALSE

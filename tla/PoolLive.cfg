CONSTANTS
    Requests = {}
    Scoped = {g1, g2, g3}
    Closers = {k1}
    Clients = {c1, c2, c3}
    NoThread = NoThread
    NoClient = NoClient
    MaxSize = 2
    Started = TRUE
    MaxInits = 1
    MaxUses = 1
    MaxErrors = 2
SPECIFICATION FairSpec
INVARIANTS PoolBound ClientsUsable
PROPERTY Served
CHECK_DEADLOCK FALSE

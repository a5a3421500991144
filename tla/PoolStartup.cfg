CONSTANTS
    Requests = {r1, r2}
    Scoped = {g1}
    Closers = {}
    Clients = {c1, c2, c3}
    NoThread = NoThread
    NoClient = NoClient
    MaxSize = 1
    Started = FALSE
    MaxInits = 3
    MaxUses = 2
    MaxErrors = 1
SPECIFICATION Spec
INVARIANTS ClientsPerInit ClientsUsable
SYMMETRY Symmetry
CHECK_DEADLOCK FALSE

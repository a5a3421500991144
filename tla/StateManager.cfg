SPECIFICATION Spec
CONSTANTS
    Clients = {c1, c2}
    Limits = {1, 3}
    MaxSaves = 2
    MaxCalls = 2
    MaxFaults = 2
    None = None
SYMMETRY MCSymmetry
INVARIANTS
    TypeOK
    NewestFirst
    CopiesBounded
    MetaAgrees
CHECK_DEADLOCK FALSE

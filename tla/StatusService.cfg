SPECIFICATION Spec
CONSTANTS
    Pipelines = {p1, p2}
    Nodes = {n1, n2}
    Own = Own
    MaxCalls = 5
SYMMETRY MCSymmetry
INVARIANT ProgressAgrees
PROPERTIES
    TimesKept
    RaiseChangesNoStatus
CHECK_DEADLOCK FALSE

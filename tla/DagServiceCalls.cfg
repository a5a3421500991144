CONSTANTS
    NodeIds = {a, b, c}
    MaxDeps = 2
    MaxCalls = 3
SPECIFICATION DagSpec
INVARIANTS DagTypeOK OrderOfDeclared
SYMMETRY Symmetry
CHECK_DEADLOCK FALSE

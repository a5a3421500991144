CONSTANTS
    Nodes = {n1, n2, n3}
    Ids = {n1, n2, n3, x}
SPECIFICATION Spec
INVARIANTS OrderRespectsDeps OutcomeCorrect
CHECK_DEADLOCK FALSE

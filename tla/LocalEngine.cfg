SPECIFICATION Spec
CONSTANTS
    a = a
    b = b
    p1 = p1
    p2 = p2
    q = q
    t = t
    i1 = i1
    i2 = i2
    Pipelines = {p1, p2}
    Names = {a, b}
    Upstreams <- MCUpstreams
    Intervals = {i1, i2}
    Own <- MCOwn
    Defaults <- MCDefaults
    Tags <- MCTags
    Queries <- MCQueries
    Inputs <- MCInputs
    Overrides <- MCOverrides
    SaveLimit = 2
    MaxStamp = 3
    None = None
INVARIANTS
    
    NewestFirst
    FnRestored
    QueryOneRunBehind
PROPERTY CompleteResults
CHECK_DEADLOCK FALSE

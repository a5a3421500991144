SPECIFICATION Spec
CONSTANTS
    n1 = n1
    n2 = n2
    s1 = s1
    s2 = s2
    s3 = s3
    u1 = u1
    u2 = u2
    NodeIds <- MCNodeIds
    Strategies <- MCStrategies
    KnownStrategies <- MCKnown
    Urls <- MCUrls
    Requests <- MCRequests
    Statuses = {"RUNNING", "COMPLETED"}
    NoStatus = "NONE"
    NoRequest = NoRequest
    MaxCalls = 4
    MaxWaiting = 1
    MaxTimeouts = 1
INVARIANTS
    MapsInverse
    
PROPERTY ImplementsContainment
CHECK_DEADLOCK FALSE

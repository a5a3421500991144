SPECIFICATION FairSpec
CONSTANTS
    src = src
    mid = mid
    join = join
    Nodes = {src, mid, join}
    Upstreams <- MCUpstreams
    MaxItems = 1
    MaxStamp = 2
    MaxRuns = 2
    MaxErrors = 1
    None = None
INVARIANTS
    OrderedWithinRun
    SavedWasPublished
    OnlyChainsRun
PROPERTIES
    CatchesUp
    StopEnds
CHECK_DEADLOCK FALSE

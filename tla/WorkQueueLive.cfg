SPECIFICATION FairSpec
CONSTANTS
  n1 = n1
  n2 = n2
  n3 = n3
  Nodes = {n1, n2}
  Deps <- ChainDeps
  Rank <- ChainRank
  Schedulers = {s1, s2}
  Workers = {w1, w2}
  Results = {r1}
  NoNode = NoNode
  NoResult = NoResult
  InitialStates = {"NONE", "FAILED"}
  MaxRounds = 3
  MaxCrashes = 0
INVARIANT NoResultLost
PROPERTIES QueuedWorkRecorded ImplementsAbstract

SPECIFICATION Spec
CONSTANTS
  n1 = n1
  n2 = n2
  n3 = n3
  Nodes = {n1, n2, n3}
  Deps <- JoinDeps
  Rank <- JoinRank
  Schedulers = {s1, s2}
  Workers = {w1, w2}
  Results = {r1}
  NoNode = NoNode
  NoResult = NoResult
  InitialStates = {"NONE"}
  MaxRounds = 3
  MaxCrashes = 2
SYMMETRY Symmetry
INVARIANTS DependencyOrder NoSilentLoss ProcessingBounded

SPECIFICATION Spec
CONSTANTS
  Cores = {c1, c2}
  NumThreads = 3
  UserMaps = {m1, m2}
  NoMap = NoMap
SYMMETRY Symmetry
INVARIANTS
  TypeOK
  OneCorePerThread
  ArgsFromRpcOnly
  MapFollowsThread

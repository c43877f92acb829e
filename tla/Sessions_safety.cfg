SPECIFICATION Spec
CONSTANTS
  Threads = {t1, t2}
  NoThread = NoThread
  a = a
  b = b
  m = m
  Tas = {a, b, m}
  SingleInstance = {a, b}
  MultiSession = {a}
  KeepAlive = {b}
  Panicky = {m}
  ConcurrentSingle = FALSE
  Opens <- NestedOpens
  FreshIds = TRUE
  MaxSess = 3
  MaxCtx = 2
  MaxRecursion = 2
  MaxCalls = 2
SYMMETRY Symmetry
INVARIANTS
  RefsCounted
  OneCallPerSession
  OneCallPerTa
  SingleLockCounted
  ContextRefsCounted
  NoStaleContext
CHECK_DEADLOCK FALSE

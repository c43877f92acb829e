SPECIFICATION Spec
CONSTANTS
  Threads = {t1, t2}
  NoThread = NoThread
  a = a
  b = b
  m = m
  Tas = {a}
  SingleInstance = {a}
  MultiSession = {a}
  KeepAlive = {}
  Panicky = {}
  ConcurrentSingle = FALSE
  Opens = {}
  FreshIds = TRUE
  MaxSess = 2
  MaxCtx = 2
  MaxRecursion = 2
  MaxCalls = 2
SYMMETRY Symmetry
INVARIANT OneInstance
CHECK_DEADLOCK FALSE

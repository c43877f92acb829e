SPECIFICATION FairSpec
CONSTANTS
  Threads = {t1, t2}
  NoThread = NoThread
  a = a
  b = b
  m = m
  Tas = {a, b}
  SingleInstance = {a, b}
  MultiSession = {}
  KeepAlive = {}
  Panicky = {a, b}
  ConcurrentSingle = FALSE
  Opens <- ChainOpens
  FreshIds = TRUE
  MaxSess = 3
  MaxCtx = 2
  MaxRecursion = 2
  MaxCalls = 2
 
PROPERTIES
  
  CallsReturn
CHECK_DEADLOCK FALSE

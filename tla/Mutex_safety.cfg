SPECIFICATION Spec
CONSTANTS
  Threads = {t1, t2, t3}
  Condvars = {c1}
  NoCv = NoCv
  LossyNotif = TRUE
SYMMETRY Symmetry
INVARIANTS
  TypeOK
  StateCountsHolders
  NoLostWakeup
  QueueMatchesWaiters
  CondvarWaitsForSignal
PROPERTY ImplementsMonitor

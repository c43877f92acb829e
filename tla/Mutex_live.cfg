SPECIFICATION LiveSpec
CONSTANTS
  Threads = {t1, t2, t3}
  Condvars = {c1}
  NoCv = NoCv
  LossyNotif = FALSE
  MaxCalls = 5
PROPERTY WaitersAreServed
CHECK_DEADLOCK FALSE

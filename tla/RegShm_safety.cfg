SPECIFICATION FairSpec
CONSTANTS
  Threads = {t1, t2, t3}
  Cookies = {k1, k2}
  NoCookie = NoCookie
  CarefulNW = TRUE
INVARIANTS
  TypeOK
  RefsCounted
  NoUseAfterFree
  
  
  NoLostRelease
PROPERTY ReleaseReturns
CHECK_DEADLOCK FALSE

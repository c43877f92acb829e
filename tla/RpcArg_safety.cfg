SPECIFICATION Spec
CONSTANTS
  Threads = {t1, t2, t3}
  Buffers = {b1, b2, b3, b4, b5}
  NoBuf = NoBuf
  CacheUsers = {fs, i2c}
  KernelUsers = {i2c}
  BadFor = {fs}
SYMMETRY Symmetry
INVARIANTS TypeOK LentMatchesHeld  CargMatchesArg IdleDrained

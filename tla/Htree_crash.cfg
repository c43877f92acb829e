SPECIFICATION Spec
CONSTANTS
  MaxNodes = 4
  MaxWrites = 5
  MaxCounter = 4
  Lengths = {0, 1}
  SameLength = FALSE
  Lookups = {"hash", "counter"}
INVARIANT BlocksReadable
 
CHECK_DEADLOCK FALSE

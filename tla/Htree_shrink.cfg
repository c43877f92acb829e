SPECIFICATION Spec
CONSTANTS
  MaxNodes = 4
  MaxWrites = 4
  MaxCounter = 4
  Lengths = {4}
  SameLength = FALSE
  Lookups = {"hash"}
INVARIANT SavedOpens
CHECK_DEADLOCK FALSE

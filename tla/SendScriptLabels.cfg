SPECIFICATION Spec
CONSTANTS
  DataSize = 4
  MaxScript = 17
  MaxName = 0
INVARIANT EndIsLast
CHECK_DEADLOCK FALSE

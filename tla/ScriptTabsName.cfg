SPECIFICATION Spec
CONSTANTS
  Files = {f1, f2}
  Garbage = garbage
  MaxOpened = 2
  MaxPending = 1
INVARIANT NameIsFiles
CHECK_DEADLOCK FALSE

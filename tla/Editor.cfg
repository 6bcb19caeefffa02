SPECIFICATION MCSpec
CONSTANTS
  Files = {f1, f2}
  Garbage = garbage
  MaxOpened = 3
  MaxPending = 0
  Texts = {empty, t1}
  Empty = empty
  MaxEvents = 4
  MaxText = 5
INVARIANTS
  TypesOK
  Clobbers
  WheelGoesOn
CHECK_DEADLOCK FALSE

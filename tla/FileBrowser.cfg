SPECIFICATION BrowserSpec
CONSTANTS
  f1 = f1
  f2 = f2
  top = top
  sub = sub
  empty = empty
  Files = {f1, f2}
  Dirs = {top, sub, empty}
  Top = top
  Contents <- MCContents
  AnyIndex = {0, 1, 7}
  Garbage = garbage
  MaxOpened = 4
  MaxPending = 1
INVARIANTS
  BrowserTypeOK
  Aim
  DiesInEmpty
PROPERTIES
  CloseAims
CHECK_DEADLOCK FALSE

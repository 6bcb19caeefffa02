SPECIFICATION FairSpec
CONSTANTS
  Pins = {p0, p1}
  FirstPin = p0
  PinOrder <- MCOrder
  BadPin = bad
  BoardStates <- MCStates
  Flaky = TRUE
  MaxPlugs = 2
  MaxPresses = 2
  MaxReports = 0
INVARIANTS
  KeysInOrder
  Accounted
PROPERTY Refreshed
CHECK_DEADLOCK FALSE

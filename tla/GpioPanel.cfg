SPECIFICATION Spec
CONSTANTS
  Pins = {p0, p1}
  FirstPin = p0
  PinOrder <- MCOrder
  BadPin = bad
  BoardStates <- MCStates
  Flaky = TRUE
  MaxPlugs = 2
  MaxPresses = 1
  MaxReports = 1
INVARIANTS
  TypeOK
  PanelFollows
  Informed
CHECK_DEADLOCK FALSE

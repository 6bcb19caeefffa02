SPECIFICATION MCSpec
CONSTANTS
  DataSize = 3
  MaxScript = 13
  MaxName = 1
  Flaky = TRUE
  MaxPlugs = 2
  Room = 5
  VarHeader = 2
  SizeT = 16
  MaxCount = 3
INVARIANTS
  TypesOK
  Tiled
  HolesExplained
  InsidePacket
  StringsEnd
PROPERTIES
  SentInOrder
  ScriptArrives
CHECK_DEADLOCK FALSE

SPECIFICATION Spec
CONSTANTS
  Names = {a, b}
  Stub = stub
  NoName = noname
  Values = {v0, v1, v2}
  Zero = v0
  MaxRow = 2
  MaxVars = 2
  MaxPackets = 2
  LogLimit = 2
INVARIANTS
  TypeOK
  ValuesFollow
  OneCellEach
  RemarksLogged
PROPERTIES
  ReaderKept
CHECK_DEADLOCK FALSE

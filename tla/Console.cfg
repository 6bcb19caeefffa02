SPECIFICATION FairSpec
CONSTANTS
  Scripts = {s1}
  NoName = noname
  Stub = stub
  Endless = endless
  LuaStatus = {STOPPED, RUNNING}
  Stopped = STOPPED
  Buttons = {"LAUNCH_LUA_CORE"}
  Entries = {"GET_STATUS", "GET_ALL_GPIO"}
  MaxEvents = 2
INVARIANTS
  TypeOK
  NamesWhole
PROPERTIES
  StatusAnswered
  ScreenSettles
  ExitEnds
CHECK_DEADLOCK FALSE

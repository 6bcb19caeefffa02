SPECIFICATION MCSpec
CONSTANTS
  Handles = {h1, h2}
  NoHandle = null
  HotplugCapable = TRUE
  OpenMayFail = TRUE
  SubmitMayFail = TRUE
  Ports = 1
  MaxAttach = 2
  MaxInbox = 1
  MaxCommands = 1
INVARIANTS
  TypeOK
  HandleAnnounced
  NoPhantomConnection
  PumpAlive
  StaleNeedsUnplug
PROPERTIES
  GuiFollowsDevice
  HandleSticks
SYMMETRY HandleSymmetry
CHECK_DEADLOCK FALSE

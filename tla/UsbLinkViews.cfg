SPECIFICATION FairSpec
CONSTANTS
  Handles = {h1, h2, h3}
  NoHandle = null
  HotplugCapable = TRUE
  OpenMayFail = FALSE
  SubmitMayFail = FALSE
  Ports = 1
  MaxAttach = 2
  MaxInbox = 1
  MaxCommands = 0
INVARIANT LeakBound
PROPERTIES
  DeviceFollowsBus
  Converges
CHECK_DEADLOCK FALSE

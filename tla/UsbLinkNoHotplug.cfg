SPECIFICATION Spec
CONSTANTS
  Handles = {h1, h2}
  NoHandle = null
  HotplugCapable = FALSE
  OpenMayFail = TRUE
  SubmitMayFail = TRUE
  Ports = 1
  MaxAttach = 2
  MaxInbox = 1
  MaxCommands = 1
INVARIANT SurvivesPolling
CHECK_DEADLOCK FALSE

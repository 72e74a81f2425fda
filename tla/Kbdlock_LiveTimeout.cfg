SPECIFICATION FairSpec
CONSTANTS
  Callers = {}
  MaxTimeouts = 1
  MaxCrashes = 0
  MaxFailures = 0
  Hotkey = "off"
  Orphan = FALSE
  TrayUp = FALSE
PROPERTIES
  CallsReturn
  PhantomLockHeals
  StaleAnswersDrain
  IdleTimeoutUnlocks

SPECIFICATION Spec
CONSTANTS
  Callers = {}
  MaxTimeouts = 0
  MaxCrashes = 0
  MaxFailures = 0
  Hotkey = "off"
  Orphan = FALSE
  TrayUp = TRUE
PROPERTIES
  SyncUnlockSound

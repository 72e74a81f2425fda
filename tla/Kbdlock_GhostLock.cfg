SPECIFICATION Spec
CONSTANTS
  Callers = {"c1"}
  MaxTimeouts = 1
  MaxCrashes = 0
  MaxFailures = 0
  Hotkey = "off"
  Orphan = FALSE
  TrayUp = TRUE
PROPERTIES
  UnlockDisengages

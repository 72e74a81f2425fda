SPECIFICATION FairSpec
CONSTANTS
  Callers = {}
  MaxTimeouts = 0
  MaxCrashes = 2
  MaxFailures = 0
  Hotkey = "off"
  Orphan = FALSE
  TrayUp = TRUE
PROPERTIES
  WatchdogRevives

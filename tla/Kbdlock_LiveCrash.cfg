SPECIFICATION FairSpec
CONSTANTS
  Callers = {}
  MaxTimeouts = 0
  MaxCrashes = 1
  MaxFailures = 0
  Hotkey = "lock"
  Orphan = FALSE
  TrayUp = FALSE
INVARIANTS
  TrayShowsLock
PROPERTIES
  CallsReturn
  PhantomLockHeals
  WatchdogRevives

SPECIFICATION Spec
CONSTANTS
  Callers = {"c1"}
  MaxTimeouts = 1
  MaxCrashes = 1
  MaxFailures = 1
  Hotkey = "toggle"
  Orphan = TRUE
  TrayUp = TRUE
INVARIANTS
  TypeOK
  StateAgrees
  ClientIsCurrent
  RepliesMatchRequests
  AnswersOwed
  LockHasCombo
  NoWaitCycle
  LockHasTimeLimit
  WatchdogKeepsClient
PROPERTIES
  ImplementsLockService
  RestartExcludesCommands

SPECIFICATION Spec
CONSTANTS
  Keys = {"CTRL", "SHIFT", "ALT", "F12"}
  HeartbeatTicks = 2
  EscTicks = 2
  MaxReturns = 1
  MaxComboKeys = 2
  Combos <- OneCombo
PROPERTIES
  EmergencyUnlocks

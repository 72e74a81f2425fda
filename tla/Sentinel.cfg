SPECIFICATION FairSpec
CONSTANTS
  Keys = {"CTRL", "ESC"}
  HeartbeatTicks = 2
  EscTicks = 1
  MaxReturns = 1
  MaxComboKeys = 3
  Combos <- TwoCombos
INVARIANTS
  TypeOK
  HeartbeatBound
  BitmapSound
PROPERTIES
  UnlockIntended
  FailOpen
  EscHoldUnlocks
  ImplementsLease

SPECIFICATION Spec
CONSTANTS
  Trays = {"t1", "t2"}
  MaxFaults = 0
INVARIANT StopEndsSentinel

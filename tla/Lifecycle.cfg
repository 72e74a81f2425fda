SPECIFICATION FairSpec
CONSTANTS
  Trays = {"t1", "t2"}
  MaxFaults = 1
INVARIANTS
  TypeOK
  OneController
  KillHitsStopped
  FailedStartEnds
  StopEndsOwnSentinel
PROPERTIES
  StopEnds
  CliStopEnds

SPECIFICATION Spec
CONSTANTS
  Absent = Absent
  Empty = Empty
  Torn = Torn
  MaxBuild = 3
INVARIANTS
  TypeOK
  UpgradeNotBlocked
PROPERTIES
  LaunchedIsEmbedded

SPECIFICATION Spec
CONSTANTS
  Absent = Absent
  Empty = Empty
  Torn = Torn
  Procs = {p1, p2, p3}
  Keys = {combo, esc}
  Checked = {combo}
SYMMETRY Symmetry
INVARIANTS
  TypeOK
PROPERTIES
  SaveInstallsItsOwn
  OnlyResetForgets

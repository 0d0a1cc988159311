SPECIFICATION Spec
CONSTANTS
  Device = {d1, d2}
  Col = {c1, c2}
  MaxStamp = 5
  MaxDeletes = 2
SYMMETRY Symmetry
INVARIANTS
  NewestDecides
  SameFilesSameRowsWithoutDeletes
CHECK_DEADLOCK FALSE

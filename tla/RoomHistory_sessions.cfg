SPECIFICATION Spec
CONSTANTS
  Room = {r1, r2}
  NoRoom = NoRoom
  Web = {s1, s2}
  Worker = {w1}
  MaxTime = 4
SYMMETRY Symmetry
INVARIANTS
  OpenEntryIsRoom
PROPERTIES
  PastIsFixed
  FreshKeepsOneRoom
CHECK_DEADLOCK FALSE

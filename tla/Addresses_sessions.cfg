CONSTANTS
  s1 = s1
  s2 = s2
  a1 = a1
  a2 = a2
  a3 = a3
  a4 = a4
  r1 = r1
  r2 = r2
  r3 = r3
  u1 = u1
  u2 = u2
  u3 = u3
  n1 = n1
  n2 = n2
  n3 = n3
  va = va
  vb = vb
  vc = vc
  o1 = o1
  None = None
  Session = {s1, s2}
  Ids <- IdsDef
  First <- FirstDef
  Number = {n1, n2, n3}
  Value = {va, vb, vc}
  Vo = {o1}
  MaxRequests = 3
SYMMETRY Sessions
SPECIFICATION Spec
INVARIANTS
  AddressInv
PROPERTIES
  OrphansAreSwept
  FreshKeepsRooms
CHECK_DEADLOCK FALSE

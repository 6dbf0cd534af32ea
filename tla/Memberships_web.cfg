SPECIFICATION MemberSpec
CONSTANTS
  NegInf = 0
  PosInf = 4
  Admin = {a1, a2}
  Grant <- FewGrants
  Edit <- FewEdits
  MaxRows = 3
  None = None
INVARIANTS
  MembershipInv
  IntervalsDenote
PROPERTIES
  RequestsAreExact
SYMMETRY Admins
CHECK_DEADLOCK FALSE

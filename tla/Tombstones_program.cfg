SPECIFICATION Spec
CONSTANTS
  User = {u1, u2, u3}
  Account = {a1, a2}
  Login = {l1, l2, l3}
  Web = {w1, w2}
  MaxUid = 4
  AdoptOrphans = FALSE
  Null = Null
INVARIANTS
  TombstonesCover
  NoLoginTwice
PROPERTIES
  TombstonesMonotonous
SYMMETRY Ids
CHECK_DEADLOCK FALSE

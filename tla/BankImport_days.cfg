SPECIFICATION BankSpec
CONSTANTS
  Kind = {k1}
  Session = {s1, s2}
  Null = Null
  MaxDay = 3
  MaxCopies = 2
SYMMETRY Symmetry
INVARIANTS
  NothingMissed
PROPERTIES
  FreshImportsOnce
CHECK_DEADLOCK FALSE

CONSTANTS
  None = None
  Open = Open
  LastDay = 5
  MaxSplits = 3
  MaxFees = 2
  MaxEnds = 2
  Grace = 2
  FeeForm <- FeeFormDef
SPECIFICATION Spec
PROPERTIES
  NotBlockedEarly
  DebtorsAreWarned
  EndsAtFinalDeadline
CHECK_DEADLOCK FALSE

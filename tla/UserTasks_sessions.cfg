SPECIFICATION FairSpec
CONSTANTS
  r1 = r1
  r2 = r2
  Room = {r1, r2}
  NoRoom = NoRoom
  None = None
  Task = {t1, t2}
  User = {u1}
  Worker = {w1}
  Admin = {a1, a2}
  Jobs <- JobsDef
  MaxTime = 1
  MaxRequests = 3
  MaxCrashes = 1
PROPERTIES
  LifeSpec
  SettledIsFinal
  RunsAreSerial
  DueTaskIsProcessed
CHECK_DEADLOCK FALSE

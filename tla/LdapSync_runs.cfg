SPECIFICATION FairSpec
CONSTANTS
  u1 = u1
  User = {u1}
  Group = {"member", "blocked"}
  Exported = {"network_access"}
  Required = "mail"
  WithAccount = {u1}
  FirstGrants <- MCFirstGrants
  None = None
  MaxPassword = 1
  MaxChanges = 4
  MaxFaults = 1
PROPERTIES
  SuspendedStayOut
  CleanRunExports
  ExportConverges
CHECK_DEADLOCK FALSE

CONSTANTS
  ada = ada
  bob = bob
  User = {ada, bob}
  Session = {1, 2}
  Worker = {"w"}
  Null = Null
  Never = Never
  LastYear = 2
  FirstUsers <- FirstUsersDef
  MaxRetries = 1
  MaxTasks = 2
  MaxChanges = 1
SPECIFICATION FairSpec
INVARIANTS
  MailInv
PROPERTIES
  EveryTaskEnds
  ScrubbingSparesMembers
CHECK_DEADLOCK FALSE

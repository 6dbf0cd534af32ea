CONSTANTS
  na = na
  nb = nb
  la = la
  lb = lb
  ea = ea
  eA = eA
  eb = eb
  pa = pa
  r1 = r1
  q1 = q1
  q2 = q2
  u1 = u1
  u2 = u2
  u3 = u3
  None = None
  Session = {1, 2}
  Ids <- IdsDef
  Application <- ApplicationDef
  Tenancy <- TenancyDef
  FirstUsers <- FirstUsersDef
  Lower <- LowerDef
  MaxRequests = 4
SPECIFICATION RequestsSpec
PROPERTIES
  ConfirmedIsProven
  RequestsKeepOrder
CHECK_DEADLOCK FALSE

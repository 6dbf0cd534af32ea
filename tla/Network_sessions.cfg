CONSTANTS
  ra = ra
  rb = rb
  rx = rx
  ada = ada
  bob = bob
  root = root
  m1 = m1
  m2 = m2
  na = na
  nb = nb
  h1 = h1
  h2 = h2
  hw = hw
  i1 = i1
  i2 = i2
  i3 = i3
  h3 = h3
  c3 = c3
  c1 = c1
  c2 = c2
  pa = pa
  pb = pb
  pc = pc
  qa = qa
  qc = qc
  qb = qb
  n1 = n1
  n2 = n2
  ext = ext
  s1 = s1
  s2 = s2
  acc = acc
  vio = vio
  blk = blk
  Unauth = unauth
  Grants <- GrantsDef
  Radius <- RadiusDef
  Config <- ConfigDef
  Room = {ra, rb, rx}
  User = {ada, bob}
  Session = {s1, s2}
  Mac = {m1, m2}
  PortName = {n1, n2}
  Root = root
  Subnet = {na, nb}
  Usable <- UsableDef
  Ids <- IdsDef
  FirstDbs <- FirstDbsDef
  None = None
  MaxMpsks = 1
  MaxRequests = 2
SPECIFICATION Spec
INVARIANTS
  NetworkInv
PROPERTIES
  HostsKeepFitting
  PanelsHold
  WithinLimits
  
SYMMETRY Sessions
CHECK_DEADLOCK FALSE

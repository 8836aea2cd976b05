SPECIFICATION FairSpec
CONSTANTS
  p1 = p1
  p2 = p2
  m1 = m1
  m2 = m2
  z1 = z1
  Pods = {p1, p2}
  Mongos = {m1, m2, z1}
  PodOf <- MCPodOf
  Lazy = {z1}
  Servers = {a1, a2}
  Sticky = m1
  Lsids = {l1}
  Cursors = {k1}
  Workloads <- MCWorkloads
  NoServer = NoServer
  NoConn = NoConn
  NoSession = NoSession
  NoRequest = NoRequest
INVARIANTS TypeOK 
PROPERTIES NeverWedged

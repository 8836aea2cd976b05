SPECIFICATION Spec
CONSTANTS
  Requests = {r1, r2}
  Lsids = {l1}
  Objs = {o1, o2}
  Mongos = {app}
  Addrs = {a1}
  Handles = {h1, h2, h3}
  PoolSize = 2
  CursorIds = {}
  Kinds = {"plain", "start", "statement", "commit", "abort", "end"}
  MaxRetries = 1
  SerialSessions = TRUE
  NoServer = NoServer
  NoConn = NoConn
  NoObj = NoObj
  NoLsid = NoLsid
  NoCursor = NoCursor
  NoMongo = NoMongo
SYMMETRY Symmetry
PROPERTY LeaksOnlyByRefusalOrCleanup
INVARIANTS TypeOK IInv PinnedStaysCheckedOut BoundarySentOnce

SPECIFICATION Spec
CONSTANTS
  Requests = {r1, r2}
  Lsids = {l1, l2}
  Objs = {o1, o2}
  Mongos = {app}
  Addrs = {a1, a2}
  Handles = {h1, h2}
  PoolSize = 2
  CursorIds = {}
  Kinds = {"start", "statement", "commit"}
  MaxRetries = 0
  SerialSessions = TRUE
  NoServer = NoServer
  NoConn = NoConn
  NoObj = NoObj
  NoLsid = NoLsid
  NoCursor = NoCursor
  NoMongo = NoMongo
SYMMETRY Symmetry
INVARIANTS ExclusiveUse SentOnPinnedConnection

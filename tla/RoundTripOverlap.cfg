SPECIFICATION Spec
CONSTANTS
  Requests = {r1, r2}
  Lsids = {l1}
  Objs = {o1, o2, o3}
  Mongos = {app}
  Addrs = {a1}
  Handles = {h1, h2}
  PoolSize = 2
  CursorIds = {}
  Kinds = {"start", "commit"}
  MaxRetries = 1
  SerialSessions = FALSE
  NoServer = NoServer
  NoConn = NoConn
  NoObj = NoObj
  NoLsid = NoLsid
  NoCursor = NoCursor
  NoMongo = NoMongo
SYMMETRY Symmetry
INVARIANT OneEnder

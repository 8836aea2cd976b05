SPECIFICATION FairSpec
CONSTANTS
  Requests = {r1, r2}
  Lsids = {l1}
  Objs = {o1}
  Mongos = {app}
  Addrs = {a1}
  Handles = {h1, h2, h3}
  PoolSize = 3
  CursorIds = {k1}
  Kinds = {"unack", "find", "getMore"}
  MaxRetries = 1
  SerialSessions = TRUE
  NoServer = NoServer
  NoConn = NoConn
  NoObj = NoObj
  NoLsid = NoLsid
  NoCursor = NoCursor
  NoMongo = NoMongo
INVARIANTS NoConnectionLeak QuietAfterClose
PROPERTIES EveryRequestReturns CloseCompletes

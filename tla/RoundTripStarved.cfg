SPECIFICATION FairSpec
CONSTANTS
  Requests = {r1, r2}
  Lsids = {}
  Objs = {}
  Mongos = {app}
  Addrs = {a1}
  Handles = {h1, h2}
  PoolSize = 2
  CursorIds = {}
  Kinds = {"plain"}
  MaxRetries = 1
  SerialSessions = TRUE
  NoServer = NoServer
  NoConn = NoConn
  NoObj = NoObj
  NoLsid = NoLsid
  NoCursor = NoCursor
  NoMongo = NoMongo
PROPERTY EveryRequestReturns

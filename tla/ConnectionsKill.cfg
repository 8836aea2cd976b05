SPECIFICATION FairSpec
CONSTANTS
  Clients = {c1, c2}
  Dbs = {d1, d2}
  DefaultDb = default
  Slots = {s1}
  Mongos = {1}
  Txns = {t1}
  Modes = {"session"}
  MaxClientConn = 0
  Routes = {star}
  RouteOf <- WildcardRoute
  Kinds = {"plain"}
  MaxFailures = 1
  MaxSignals = 2
  NoMongo = NoMongo
  NoPool = NoPool
  NoConn = NoConn
  NoTxn = NoTxn
  NoDb = NoDb
PROPERTIES KillEndsAll ShutdownCompletes
INVARIANT CurrentClientTracked

SPECIFICATION Spec
CONSTANTS
  Clients = {c1, c2}
  Dbs = {d1, d2}
  DefaultDb = default
  Slots = {s1, s2}
  Mongos = {1, 2}
  Txns = {t1, t2}
  Modes = {"session", "transaction", "statement"}
  MaxClientConn = 1
  Routes = {star}
  RouteOf <- WildcardRoute
  Kinds = {"plain", "statement", "commit"}
  MaxFailures = 0
  MaxSignals = 0
  NoMongo = NoMongo
  NoPool = NoPool
  NoConn = NoConn
  NoTxn = NoTxn
  NoDb = NoDb
SYMMETRY Symmetry
INVARIANTS TypeOK CountedAndHeld ClientLimit OneClientPerClear

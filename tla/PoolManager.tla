----------------------------- MODULE PoolManager -----------------------------
(***************************************************************************)
(* pool.Manager (pool/pool.go).  The manager keeps one ConnectionPool per  *)
(* database, made for the first request that needs it and never replaced,  *)
(* and one ClientConnection per registered client.  A PooledConnection     *)
(* wraps the pool's Mongo client; what the pool keeps of it is only the    *)
(* count of connections in use.  Each method is one step: its critical     *)
(* sections touch either the caller's own ClientConnection or a map entry  *)
(* that is re-checked under the lock.                                      *)
(***************************************************************************)
EXTENDS Naturals, FiniteSets

CONSTANTS Clients,        \* client connections of the proxy (clientID)
          Dbs,            \* database names requests carry
          DefaultDb,      \* "default", the database of the first registration
          Slots,          \* tell the PooledConnection objects of a client apart
          Mongos,         \* *mongo.Mongo clients
          Txns,           \* transaction ids
          Modes,          \* the pool_mode settings considered
          MaxClientConn,  \* max_client_conn, 0 for no limit
          NoMongo, NoPool, NoConn, NoTxn, NoDb

\* *PooledConnection objects, by the client they were made for
ConnIds == Clients \X Slots

VARIABLES mode,     \* Manager.defaultMode
          pools,    \* Manager.pools: database -> the pool's Mongo client
          clients,  \* Manager.activeClients: client -> ClientConnection
          conns,    \* the PooledConnection objects
          active    \* database -> PoolStats.ActiveConnections

poolVars == <<mode, pools, clients, conns, active>>

\* An unregistered client has db = NoDb
Unregistered == [db |-> NoDb, assigned |-> NoConn, txnConn |-> NoConn]

Registered(c) == clients[c].db # NoDb

PoolInit ==
  /\ mode \in Modes
  /\ pools = [d \in Dbs |-> NoPool]
  /\ clients = [c \in Clients |-> Unregistered]
  /\ conns = [k \in ConnIds |-> [pool |-> NoDb, mongo |-> NoMongo,
                                 inUse |-> FALSE, txn |-> NoTxn]]
  /\ active = [d \in Dbs |-> 0]

Registrations == [db : Dbs \cup {DefaultDb, NoDb}, assigned : ConnIds \cup {NoConn},
                  txnConn : ConnIds \cup {NoConn}]

PooledConnections == [pool : Dbs \cup {NoDb}, mongo : Mongos \cup {NoMongo},
                      inUse : BOOLEAN, txn : Txns \cup {NoTxn}]

PoolTypeOK ==
  /\ mode \in {"session", "transaction", "statement"}
  /\ pools \in [Dbs -> Mongos \cup {NoMongo, NoPool}]
  /\ clients \in [Clients -> Registrations]
  /\ conns \in [ConnIds -> PooledConnections]
  /\ active \in [Dbs -> Nat]

-----------------------------------------------------------------------------
(* ConnectionPool *)

MutPoolClient(d, m) == pools[d]

\* GetPool with the Mongo client m: the pool that is there wins over m
PoolClient(d, m) == IF pools[d] = NoPool THEN m ELSE pools[d]

GetPool(d, m) == pools' = [pools EXCEPT ![d] = PoolClient(d, m)]

\* The objects and the counts after Return on each of K by its own pool
ReturnObjects(K) ==
  [k \in ConnIds |-> IF k \in K THEN [conns[k] EXCEPT !.inUse = FALSE, !.txn = NoTxn]
                                ELSE conns[k]]

Decremented(n, by) == IF n < by THEN 0 ELSE n - by

ReturnCount(K) ==
  [d \in Dbs |-> Decremented(active[d], Cardinality({k \in K : conns[k].pool = d}))]

Return(K) == conns' = ReturnObjects(K) /\ active' = ReturnCount(K)

-----------------------------------------------------------------------------
(* Manager *)

ClientCount == Cardinality({c \in Clients : Registered(c)})

MutMayRegister(c) ==
  MaxClientConn = 0 \/ Registered(c) \/ ClientCount <= MaxClientConn

\* RegisterClient refuses a new client at the limit
MayRegister(c) ==
  MaxClientConn = 0 \/ Registered(c) \/ ClientCount < MaxClientConn

\* A client that is registered keeps the registration it has
RegisterClient(c, d) ==
  clients' = IF Registered(c) THEN clients
             ELSE [clients EXCEPT ![c] = [Unregistered EXCEPT !.db = d]]

Kept(c) == {clients[c].assigned, clients[c].txnConn} \ {NoConn}

\* UnregisterClient gives back what the client keeps; nothing for a stranger
UnregisterClient(c) ==
  /\ Return(Kept(c))
  /\ clients' = [clients EXCEPT ![c] = Unregistered]

\* GetConnection when it answers with the connection the client keeps
Keeps(c, isTxn, t) ==
  \/ mode = "session" /\ clients[c].assigned # NoConn
  \/ /\ mode = "transaction" /\ isTxn /\ clients[c].txnConn # NoConn
     /\ conns[clients[c].txnConn].txn = t

KeptConnection(c) == IF mode = "session" THEN clients[c].assigned
                                         ELSE clients[c].txnConn

\* GetConnection when it checks k out, a new object (Checkout never waits and
\* never refuses): for the client to keep in session mode and in a transaction
\* of transaction mode, for one request otherwise.  A kept connection of an
\* older transaction is returned first, to the pool of the request's database:
\* Return ignores a connection of another pool.
NewConnection(c, k, d, m, isTxn, t) ==
  LET old == clients[c].txnConn
      replaced == IF mode = "transaction" /\ isTxn /\ old # NoConn
                  THEN {old} \cap {j \in ConnIds : conns[j].pool = d} ELSE {}
  IN
  /\ GetPool(d, m)
  /\ conns' = [ReturnObjects(replaced) EXCEPT
                 ![k] = [pool |-> d, mongo |-> PoolClient(d, m), inUse |-> TRUE,
                         txn |-> IF mode = "transaction" /\ isTxn THEN t ELSE NoTxn]]
  /\ active' = [ReturnCount(replaced) EXCEPT ![d] = @ + 1]
  /\ clients' = [clients EXCEPT
                   ![c].assigned = IF mode = "session" THEN k ELSE @,
                   ![c].txnConn = IF mode = "transaction" /\ isTxn THEN k ELSE @]

MutReturned(c, k, isEnd) ==
  \/ mode = "session" /\ k # clients[c].assigned
  \/ mode = "transaction" /\ ~ isEnd /\ k # clients[c].txnConn
  \/ mode = "statement"

\* ReturnConnection for a registered client: whether k goes back
Returned(c, k, isEnd) ==
  \/ mode = "session" /\ k # clients[c].assigned
  \/ mode = "transaction" /\ (isEnd <=> k = clients[c].txnConn)
  \/ mode = "statement"

ReturnConnection(c, k, isEnd) ==
  /\ Return(IF Returned(c, k, isEnd) THEN {k} ELSE {})
  /\ clients' = [clients EXCEPT ![c].txnConn =
                   IF mode = "transaction" /\ isEnd /\ @ = k THEN NoConn ELSE @]
=============================================================================

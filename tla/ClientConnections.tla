-------------------------- MODULE ClientConnections --------------------------
(***************************************************************************)
(* The goroutine of each client connection (proxy/connection.go): its      *)
(* registration, the choice of a Mongo client for each request, the pool   *)
(* manager around the round trip, the recreation of a client after a       *)
(* connection error; and the proxy that tracks the clients it has to close *)
(* (proxy/proxy.go).  RoundTrip is one step here: Mongo.mu makes it atomic *)
(* with respect to Close, and its inside is the module RoundTrip.          *)
(***************************************************************************)
EXTENDS PoolManager

CONSTANTS Routes,       \* *RouteConfig objects
          RouteOf,      \* database -> the route the router resolves it to
          Kinds,        \* the kinds of request, of AllKinds
          MaxFailures,  \* bound: round trips that fail with a connection error
          MaxSignals    \* bound: signals to the process, 0, 1 or 2

AllKinds == {"plain", "statement", "commit", "end"}

\* TransactionDetails() is not nil and autocommit is false
IsTransaction(kind) == kind \in {"statement", "commit"}

\* commitTransaction, abortTransaction and endSessions
IsEndOfTransaction(kind) == kind \in {"commit", "end"}

\* What proxy.mongoClients is indexed by: routes at start-up, databases later
Keys == Dbs \cup Routes

ASSUME ConnectionsAssumption ==
  /\ IsFiniteSet(Routes) /\ RouteOf \in [Dbs -> Routes]
  /\ \A d \in Dbs \cap Routes : RouteOf[d] = d  \* an exact route goes first
  /\ Kinds \subseteq AllKinds
  /\ Modes \subseteq {"session", "transaction", "statement"}
  /\ MaxClientConn \in Nat /\ MaxFailures \in Nat /\ MaxSignals \in 0 .. 2
  /\ Mongos \subseteq Nat
  /\ NoMongo \notin Mongos /\ NoConn \notin ConnIds /\ NoTxn \notin Txns
  /\ NoDb \notin Dbs \cup {DefaultDb} /\ DefaultDb \notin Dbs
  /\ NoPool \notin Mongos \cup {NoMongo}

VARIABLES cn,           \* client -> where its goroutine is, its local variables
          routeClient,  \* route -> RouteConfig.MongoClient
          made,         \* Mongo clients created so far, numbered in order
          closed,       \* those that Close has disconnected
          tracked,      \* Proxy.mongoClients
          cleared,      \* how often a route's client was set to nil
          failures,     \* connection errors so far
          phase         \* of the shutdown

vars == <<mode, pools, clients, conns, active,
          cn, routeClient, made, closed, tracked, cleared, failures, phase>>

Off == [pc |-> "off", db |-> NoDb, kind |-> "plain", txn |-> NoTxn,
        mongo |-> NoMongo, conn |-> NoConn, err |-> "none"]

Locals ==
  [pc : {"off", "idle", "route", "use", "lazy", "lock", "track", "pool",
         "register", "get", "trip", "return", "clear", "answer", "closing"},
   db : Dbs \cup {NoDb}, kind : AllKinds, txn : Txns \cup {NoTxn},
   mongo : Mongos \cup {NoMongo}, conn : ConnIds \cup {NoConn},
   err : {"none", "other", "connection"}]

TypeOK ==
  /\ PoolTypeOK
  /\ cn \in [Clients -> Locals]
  /\ routeClient \in [Routes -> Mongos \cup {NoMongo}]
  /\ made \subseteq Mongos /\ closed \subseteq made
  /\ tracked \in [Keys -> made \cup {NoMongo}]
  /\ cleared \in Nat /\ failures \in 0 .. MaxFailures
  /\ phase \in {"running", "closing", "quit", "killing", "killed"}

\* A route's client is nil at start-up when connecting to it failed
Init ==
  /\ PoolInit
  /\ cn = [c \in Clients |-> Off]
  /\ routeClient \in [Routes -> Mongos \cup {NoMongo}]
  /\ \A r, s \in Routes : r # s /\ routeClient[r] # NoMongo => routeClient[r] # routeClient[s]
  /\ made = {routeClient[r] : r \in Routes} \ {NoMongo}
  /\ \A m \in made, n \in Mongos : n < m => n \in made
  /\ closed = {}
  /\ tracked = [i \in Keys |-> IF i \in Routes THEN routeClient[i] ELSE NoMongo]
  /\ cleared = 0 /\ failures = 0
  /\ phase = "running"

Move(c, q) == cn' = [cn EXCEPT ![c] = q]
Goto(c, pc) == Move(c, [cn[c] EXCEPT !.pc = pc])
Route(c) == RouteOf[cn[c].db]

routing == <<routeClient, made, cleared>>
proxy == <<closed, tracked, phase>>

\* route.clientMutex is held from the creation of a client to its tracking
RouteLocked(r) == \E c \in Clients : cn[c].pc = "track" /\ Route(c) = r

-----------------------------------------------------------------------------
(* The connection and its requests *)

\* accept and handleConnection.  A client that the pool manager refuses stays
\* connected: its first request tries again.
Connect(c) ==
  /\ cn[c].pc = "off" /\ phase \in {"running", "closing"}
  /\ \/ MayRegister(c) /\ RegisterClient(c, DefaultDb)
     \/ ~ MayRegister(c) /\ UNCHANGED clients
  /\ Goto(c, "idle")
  /\ UNCHANGED <<mode, pools, conns, active, failures, routing, proxy>>

\* handleMessage reads a message and extracts its database
Request(c) ==
  /\ cn[c].pc = "idle" /\ phase # "killed"
  /\ \E d \in Dbs, kind \in Kinds :
       \E t \in IF IsTransaction(kind) THEN Txns ELSE {NoTxn} :
         Move(c, [cn[c] EXCEPT !.pc = "route", !.db = d, !.kind = kind, !.txn = t])
  /\ UNCHANGED <<poolVars, failures, routing, proxy>>

\* The read fails: the client has gone, or the connection was force closed
Hangup(c) ==
  /\ cn[c].pc = "idle"
  /\ Goto(c, "closing")
  /\ UNCHANGED <<poolVars, failures, routing, proxy>>

\* roundTrip tests route.MongoClient without the lock ...
CheckClient(c) ==
  /\ cn[c].pc = "route"
  /\ Goto(c, IF routeClient[Route(c)] = NoMongo THEN "lazy" ELSE "use")
  /\ UNCHANGED <<poolVars, failures, routing, proxy>>

\* ... and reads it a second time to use it; so does createLazyMongoClient
UseClient(c) ==
  /\ cn[c].pc = "use"
  /\ Move(c, [cn[c] EXCEPT !.pc = "pool", !.mongo = routeClient[Route(c)]])
  /\ UNCHANGED <<poolVars, failures, routing, proxy>>

\* createLazyMongoClient before it takes route.clientMutex
LazyCheck(c) ==
  /\ cn[c].pc = "lazy"
  /\ Goto(c, IF routeClient[Route(c)] = NoMongo THEN "lock" ELSE "use")
  /\ UNCHANGED <<poolVars, failures, routing, proxy>>

MutLazyCreate(c) ==
  /\ cn[c].pc = "lock" /\ ~ RouteLocked(Route(c))
  /\ \E m \in Mongos \ made :
       /\ \A n \in Mongos \ made : m <= n
       /\ made' = made \cup {m}
       /\ routeClient' = [routeClient EXCEPT ![Route(c)] = m]
       /\ Move(c, [cn[c] EXCEPT !.pc = "track", !.mongo = m])
  /\ UNCHANGED <<poolVars, failures, cleared, proxy>>

\* With the lock: the second check, else a new client, else an error
LazyCreate(c) ==
  /\ cn[c].pc = "lock" /\ ~ RouteLocked(Route(c))
  /\ \/ /\ routeClient[Route(c)] # NoMongo
        /\ Move(c, [cn[c] EXCEPT !.pc = "pool", !.mongo = routeClient[Route(c)]])
        /\ UNCHANGED <<made, routeClient>>
     \/ /\ routeClient[Route(c)] = NoMongo
        /\ \E m \in Mongos \ made :
             /\ \A n \in Mongos \ made : m <= n
             /\ made' = made \cup {m}
             /\ routeClient' = [routeClient EXCEPT ![Route(c)] = m]
             /\ Move(c, [cn[c] EXCEPT !.pc = "track", !.mongo = m])
     \/ /\ routeClient[Route(c)] = NoMongo
        /\ Goto(c, "closing")
        /\ UNCHANGED <<made, routeClient>>
  /\ UNCHANGED <<poolVars, failures, cleared, proxy>>

MutTrack(c) ==
  /\ cn[c].pc = "track"
  /\ Goto(c, "pool")
  /\ UNCHANGED <<poolVars, failures, routing, proxy>>

\* RegisterMongoClient, under Proxy.clientsMutex, replaces the database's entry
Track(c) ==
  /\ cn[c].pc = "track" /\ phase \notin {"closing", "killing"}
  /\ tracked' = [tracked EXCEPT ![cn[c].db] = cn[c].mongo]
  /\ Goto(c, "pool")
  /\ UNCHANGED <<poolVars, failures, routing, closed, phase>>

-----------------------------------------------------------------------------
(* roundTripWithPool *)

\* A registration for another database is given up first
EnterPool(c) ==
  /\ cn[c].pc = "pool"
  /\ \/ clients[c].db = cn[c].db /\ Goto(c, "get") /\ UNCHANGED <<clients, conns, active>>
     \/ ~ Registered(c) /\ Goto(c, "register") /\ UNCHANGED <<clients, conns, active>>
     \/ /\ Registered(c) /\ clients[c].db # cn[c].db
        /\ UnregisterClient(c) /\ Goto(c, "register")
  /\ UNCHANGED <<mode, pools, failures, routing, proxy>>

\* Refused, the request fails and with it the connection
Register(c) ==
  /\ cn[c].pc = "register"
  /\ \/ MayRegister(c) /\ RegisterClient(c, cn[c].db) /\ Goto(c, "get")
     \/ ~ MayRegister(c) /\ Goto(c, "closing") /\ UNCHANGED clients
  /\ UNCHANGED <<mode, pools, conns, active, failures, routing, proxy>>

\* A new object: no pool counts it and nobody refers to it
Unreferenced(k) ==
  ~ conns[k].inUse /\ \A c \in Clients : k \notin Kept(c) /\ cn[c].conn # k

GetConnection(c) ==
  LET isTxn == IsTransaction(cn[c].kind) IN
  /\ cn[c].pc = "get"
  /\ \/ /\ Keeps(c, isTxn, cn[c].txn)
        /\ GetPool(cn[c].db, cn[c].mongo)
        /\ Move(c, [cn[c] EXCEPT !.pc = "trip", !.conn = KeptConnection(c)])
        /\ UNCHANGED <<clients, conns, active>>
     \/ /\ ~ Keeps(c, isTxn, cn[c].txn)
        /\ \E k \in ConnIds :
             /\ k[1] = c /\ Unreferenced(k)
             /\ NewConnection(c, k, cn[c].db, cn[c].mongo, isTxn, cn[c].txn)
             /\ Move(c, [cn[c] EXCEPT !.pc = "trip", !.conn = k])
  /\ UNCHANGED <<mode, failures, routing, proxy>>

\* RoundTrip of the connection's Mongo client: a nil client panics and the
\* panic ends the connection; a closed one answers "connection closed", which
\* isConnectionError does not match; else the round trip succeeds or fails
RoundTrip(c) ==
  LET m == conns[cn[c].conn].mongo
      Ends(e) == Move(c, [cn[c] EXCEPT !.pc = "return", !.err = e])
  IN
  /\ cn[c].pc = "trip"
  /\ \/ /\ m = NoMongo
        /\ Move(c, [cn[c] EXCEPT !.pc = "closing", !.conn = NoConn])
        /\ UNCHANGED failures
     \/ m \in closed /\ Ends("other") /\ UNCHANGED failures
     \/ m \in made \ closed /\ Ends("none") /\ UNCHANGED failures
     \/ m \in made \ closed /\ Ends("other") /\ UNCHANGED failures
     \/ /\ m \in made \ closed
        /\ failures < MaxFailures /\ failures' = failures + 1
        /\ Ends("connection")
  /\ UNCHANGED <<poolVars, routing, proxy>>

AfterReturn == [none |-> "answer", other |-> "closing", connection |-> "clear"]

GiveBack(c) ==
  /\ cn[c].pc = "return"
  /\ ReturnConnection(c, cn[c].conn, IsEndOfTransaction(cn[c].kind))
  /\ Move(c, [cn[c] EXCEPT !.pc = AfterReturn[cn[c].err], !.conn = NoConn])
  /\ UNCHANGED <<mode, pools, failures, routing, proxy>>

\* After a connection error the route's client becomes nil, whichever it is
ClearClient(c) ==
  /\ cn[c].pc = "clear" /\ ~ RouteLocked(Route(c))
  /\ routeClient' = [routeClient EXCEPT ![Route(c)] = NoMongo]
  /\ cleared' = cleared + (IF routeClient[Route(c)] # NoMongo THEN 1 ELSE 0)
  /\ Goto(c, "closing")
  /\ UNCHANGED <<poolVars, failures, made, proxy>>

\* The response is written to the client, unless it has gone
Answer(c) ==
  /\ cn[c].pc = "answer"
  /\ \/ phase # "killed" /\ Move(c, [Off EXCEPT !.pc = "idle"])
     \/ Goto(c, "closing")
  /\ UNCHANGED <<poolVars, failures, routing, proxy>>

\* The deferred UnregisterClient of handleConnection
Disconnect(c) ==
  /\ cn[c].pc = "closing"
  /\ UnregisterClient(c)
  /\ Move(c, Off)
  /\ UNCHANGED <<mode, pools, failures, routing, proxy>>

-----------------------------------------------------------------------------
(* Shutdown and Kill *)

\* The first signal: CloseAllMongoClients takes clientsMutex.  A second
\* interrupt calls Kill, which shuts down again before it closes p.kill.
Shutdown ==
  /\ \/ MaxSignals >= 1 /\ phase = "running" /\ phase' = "closing"
     \/ MaxSignals >= 2 /\ phase = "quit" /\ phase' = "killing"
  /\ UNCHANGED <<poolVars, cn, failures, routing, closed, tracked>>

MutCloseClient(m) ==
  /\ phase \in {"closing", "killing"}
  /\ \A c \in Clients : cn[c].pc = "off"
  /\ \E i \in Keys : tracked[i] = m
  /\ m \notin closed
  /\ closed' = closed \cup {m}
  /\ UNCHANGED <<poolVars, cn, failures, routing, tracked, phase>>

CloseClient(m) ==
  /\ phase \in {"closing", "killing"}
  /\ \E i \in Keys : tracked[i] = m
  /\ m \notin closed
  /\ closed' = closed \cup {m}
  /\ UNCHANGED <<poolVars, cn, failures, routing, tracked, phase>>

MutShutdownDone ==
  /\ phase \in {"closing", "killing"}
  /\ \A i \in Keys : tracked[i] \in closed \cup {NoMongo}
  /\ tracked' = [i \in Keys |-> NoMongo]
  /\ phase' = "quit"
  /\ UNCHANGED <<poolVars, cn, failures, routing, closed>>

\* The map is emptied; then p.quit stops the accept loop, or p.kill closes
\* the connections of all clients
ShutdownDone ==
  /\ phase \in {"closing", "killing"}
  /\ \A i \in Keys : tracked[i] \in closed \cup {NoMongo}
  /\ tracked' = [i \in Keys |-> NoMongo]
  /\ phase' = IF phase = "closing" THEN "quit" ELSE "killed"
  /\ UNCHANGED <<poolVars, cn, failures, routing, closed>>

\* accept returns once every connection is done, and the process exits
Exited == phase \in {"quit", "killed"} /\ \A c \in Clients : cn[c].pc = "off"

Exit == Exited /\ UNCHANGED vars

\* What a goroutine does by itself
Progress(c) ==
  \/ CheckClient(c) \/ UseClient(c) \/ LazyCheck(c) \/ LazyCreate(c) \/ Track(c)
  \/ EnterPool(c) \/ Register(c) \/ GetConnection(c) \/ RoundTrip(c)
  \/ GiveBack(c) \/ ClearClient(c) \/ Answer(c) \/ Disconnect(c)

Next ==
  \/ \E c \in Clients : Connect(c) \/ Request(c) \/ Hangup(c) \/ Progress(c)
  \/ Shutdown \/ ShutdownDone \/ Exit
  \/ \E m \in Mongos : CloseClient(m)

Spec == Init /\ [][Next]_vars

\* Goroutines run; the round trips end (RoundTrip returns); a force closed
\* connection fails to read; closing the clients takes at most the disconnect
\* timeout each
Fairness ==
  /\ \A c \in Clients : /\ WF_vars(Progress(c))
                        /\ WF_vars(phase = "killed" /\ Hangup(c))
  /\ WF_vars(ShutdownDone)
  /\ \A m \in Mongos : WF_vars(CloseClient(m))

FairSpec == Spec /\ Fairness

-----------------------------------------------------------------------------
(* Properties *)

\* Somebody will return the connection: the client that keeps it, or the
\* goroutine that is using it
Held(k) == \E c \in Clients : k \in Kept(c) \/ cn[c].conn = k

\* In every pool mode, a pool's count of active connections is the number of
\* its connections in use, and each of them is held by a client that will
\* return it, across transactions, changes of database, refusals and
\* disconnections: none is lost and none is returned twice.  This leaves out
\* the two cases in which the code does lose one, so that it is stated for
\* constants without them: an endSessions in transaction mode, whose
\* connection ReturnConnection neither returns nor keeps ("end" in Kinds),
\* and a nil client after a connection error, whose panic skips
\* ReturnConnection (MaxFailures above 0 and a route of several databases).
CountedAndHeld ==
  /\ \A d \in Dbs :
       active[d] = Cardinality({k \in ConnIds : conns[k].inUse /\ conns[k].pool = d})
  /\ \A k \in ConnIds : conns[k].inUse => Held(k)
  /\ \A c \in Clients : \A k \in Kept(c) : conns[k].inUse /\ conns[k].pool = clients[c].db

\* max_client_conn bounds the registered clients, although a connection that
\* was refused stays open and registers again with each request, and a change
\* of database gives the registration up for a moment.
ClientLimit == MaxClientConn > 0 => ClientCount <= MaxClientConn

\* Requests that find a route's client missing at the same time create it
\* once: a route gets a further client only after its client was cleared.
OneClientPerClear == Cardinality(made) <= Cardinality(Routes) + cleared

\* A client that is in use by a route is known to the proxy, which will close
\* it, or its creator is about to register it.
CurrentClientTracked ==
  \A r \in Routes :
    \/ routeClient[r] \in {tracked[i] : i \in Keys} \cup closed \cup {NoMongo}
    \/ \E c \in Clients : cn[c].pc = "track" /\ cn[c].mongo = routeClient[r]

\* After a kill every connection ends, whatever it was waiting for.
KillEndsAll == (phase = "killing") ~> Exited

\* A graceful shutdown closes the clients the proxy knows when it starts, and
\* comes to its end whatever requests do meanwhile.  A client that a request
\* creates after that is not closed.
ShutdownCompletes == (phase = "closing") ~> (phase = "quit")
=============================================================================

----------------------- MODULE ClientConnectionsTypes ------------------------
(***************************************************************************)
(* Proofs about the clients' goroutines, for any number of clients,        *)
(* databases, routes and Mongo clients: their types, the clients of the    *)
(* routes and the limit on clients.  Each group of theorems has an         *)
(* inductive invariant of its own, on top of the types.                    *)
(***************************************************************************)
EXTENDS ClientConnections, FiniteSetTheorems, TLAPS

-----------------------------------------------------------------------------
(* The invariants *)

\* Where a goroutine has a request in its hands
Serving == {"route", "use", "lazy", "lock", "track", "pool", "register", "get",
            "trip", "return", "clear"}

\* What the locals of a goroutine hold at each place, when the clients of M
\* have been made
LocalsOK(q, M) ==
  /\ q.pc \in Serving => q.db \in Dbs /\ q.kind \in Kinds
  /\ q.conn \in ConnIds <=> q.pc \in {"trip", "return"}
  /\ q.pc = "track" => q.mongo \in M

TypeInv ==
  /\ TypeOK
  /\ \A c \in Clients : LocalsOK(cn[c], made)
  /\ \A r \in Routes : routeClient[r] \in made \cup {NoMongo}

\* The routes that have a client
Equipped == {r \in Routes : routeClient[r] # NoMongo}

\* Every client made beyond those in place has been cleared
MadeInv ==
  /\ IsFiniteSet(made)
  /\ Cardinality(made) <= Cardinality(Equipped) + cleared

\* The route whose clients are tracked under key i
RouteOfKey(i) == IF i \in Dbs THEN RouteOf[i] ELSE i

\* Routes have clients of their own; under a key the proxy tracks no client
\* that another route uses; who is about to track a client has the lock of the
\* route that uses it
TrackInv ==
  /\ \A r, s \in Routes : routeClient[r] = routeClient[s] /\ r # s => routeClient[r] = NoMongo
  /\ \A i \in Keys, r \in Routes :
       tracked[i] = routeClient[r] /\ r # RouteOfKey(i) => tracked[i] = NoMongo
  /\ \A c \in Clients : cn[c].pc = "track" => cn[c].mongo = routeClient[Route(c)]
  /\ CurrentClientTracked

Enrolled == {c \in Clients : Registered(c)}

LimitInv == IsFiniteSet(Enrolled) /\ ClientLimit

-----------------------------------------------------------------------------
(* Types *)

\* A step of one goroutine is well typed if the goroutine's new locals are
LEMMA MoveTyping ==
  ASSUME TypeInv, NEW c \in Clients, NEW q \in Locals, Move(c, q),
         made \subseteq made', LocalsOK(q, made')
  PROVE  cn' \in [Clients -> Locals] /\ \A b \in Clients : LocalsOK(cn[b], made)'
<1>1. cn' = [cn EXCEPT ![c] = q] /\ cn \in [Clients -> Locals]
  BY DEF Move, TypeInv, TypeOK
<1>2. \A b \in Clients : b # c => cn'[b] = cn[b]
  BY <1>1
<1>3. cn'[c] = q
  BY <1>1
<1>4. ASSUME NEW b \in Clients, b # c PROVE LocalsOK(cn[b], made)'
  BY <1>2, <1>4 DEF TypeInv, LocalsOK
<1>. QED  BY <1>1, <1>3, <1>4

\* A jump of a goroutine that has no connection in its hands
LEMMA GotoTyping ==
  ASSUME TypeInv, NEW c \in Clients, cn[c].pc \notin {"trip", "return"},
         NEW pc \in {"idle", "use", "lazy", "lock", "pool", "register", "get", "closing"},
         pc \in Serving => cn[c].pc \in Serving,
         Goto(c, pc), made \subseteq made'
  PROVE  cn' \in [Clients -> Locals] /\ \A b \in Clients : LocalsOK(cn[b], made)'
<1>. DEFINE q == [cn[c] EXCEPT !.pc = pc]
<1>1. cn[c] \in Locals /\ LocalsOK(cn[c], made)
  BY DEF TypeInv, TypeOK
<1>2. q \in Locals
  BY <1>1 DEF Locals
<1>3. q.pc = pc /\ q.db = cn[c].db /\ q.kind = cn[c].kind /\ q.conn = cn[c].conn
  BY <1>1 DEF Locals
<1>4. LocalsOK(q, made')
  BY <1>1, <1>3 DEF LocalsOK
<1>5. Move(c, q)
  BY DEF Goto
<1>. QED  BY <1>2, <1>4, <1>5, MoveTyping

\* Returning some connections leaves objects and counts
LEMMA ReturnTyping ==
  ASSUME TypeInv, NEW K, IsFiniteSet(K)
  PROVE  ReturnObjects(K) \in [ConnIds -> PooledConnections] /\ ReturnCount(K) \in [Dbs -> Nat]
<1>1. \A x \in PooledConnections :
        [x EXCEPT !.inUse = FALSE, !.txn = NoTxn] \in PooledConnections
  BY ZenonT(30) DEF PooledConnections
<1>2. ReturnObjects(K) \in [ConnIds -> PooledConnections]
  BY <1>1, Zenon DEF ReturnObjects, TypeInv, TypeOK, PoolTypeOK
<1>3. ASSUME NEW d \in Dbs
      PROVE  Decremented(active[d], Cardinality({k \in K : conns[k].pool = d})) \in Nat
  <2>1. Cardinality({k \in K : conns[k].pool = d}) \in Nat
    BY FS_Subset, FS_CardinalityType
  <2>2. active[d] \in Nat
    BY DEF TypeInv, TypeOK, PoolTypeOK
  <2>. QED  BY <2>1, <2>2 DEF Decremented
<1>. QED  BY <1>2, <1>3 DEF ReturnCount

\* At most two connections are kept
LEMMA KeptFinite == ASSUME NEW c PROVE IsFiniteSet(Kept(c))
<1>1. IsFiniteSet({clients[c].assigned} \cup {clients[c].txnConn})
  BY FS_Singleton, FS_AddElement, Zenon
<1>2. Kept(c) \in SUBSET ({clients[c].assigned} \cup {clients[c].txnConn})
  BY DEF Kept
<1>. QED  BY <1>1, <1>2, FS_Subset

CnOK == cn \in [Clients -> Locals] /\ \A b \in Clients : LocalsOK(cn[b], made)

\* A step that leaves the pool manager, the routes and the proxy alone
LEMMA LocalTyping ==
  ASSUME TypeInv, CnOK', UNCHANGED <<poolVars, failures, routing, proxy>>
  PROVE  TypeInv'
BY DEF TypeInv, TypeOK, PoolTypeOK, CnOK, poolVars, routing, proxy

\* A step on the pool manager only
LEMMA PoolTyping ==
  ASSUME TypeInv, CnOK', PoolTypeOK', UNCHANGED <<failures, routing, proxy>>
  PROVE  TypeInv'
BY DEF TypeInv, TypeOK, CnOK, routing, proxy

\* Registering a client leaves registrations
LEMMA RegisterTyping ==
  ASSUME TypeInv, NEW c \in Clients, NEW d \in Dbs \cup {DefaultDb}, RegisterClient(c, d),
         UNCHANGED <<mode, pools, conns, active>>
  PROVE  PoolTypeOK'
<1>1. [Unregistered EXCEPT !.db = d] \in Registrations
  BY DEF Unregistered, Registrations
<1>. QED  BY <1>1 DEF RegisterClient, TypeInv, TypeOK, PoolTypeOK

\* So does giving a registration up
LEMMA UnregisterTyping ==
  ASSUME TypeInv, NEW c \in Clients, UnregisterClient(c), UNCHANGED <<mode, pools>>
  PROVE  PoolTypeOK'
<1>1. Unregistered \in Registrations
  BY DEF Unregistered, Registrations
<1>2. conns' \in [ConnIds -> PooledConnections] /\ active' \in [Dbs -> Nat]
  BY KeptFinite, ReturnTyping DEF UnregisterClient, Return
<1>. QED  BY <1>1, <1>2 DEF UnregisterClient, TypeInv, TypeOK, PoolTypeOK

\* Before the first client connects everything has its type
LEMMA TypeInit == Init => TypeInv
<1>. SUFFICES ASSUME Init PROVE TypeInv
  OBVIOUS
<1>1. PoolTypeOK
  <2>1. mode \in {"session", "transaction", "statement"}
    BY ConnectionsAssumption DEF Init, PoolInit
  <2>2. Unregistered \in Registrations
    BY DEF Unregistered, Registrations
  <2>3. [pool |-> NoDb, mongo |-> NoMongo, inUse |-> FALSE, txn |-> NoTxn] \in PooledConnections
    BY DEF PooledConnections
  <2>. QED  BY <2>1, <2>2, <2>3 DEF Init, PoolInit, PoolTypeOK
<1>2. Off \in Locals /\ LocalsOK(Off, made)
  BY ConnectionsAssumption DEF Off, Locals, AllKinds, LocalsOK, Serving
<1>3. made \subseteq Mongos /\ \A r \in Routes : routeClient[r] \in made \cup {NoMongo}
  BY DEF Init
<1>4. tracked \in [Keys -> made \cup {NoMongo}]
  BY <1>3 DEF Init
<1>5. cleared \in Nat /\ failures \in 0 .. MaxFailures
  BY ConnectionsAssumption DEF Init
<1>. QED  BY <1>1, <1>2, <1>3, <1>4, <1>5 DEF Init, TypeInv, TypeOK

\* The steps that only move a goroutine keep the types
LEMMA TypeLocalSteps ==
  ASSUME TypeInv, NEW c \in Clients,
         Request(c) \/ Hangup(c) \/ CheckClient(c) \/ UseClient(c) \/ LazyCheck(c) \/ Answer(c)
  PROVE  TypeInv'
<1>. DEFINE R == cn[c]
<1>0. R \in Locals /\ LocalsOK(R, made)
  BY DEF TypeInv, TypeOK
<1>1. UNCHANGED <<poolVars, failures, routing, proxy>>
  BY Zenon DEF Request, Hangup, CheckClient, UseClient, LazyCheck, Answer
<1>2. made' = made
  BY <1>1 DEF routing
<1>m. ASSUME NEW q \in Locals, Move(c, q), LocalsOK(q, made) PROVE CnOK'
  BY <1>2, <1>m, MoveTyping DEF CnOK
<1>g. ASSUME NEW pc \in {"use", "lazy", "lock", "closing"}, Goto(c, pc),
             R.pc \notin {"trip", "return"}, pc \in Serving => R.pc \in Serving
      PROVE  CnOK'
  BY <1>2, <1>g, GotoTyping DEF CnOK
<1>3. CASE Request(c)
  <2>1. PICK d \in Dbs, kind \in Kinds, t \in Txns \cup {NoTxn} :
          Move(c, [R EXCEPT !.pc = "route", !.db = d, !.kind = kind, !.txn = t])
    BY <1>3, Zenon DEF Request
  <2>. DEFINE q == [R EXCEPT !.pc = "route", !.db = d, !.kind = kind, !.txn = t]
  <2>2. kind \in AllKinds
    BY ConnectionsAssumption
  <2>3. q \in Locals
    BY <1>0, <2>2, ZenonT(30) DEF Locals
  <2>4. q.pc = "route" /\ q.db = d /\ q.kind = kind /\ q.conn = R.conn
    BY <1>0 DEF Locals
  <2>5. R.conn \notin ConnIds
    BY <1>0, <1>3, Zenon DEF LocalsOK, Request
  <2>6. LocalsOK(q, made)
    BY <2>4, <2>5 DEF LocalsOK
  <2>. QED  BY <1>1, <1>m, <2>1, <2>3, <2>6, LocalTyping
<1>4. CASE Hangup(c)
  <2>1. CnOK'
    BY <1>4, <1>g DEF Hangup, Serving
  <2>. QED  BY <1>1, <2>1, LocalTyping
<1>5. CASE CheckClient(c)
  <2>1. CnOK'
    BY <1>5, <1>g DEF CheckClient, Serving
  <2>. QED  BY <1>1, <2>1, LocalTyping
<1>6. CASE LazyCheck(c)
  <2>1. CnOK'
    BY <1>6, <1>g DEF LazyCheck, Serving
  <2>. QED  BY <1>1, <2>1, LocalTyping
<1>7. CASE UseClient(c)
  <2>. DEFINE m == routeClient[Route(c)]
              q == [R EXCEPT !.pc = "pool", !.mongo = m]
  <2>1. R.pc = "use" /\ R.db \in Dbs
    BY <1>0, <1>7 DEF UseClient, LocalsOK, Serving
  <2>2. m \in Mongos \cup {NoMongo}
    BY <2>1, ConnectionsAssumption DEF Route, TypeInv, TypeOK
  <2>3. Move(c, q)
    BY <1>7 DEF UseClient
  <2>. HIDE DEF m
  <2>4. q \in Locals
    BY <1>0, <2>2, Zenon DEF Locals
  <2>5. q.pc = "pool" /\ q.db = R.db /\ q.kind = R.kind /\ q.conn = R.conn
    BY <1>0 DEF Locals
  <2>6. LocalsOK(q, made)
    BY <1>0, <2>1, <2>5 DEF LocalsOK, Serving
  <2>. QED  BY <1>1, <1>m, <2>3, <2>4, <2>6, LocalTyping
<1>8. CASE Answer(c)
  <2>. DEFINE q == [Off EXCEPT !.pc = "idle"]
  <2>1. q \in Locals /\ q.pc = "idle" /\ q.conn = NoConn
    BY DEF Off, Locals, AllKinds
  <2>2. LocalsOK(q, made)
    BY <2>1, ConnectionsAssumption DEF LocalsOK, Serving
  <2>3. Move(c, q) \/ Goto(c, "closing")
    BY <1>8 DEF Answer
  <2>. HIDE DEF q
  <2>4. CnOK'
    BY <1>8, <1>m, <1>g, <2>1, <2>2, <2>3 DEF Answer, Serving
  <2>. QED  BY <1>1, <2>4, LocalTyping
<1>. QED  BY <1>3, <1>4, <1>5, <1>6, <1>7, <1>8

\* The steps that make, track or clear a client keep the types
LEMMA TypeRouteSteps ==
  ASSUME TypeInv, NEW c \in Clients, LazyCreate(c) \/ Track(c) \/ ClearClient(c)
  PROVE  TypeInv'
<1>. DEFINE R == cn[c]
<1>0. /\ R \in Locals /\ LocalsOK(R, made)
      /\ R.pc \in {"lock", "track", "clear"} /\ R.db \in Dbs /\ Route(c) \in Routes
  BY ConnectionsAssumption, Zenon
     DEF TypeInv, TypeOK, LazyCreate, Track, ClearClient, LocalsOK, Serving, Route
<1>1. PoolTypeOK' /\ failures' = failures
  BY Zenon DEF LazyCreate, Track, ClearClient, TypeInv, TypeOK, PoolTypeOK, poolVars
<1>m. ASSUME NEW m \in Mongos \cup {NoMongo}, NEW pc \in {"pool", "track"},
             Move(c, [R EXCEPT !.pc = pc, !.mongo = m]),
             made \subseteq made', pc = "track" => m \in made'
      PROVE  CnOK'
  <2>. DEFINE q == [R EXCEPT !.pc = pc, !.mongo = m]
  <2>1. q \in Locals
    BY <1>0, <1>m, Zenon DEF Locals
  <2>2. q.pc = pc /\ q.db = R.db /\ q.kind = R.kind /\ q.conn = R.conn /\ q.mongo = m
    BY <1>0 DEF Locals
  <2>3. LocalsOK(q, made')
    BY <1>0, <1>m, <2>2 DEF LocalsOK, Serving
  <2>. QED  BY <1>m, <2>1, <2>3, MoveTyping DEF CnOK
<1>g. ASSUME NEW pc \in {"pool", "closing"}, Goto(c, pc), made \subseteq made' PROVE CnOK'
  BY <1>0, <1>g, GotoTyping DEF CnOK, Serving
<1>2. CASE LazyCreate(c)
  <2>1. UNCHANGED <<closed, tracked, phase, cleared>>
    BY <1>2, Zenon DEF LazyCreate, proxy
  <2>2. CASE /\ Move(c, [R EXCEPT !.pc = "pool", !.mongo = routeClient[Route(c)]])
             /\ UNCHANGED <<made, routeClient>>
    <3>1. CnOK'
      BY <1>0, <1>m, <2>2, Zenon DEF TypeInv, TypeOK
    <3>. QED  BY <1>1, <2>1, <2>2, <3>1 DEF TypeInv, TypeOK, CnOK
  <2>3. ASSUME NEW m \in Mongos \ made, made' = made \cup {m},
               routeClient' = [routeClient EXCEPT ![Route(c)] = m],
               Move(c, [R EXCEPT !.pc = "track", !.mongo = m])
        PROVE  TypeInv'
    <3>1. CnOK'
      BY <1>m, <2>3, Zenon
    <3>2. /\ routeClient' \in [Routes -> Mongos \cup {NoMongo}]
          /\ \A r \in Routes : routeClient'[r] \in made' \cup {NoMongo}
      BY <2>3, Zenon DEF TypeInv, TypeOK
    <3>3. tracked' \in [Keys -> made' \cup {NoMongo}] /\ made' \subseteq Mongos /\ closed' \subseteq made'
      BY <2>1, <2>3 DEF TypeInv, TypeOK
    <3>. QED  BY <1>1, <2>1, <3>1, <3>2, <3>3 DEF TypeInv, TypeOK, CnOK
  <2>4. CASE Goto(c, "closing") /\ UNCHANGED <<made, routeClient>>
    <3>1. CnOK'
      BY <1>g, <2>4
    <3>. QED  BY <1>1, <2>1, <2>4, <3>1 DEF TypeInv, TypeOK, CnOK
  <2>. QED  BY <1>2, <2>2, <2>3, <2>4, Zenon DEF LazyCreate
<1>3. CASE Track(c)
  <2>1. made' = made /\ UNCHANGED <<routeClient, cleared, closed, phase>>
    BY <1>3 DEF Track, routing
  <2>2. CnOK'
    BY <1>3, <1>g, <2>1 DEF Track
  <2>3. R.mongo \in made
    BY <1>0, <1>3 DEF Track, LocalsOK
  <2>4. tracked' \in [Keys -> made \cup {NoMongo}]
    BY <1>3, <2>3, Zenon DEF Track, TypeInv, TypeOK
  <2>. QED  BY <1>1, <2>1, <2>2, <2>4 DEF TypeInv, TypeOK, CnOK
<1>4. CASE ClearClient(c)
  <2>1. made' = made /\ UNCHANGED proxy
    BY <1>4 DEF ClearClient
  <2>2. CnOK'
    BY <1>4, <1>g, <2>1 DEF ClearClient
  <2>3. /\ routeClient' \in [Routes -> Mongos \cup {NoMongo}]
        /\ \A r \in Routes : routeClient'[r] \in made \cup {NoMongo}
    BY <1>4, Zenon DEF ClearClient, TypeInv, TypeOK
  <2>4. cleared' \in Nat
    BY <1>4 DEF ClearClient, TypeInv, TypeOK
  <2>. QED  BY <1>1, <2>1, <2>2, <2>3, <2>4 DEF TypeInv, TypeOK, CnOK, proxy
<1>. QED  BY <1>2, <1>3, <1>4

\* The steps that register or unregister a client keep the types
LEMMA TypeRegisterSteps ==
  ASSUME TypeInv, NEW c \in Clients,
         Connect(c) \/ EnterPool(c) \/ Register(c) \/ Disconnect(c)
  PROVE  TypeInv'
<1>. DEFINE R == cn[c]
<1>0. R \in Locals /\ LocalsOK(R, made)
  BY DEF TypeInv, TypeOK
<1>1. UNCHANGED <<mode, pools, failures, routing, proxy>> /\ made' = made
  BY DEF Connect, EnterPool, Register, Disconnect, routing
<1>g. ASSUME NEW pc \in {"idle", "register", "get", "closing"}, Goto(c, pc),
             R.pc \notin {"trip", "return"}, pc \in Serving => R.pc \in Serving
      PROVE  CnOK'
  BY <1>1, <1>g, GotoTyping DEF CnOK
<1>2. CASE Connect(c)
  <2>1. CnOK'
    BY <1>2, <1>g DEF Connect, Serving
  <2>2. CASE UNCHANGED clients
    BY <1>1, <1>2, <2>1, <2>2, LocalTyping DEF Connect, poolVars
  <2>3. CASE RegisterClient(c, DefaultDb)
    <3>1. PoolTypeOK'
      BY <1>1, <1>2, <2>3, RegisterTyping DEF Connect
    <3>. QED  BY <1>1, <2>1, <3>1, PoolTyping
  <2>. QED  BY <1>2, <2>2, <2>3 DEF Connect
<1>3. CASE EnterPool(c)
  <2>1. CnOK'
    BY <1>3, <1>g DEF EnterPool, Serving
  <2>2. CASE UNCHANGED <<clients, conns, active>>
    BY <1>1, <2>1, <2>2, LocalTyping DEF poolVars
  <2>3. CASE UnregisterClient(c)
    <3>1. PoolTypeOK'
      BY <1>1, <2>3, UnregisterTyping
    <3>. QED  BY <1>1, <2>1, <3>1, PoolTyping
  <2>. QED  BY <1>3, <2>2, <2>3 DEF EnterPool
<1>4. CASE Register(c)
  <2>1. CnOK'
    BY <1>4, <1>g DEF Register, Serving
  <2>2. CASE UNCHANGED clients
    BY <1>1, <1>4, <2>1, <2>2, LocalTyping DEF Register, poolVars
  <2>3. CASE RegisterClient(c, R.db)
    <3>1. R.db \in Dbs
      BY <1>0, <1>4 DEF Register, LocalsOK, Serving
    <3>2. PoolTypeOK'
      BY <1>1, <1>4, <2>3, <3>1, RegisterTyping DEF Register
    <3>. QED  BY <1>1, <2>1, <3>2, PoolTyping
  <2>. QED  BY <1>4, <2>2, <2>3 DEF Register
<1>5. CASE Disconnect(c)
  <2>1. Off \in Locals /\ LocalsOK(Off, made')
    BY ConnectionsAssumption DEF Off, Locals, AllKinds, LocalsOK, Serving
  <2>2. CnOK'
    BY <1>1, <1>5, <2>1, MoveTyping, Zenon DEF CnOK, Disconnect
  <2>3. PoolTypeOK'
    BY <1>1, <1>5, UnregisterTyping DEF Disconnect
  <2>. QED  BY <1>1, <2>2, <2>3, PoolTyping
<1>. QED  BY <1>2, <1>3, <1>4, <1>5

\* A pool made for the first request that needs it
LEMMA PoolClientTyping ==
  ASSUME TypeInv, NEW d \in Dbs, NEW m \in Mongos \cup {NoMongo}
  PROVE  /\ PoolClient(d, m) \in Mongos \cup {NoMongo}
         /\ GetPool(d, m) => pools' \in [Dbs -> Mongos \cup {NoMongo, NoPool}]
BY DEF PoolClient, GetPool, TypeInv, TypeOK, PoolTypeOK

\* What GetConnection may give back before it checks a new object out
Replaced(c, d, isTxn) ==
  IF mode = "transaction" /\ isTxn /\ clients[c].txnConn # NoConn
  THEN {clients[c].txnConn} \cap {j \in ConnIds : conns[j].pool = d} ELSE {}

LEMMA ReplacedFinite ==
  ASSUME NEW c, NEW d, NEW isTxn
  PROVE  IsFiniteSet(Replaced(c, d, isTxn))
<1>1. IsFiniteSet({clients[c].txnConn})
  BY FS_Singleton, Zenon
<1>2. Replaced(c, d, isTxn) \in SUBSET {clients[c].txnConn}
  BY DEF Replaced
<1>. QED  BY <1>1, <1>2, FS_Subset

\* NewConnection is a Return of what it replaces, then a checkout
LEMMA NewConnectionTyping ==
  ASSUME TypeInv, NEW c \in Clients, NEW k \in ConnIds, NEW d \in Dbs,
         NEW m \in Mongos \cup {NoMongo}, NEW isTxn \in BOOLEAN, NEW t \in Txns \cup {NoTxn},
         NewConnection(c, k, d, m, isTxn, t), UNCHANGED mode
  PROVE  PoolTypeOK'
<1>. DEFINE K == Replaced(c, d, isTxn)
            x == [pool |-> d, mongo |-> PoolClient(d, m), inUse |-> TRUE,
                  txn |-> IF mode = "transaction" /\ isTxn THEN t ELSE NoTxn]
<1>1. /\ conns' = [ReturnObjects(K) EXCEPT ![k] = x]
      /\ active' = [ReturnCount(K) EXCEPT ![d] = @ + 1]
  BY DEF NewConnection, Replaced
<1>2. x \in PooledConnections
  BY PoolClientTyping DEF PooledConnections
<1>. HIDE DEF x, K
<1>6. IsFiniteSet(K)
  BY ReplacedFinite DEF K
<1>7. ReturnObjects(K) \in [ConnIds -> PooledConnections] /\ ReturnCount(K) \in [Dbs -> Nat]
  BY <1>6, ReturnTyping
<1>8. conns' \in [ConnIds -> PooledConnections] /\ active' \in [Dbs -> Nat]
  BY <1>1, <1>2, <1>7
<1>9. clients' \in [Clients -> Registrations]
  <2>1. clients[c] \in Registrations
    BY DEF TypeInv, TypeOK, PoolTypeOK
  <2>2. \A a, b \in ConnIds \cup {NoConn} :
          [clients[c] EXCEPT !.assigned = a, !.txnConn = b] \in Registrations
    BY <2>1, Zenon DEF Registrations
  <2>3. clients[c].assigned \in ConnIds \cup {NoConn} /\ clients[c].txnConn \in ConnIds \cup {NoConn}
    BY <2>1 DEF Registrations
  <2>4. PICK a \in ConnIds \cup {NoConn}, b \in ConnIds \cup {NoConn} :
          clients' = [clients EXCEPT ![c].assigned = a, ![c].txnConn = b]
    BY <2>3, Zenon DEF NewConnection
  <2>5. clients' = [clients EXCEPT ![c] = [clients[c] EXCEPT !.assigned = a, !.txnConn = b]]
    BY <2>1, <2>4, Zenon DEF TypeInv, TypeOK, PoolTypeOK, Registrations
  <2>. QED  BY <2>2, <2>5, Zenon DEF TypeInv, TypeOK, PoolTypeOK
<1>10. pools' \in [Dbs -> Mongos \cup {NoMongo, NoPool}]
  BY PoolClientTyping DEF NewConnection
<1>. QED  BY <1>8, <1>9, <1>10 DEF PoolTypeOK, TypeInv, TypeOK

\* The steps that get, use and return a pooled connection keep the types
LEMMA TypeConnectionSteps ==
  ASSUME TypeInv, NEW c \in Clients, GetConnection(c) \/ RoundTrip(c) \/ GiveBack(c)
  PROVE  TypeInv'
<1>. DEFINE R == cn[c]
<1>0. /\ R \in Locals /\ LocalsOK(R, made) /\ R.pc \in {"get", "trip", "return"}
      /\ R.db \in Dbs /\ R.kind \in Kinds
  BY Zenon DEF TypeInv, TypeOK, GetConnection, RoundTrip, GiveBack, LocalsOK, Serving
<1>1. UNCHANGED <<mode, routing, proxy>> /\ made' = made
  BY Zenon DEF GetConnection, RoundTrip, GiveBack, poolVars, routing
<1>m. ASSUME NEW q \in Locals, Move(c, q), LocalsOK(q, made) PROVE CnOK'
  BY <1>1, <1>m, MoveTyping DEF CnOK
<1>2. CASE GetConnection(c)
  <2>. DEFINE isTxn == IsTransaction(R.kind)
  <2>1. ASSUME NEW k \in ConnIds, Move(c, [R EXCEPT !.pc = "trip", !.conn = k]) PROVE CnOK'
    <3>. DEFINE q == [R EXCEPT !.pc = "trip", !.conn = k]
    <3>1. q \in Locals
      BY <1>0, Zenon DEF Locals
    <3>2. q.pc = "trip" /\ q.db = R.db /\ q.kind = R.kind /\ q.conn = k
      BY <1>0 DEF Locals
    <3>3. LocalsOK(q, made)
      BY <1>0, <3>2 DEF LocalsOK
    <3>. QED  BY <1>m, <2>1, <3>1, <3>3
  <2>2. R.mongo \in Mongos \cup {NoMongo} /\ R.txn \in Txns \cup {NoTxn} /\ isTxn \in BOOLEAN
    BY <1>0 DEF Locals, IsTransaction
  <2>3. CASE /\ Keeps(c, isTxn, R.txn) /\ GetPool(R.db, R.mongo)
             /\ Move(c, [R EXCEPT !.pc = "trip", !.conn = KeptConnection(c)])
             /\ UNCHANGED <<clients, conns, active>>
    <3>1. clients[c] \in Registrations
      BY DEF TypeInv, TypeOK, PoolTypeOK
    <3>2. KeptConnection(c) \in ConnIds
      BY <2>3, <3>1 DEF KeptConnection, Keeps, Registrations
    <3>3. CnOK'
      BY <2>1, <2>3, <3>2, Zenon
    <3>4. pools' \in [Dbs -> Mongos \cup {NoMongo, NoPool}]
      BY <1>0, <2>2, <2>3, PoolClientTyping
    <3>5. PoolTypeOK'
      BY <1>1, <2>3, <3>4 DEF PoolTypeOK, TypeInv, TypeOK
    <3>. QED  BY <1>1, <1>2, <3>3, <3>5, PoolTyping, Zenon DEF GetConnection
  <2>4. ASSUME NEW k \in ConnIds, NewConnection(c, k, R.db, R.mongo, isTxn, R.txn),
               Move(c, [R EXCEPT !.pc = "trip", !.conn = k])
        PROVE  TypeInv'
    <3>1. CnOK'
      BY <2>1, <2>4, Zenon
    <3>2. PoolTypeOK'
      BY <1>0, <1>1, <2>2, <2>4, NewConnectionTyping, Zenon
    <3>. QED  BY <1>1, <1>2, <3>1, <3>2, PoolTyping, Zenon DEF GetConnection
  <2>. QED  BY <1>2, <2>3, <2>4, Zenon DEF GetConnection
<1>3. CASE RoundTrip(c)
  <2>1. UNCHANGED poolVars
    BY <1>3 DEF RoundTrip
  <2>2. ASSUME Move(c, [R EXCEPT !.pc = "closing", !.conn = NoConn]) PROVE CnOK'
    <3>. DEFINE q == [R EXCEPT !.pc = "closing", !.conn = NoConn]
    <3>1. q \in Locals
      BY <1>0, Zenon DEF Locals
    <3>2. q.pc = "closing" /\ q.conn = NoConn
      BY <1>0 DEF Locals
    <3>3. LocalsOK(q, made)
      BY <3>2, ConnectionsAssumption DEF LocalsOK, Serving
    <3>4. Move(c, q)
      BY <2>2
    <3>. HIDE DEF q
    <3>. QED  BY <1>m, <3>1, <3>3, <3>4, Zenon
  <2>3. ASSUME NEW e \in {"none", "other", "connection"},
               Move(c, [R EXCEPT !.pc = "return", !.err = e])
        PROVE  CnOK'
    <3>. DEFINE q == [R EXCEPT !.pc = "return", !.err = e]
    <3>1. q \in Locals
      BY <1>0, Zenon DEF Locals
    <3>2. q.pc = "return" /\ q.db = R.db /\ q.kind = R.kind /\ q.conn = R.conn
      BY <1>0 DEF Locals
    <3>3. LocalsOK(q, made)
      BY <1>0, <1>3, <3>2, Zenon DEF LocalsOK, RoundTrip
    <3>. QED  BY <1>m, <2>3, <3>1, <3>3
  <2>4. \/ Move(c, [R EXCEPT !.pc = "closing", !.conn = NoConn])
        \/ \E e \in {"none", "other", "connection"} : Move(c, [R EXCEPT !.pc = "return", !.err = e])
    BY ONLY <1>3, Zenon DEF RoundTrip
  <2>5. CnOK'
    BY <2>2, <2>3, <2>4
  <2>6. failures' \in 0 .. MaxFailures
    BY <1>3, ConnectionsAssumption DEF RoundTrip, TypeInv, TypeOK
  <2>. QED  BY <1>1, <2>1, <2>5, <2>6
            DEF TypeInv, TypeOK, PoolTypeOK, CnOK, poolVars, routing, proxy
<1>4. CASE GiveBack(c)
  <2>. DEFINE pc == AfterReturn[R.err]
              q == [R EXCEPT !.pc = pc, !.conn = NoConn]
              K == IF Returned(c, R.conn, IsEndOfTransaction(R.kind)) THEN {R.conn} ELSE {}
  <2>1. pc \in {"answer", "closing", "clear"}
    BY <1>0 DEF AfterReturn, Locals
  <2>2. Move(c, q) /\ Return(K) /\ UNCHANGED <<pools, failures>>
    BY <1>4 DEF GiveBack, ReturnConnection
  <2>. HIDE DEF pc, K
  <2>3. q \in Locals
    BY <1>0, <2>1, Zenon DEF Locals
  <2>4. q.pc = pc /\ q.db = R.db /\ q.kind = R.kind /\ q.conn = NoConn
    BY <1>0 DEF Locals
  <2>5. LocalsOK(q, made)
    BY <1>0, <2>1, <2>4, ConnectionsAssumption DEF LocalsOK, Serving
  <2>6. CnOK'
    BY <1>m, <2>2, <2>3, <2>5
  <2>7. IsFiniteSet(K)
    BY FS_Singleton, FS_EmptySet, Zenon DEF K
  <2>8. conns' \in [ConnIds -> PooledConnections] /\ active' \in [Dbs -> Nat]
    BY <2>2, <2>7, ReturnTyping DEF Return
  <2>9. clients' \in [Clients -> Registrations]
    <3>1. clients[c] \in Registrations
      BY DEF TypeInv, TypeOK, PoolTypeOK
    <3>2. \A b \in ConnIds \cup {NoConn} : [clients[c] EXCEPT !.txnConn = b] \in Registrations
      BY <3>1, Zenon DEF Registrations
    <3>3. PICK b \in ConnIds \cup {NoConn} : clients' = [clients EXCEPT ![c].txnConn = b]
      BY <1>4, <3>1, Zenon DEF GiveBack, ReturnConnection, Registrations
    <3>. QED  BY <3>2, <3>3 DEF TypeInv, TypeOK, PoolTypeOK
  <2>10. PoolTypeOK'
    BY <1>1, <2>2, <2>8, <2>9 DEF PoolTypeOK, TypeInv, TypeOK
  <2>. QED  BY <1>1, <2>2, <2>6, <2>10, PoolTyping
<1>. QED  BY <1>2, <1>3, <1>4

\* Every step keeps the types
LEMMA TypeStep == TypeInv /\ [Next]_vars => TypeInv'
<1>. SUFFICES ASSUME TypeInv, [Next]_vars PROVE TypeInv'
  OBVIOUS
<1>1. CASE UNCHANGED vars
  BY <1>1 DEF vars, TypeInv, TypeOK, PoolTypeOK
<1>2. ASSUME NEW c \in Clients, Connect(c) \/ Request(c) \/ Hangup(c) \/ Progress(c)
      PROVE  TypeInv'
  BY <1>2, TypeLocalSteps, TypeRouteSteps, TypeRegisterSteps, TypeConnectionSteps DEF Progress
<1>3. CASE Shutdown
  BY <1>3 DEF Shutdown, TypeInv, TypeOK, PoolTypeOK, poolVars, routing
<1>4. CASE ShutdownDone
  BY <1>4 DEF ShutdownDone, TypeInv, TypeOK, PoolTypeOK, poolVars, routing
<1>5. ASSUME NEW m \in Mongos, CloseClient(m) PROVE TypeInv'
  <2>1. m \in made
    BY <1>5, ConnectionsAssumption DEF CloseClient, TypeInv, TypeOK
  <2>. QED  BY <1>5, <2>1 DEF CloseClient, TypeInv, TypeOK, PoolTypeOK, poolVars, routing
<1>. QED  BY <1>1, <1>2, <1>3, <1>4, <1>5 DEF Next, Exit

\* The locals of every goroutine, the pool manager's maps and the proxy's table
\* keep their types, whatever clients connect, fail and go.
THEOREM TypeCorrect == Spec => []TypeOK
<1>1. TypeInv => TypeOK
  BY DEF TypeInv
<1>. QED  BY TypeInit, TypeStep, <1>1, PTL DEF Spec

-----------------------------------------------------------------------------
(* The clients of the routes *)

\* Who moves, and where
LEMMA Moved ==
  ASSUME TypeInv, NEW c \in Clients, NEW q, Move(c, q)
  PROVE  cn'[c] = q /\ \A b \in Clients \ {c} : cn'[b] = cn[b]
BY DEF TypeInv, TypeOK, Move

LEMMA Gone ==
  ASSUME TypeInv, NEW c \in Clients, NEW pc, Goto(c, pc)
  PROVE  /\ cn'[c].pc = pc /\ cn'[c].db = cn[c].db /\ cn'[c].mongo = cn[c].mongo
         /\ cn'[c].conn = cn[c].conn /\ cn'[c].err = cn[c].err
         /\ \A b \in Clients \ {c} : cn'[b] = cn[b]
<1>1. cn[c] \in Locals
  BY DEF TypeInv, TypeOK
<1>2. cn'[c] = [cn[c] EXCEPT !.pc = pc] /\ \A b \in Clients \ {c} : cn'[b] = cn[b]
  BY Moved DEF Goto
<1>. QED  BY <1>1, <1>2 DEF Locals

\* The steps of a goroutine that have nothing to do with the making, the
\* tracking or the clearing of a client
Quiet(c) ==
  \/ Connect(c) \/ Request(c) \/ Hangup(c) \/ CheckClient(c) \/ UseClient(c) \/ LazyCheck(c)
  \/ EnterPool(c) \/ Register(c) \/ GetConnection(c) \/ RoundTrip(c) \/ GiveBack(c)
  \/ Answer(c) \/ Disconnect(c)

LEMMA NextSteps ==
  ASSUME [Next]_vars
  PROVE  \/ \E c \in Clients : Quiet(c) \/ LazyCreate(c) \/ Track(c) \/ ClearClient(c)
         \/ Shutdown \/ ShutdownDone \/ (\E m \in Mongos : CloseClient(m)) \/ UNCHANGED vars
BY Zenon DEF Next, Progress, Exit, Quiet

LEMMA QuietFrame ==
  ASSUME NEW c, Quiet(c)
  PROVE  UNCHANGED <<routing, proxy>>
BY Zenon DEF Quiet, Connect, Request, Hangup, CheckClient, UseClient, LazyCheck,
             EnterPool, Register, GetConnection, RoundTrip, GiveBack, Answer, Disconnect

LEMMA MadeInit == Init => MadeInv
<1>. SUFFICES ASSUME Init PROVE MadeInv
  OBVIOUS
<1>. DEFINE f == [r \in Equipped |-> routeClient[r]]
<1>1. f \in Surjection(Equipped, made)
  <2>1. \A r \in Equipped : routeClient[r] \in made
    BY DEF Init, Equipped
  <2>2. \A m \in made : \E r \in Equipped : routeClient[r] = m
    BY DEF Init, Equipped
  <2>. QED  BY <2>1, <2>2 DEF Surjection
<1>2. IsFiniteSet(Equipped)
  BY FS_Subset, ConnectionsAssumption DEF Equipped
<1>3. IsFiniteSet(made) /\ Cardinality(made) <= Cardinality(Equipped)
  BY <1>1, <1>2, FS_Surjection
<1>4. cleared = 0 /\ Cardinality(Equipped) \in Nat
  BY <1>2, FS_CardinalityType DEF Init
<1>. QED  BY <1>3, <1>4 DEF MadeInv

LEMMA MadeStep ==
  ASSUME TypeInv, MadeInv, [Next]_vars
  PROVE  MadeInv'
<1>1. IsFiniteSet(Equipped) /\ Cardinality(Equipped) \in Nat
  BY FS_Subset, FS_CardinalityType, ConnectionsAssumption DEF Equipped
<1>2. cleared \in Nat /\ Cardinality(made) \in Nat
  BY FS_CardinalityType DEF TypeInv, TypeOK, MadeInv
<1>3. CASE UNCHANGED routing
  BY <1>3 DEF routing, MadeInv, Equipped
<1>4. ASSUME NEW c \in Clients, LazyCreate(c) PROVE MadeInv'
  <2>1. cleared' = cleared /\ Route(c) \in Routes
    BY <1>4, ConnectionsAssumption, Zenon DEF LazyCreate, TypeInv, LocalsOK, Serving, Route
  <2>2. ASSUME NEW m \in Mongos \ made, made' = made \cup {m}, routeClient[Route(c)] = NoMongo,
               routeClient' = [routeClient EXCEPT ![Route(c)] = m]
        PROVE  MadeInv'
    <3>1. IsFiniteSet(made') /\ Cardinality(made') = Cardinality(made) + 1
      BY <2>2, FS_AddElement DEF MadeInv
    <3>2. Equipped' = Equipped \cup {Route(c)} /\ Route(c) \notin Equipped
      BY <2>1, <2>2, ConnectionsAssumption DEF Equipped, TypeInv, TypeOK
    <3>3. Cardinality(Equipped') = Cardinality(Equipped) + 1
      BY <1>1, <3>2, FS_AddElement, Zenon
    <3>. QED  BY <1>1, <1>2, <2>1, <3>1, <3>3 DEF MadeInv
  <2>3. CASE UNCHANGED <<made, routeClient>>
    BY <1>3, <2>1, <2>3 DEF routing
  <2>. QED  BY <1>4, <2>2, <2>3, ZenonT(30) DEF LazyCreate
<1>5. ASSUME NEW c \in Clients, ClearClient(c) PROVE MadeInv'
  <2>. DEFINE r == Route(c)
  <2>1. /\ made' = made /\ routeClient' = [routeClient EXCEPT ![r] = NoMongo]
        /\ cleared' = cleared + (IF routeClient[r] # NoMongo THEN 1 ELSE 0)
    BY <1>5 DEF ClearClient
  <2>2. r \in Routes
    BY <1>5, ConnectionsAssumption, Zenon DEF ClearClient, TypeInv, LocalsOK, Serving, Route
  <2>. HIDE DEF r
  <2>3. Equipped' = Equipped \ {r} /\ (r \in Equipped <=> routeClient[r] # NoMongo)
    BY <2>1, <2>2 DEF Equipped, TypeInv, TypeOK
  <2>4. Cardinality(Equipped') = Cardinality(Equipped) - (IF routeClient[r] # NoMongo THEN 1 ELSE 0)
    <3>1. Cardinality(Equipped \ {r}) =
            IF r \in Equipped THEN Cardinality(Equipped) - 1 ELSE Cardinality(Equipped)
      BY <1>1, FS_RemoveElement, Zenon
    <3>. QED  BY <1>1, <2>3, <3>1
  <2>. QED  BY <1>1, <1>2, <2>1, <2>4 DEF MadeInv
<1>6. ASSUME NEW c \in Clients, Quiet(c) \/ Track(c) PROVE MadeInv'
  BY <1>3, <1>6, QuietFrame, Zenon DEF Track
<1>7. ASSUME Shutdown \/ ShutdownDone \/ (\E m \in Mongos : CloseClient(m)) PROVE UNCHANGED routing
  BY <1>7, Zenon DEF Shutdown, ShutdownDone, CloseClient
<1>8. UNCHANGED vars => UNCHANGED routing
  BY DEF vars, routing
<1>. QED  BY <1>3, <1>4, <1>5, <1>6, <1>7, <1>8, NextSteps, Zenon

\* However many requests find the client of a route missing at the same time
\* (createLazyMongoClient), they make one: over the life of the proxy there are
\* at most as many clients as routes and clearings after connection errors.
THEOREM NoSpareClients == Spec => []OneClientPerClear
<1>1. TypeInv /\ MadeInv => OneClientPerClear
  <2>. SUFFICES ASSUME TypeInv, MadeInv PROVE OneClientPerClear
    OBVIOUS
  <2>1. /\ IsFiniteSet(Routes) /\ IsFiniteSet(Equipped)
        /\ Cardinality(Equipped) <= Cardinality(Routes)
    BY FS_Subset, ConnectionsAssumption DEF Equipped
  <2>2. /\ Cardinality(Equipped) \in Nat /\ Cardinality(Routes) \in Nat
        /\ Cardinality(made) \in Nat /\ cleared \in Nat
    BY <2>1, FS_CardinalityType DEF MadeInv, TypeInv, TypeOK
  <2>. QED  BY <2>1, <2>2 DEF MadeInv, OneClientPerClear
<1>. QED  BY TypeInit, TypeStep, MadeInit, MadeStep, <1>1, PTL DEF Spec

\* A goroutine that is about to track a client stays there, and no other comes
StillTracks(b) ==
  \/ cn'[b] = cn[b]
  \/ cn[b].pc # "track" /\ cn'[b].pc # "track"

\* A step that touches neither routes nor tracking, in which no goroutine
\* starts or stops tracking
LEMMA TrackFrame ==
  ASSUME TrackInv, routeClient' = routeClient, tracked' = tracked, closed \subseteq closed',
         \A b \in Clients : StillTracks(b)
  PROVE  TrackInv'
<1>1. \A b \in Clients : cn'[b].pc = "track" <=> cn[b].pc = "track"
  BY DEF StillTracks
<1>2. \A b \in Clients : cn[b].pc = "track" => cn'[b] = cn[b]
  BY DEF StillTracks
<1>3. CurrentClientTracked'
  BY <1>1, <1>2 DEF TrackInv, CurrentClientTracked
<1>. QED  BY <1>1, <1>2, <1>3, Zenon DEF TrackInv, Route, RouteOfKey

LEMMA QuietMoves ==
  ASSUME TypeInv, NEW c \in Clients, Quiet(c)
  PROVE  \A b \in Clients : StillTracks(b)
<1>0. cn[c] \in Locals
  BY DEF TypeInv, TypeOK
<1>1. ASSUME NEW q, Move(c, q), cn[c].pc # "track", q.pc # "track"
      PROVE  \A b \in Clients : StillTracks(b)
  <2>1. cn'[c] = q /\ \A b \in Clients \ {c} : cn'[b] = cn[b]
    BY <1>1, Moved
  <2>. QED  BY <1>1, <2>1 DEF StillTracks
<1>2. ASSUME NEW pc, Goto(c, pc), cn[c].pc # "track", pc # "track"
      PROVE  \A b \in Clients : StillTracks(b)
  <2>1. cn'[c].pc = pc /\ \A b \in Clients \ {c} : cn'[b] = cn[b]
    BY <1>2, Gone
  <2>. QED  BY <1>2, <2>1 DEF StillTracks
<1>3. CASE Connect(c) \/ Hangup(c)
  BY <1>2, <1>3 DEF Connect, Hangup
<1>4. CASE CheckClient(c) \/ LazyCheck(c)
  BY <1>2, <1>4, Zenon DEF CheckClient, LazyCheck
<1>5. CASE Request(c)
  <2>1. PICK d, kind, t :
               Move(c, [cn[c] EXCEPT !.pc = "route", !.db = d, !.kind = kind, !.txn = t])
    BY <1>5, Zenon DEF Request
  <2>2. [cn[c] EXCEPT !.pc = "route", !.db = d, !.kind = kind, !.txn = t].pc = "route"
    BY <1>0 DEF Locals
  <2>. QED  BY <1>1, <1>5, <2>1, <2>2, Zenon DEF Request
<1>6. CASE UseClient(c)
  <2>1. [cn[c] EXCEPT !.pc = "pool", !.mongo = routeClient[Route(c)]].pc = "pool"
    BY <1>0 DEF Locals
  <2>. QED  BY <1>1, <1>6, <2>1, Zenon DEF UseClient
<1>7. CASE EnterPool(c)
  BY <1>2, <1>7, Zenon DEF EnterPool
<1>8. CASE Register(c)
  BY <1>2, <1>8, Zenon DEF Register
<1>9. CASE GetConnection(c)
  <2>1. PICK k : Move(c, [cn[c] EXCEPT !.pc = "trip", !.conn = k])
    BY <1>9, Zenon DEF GetConnection
  <2>2. [cn[c] EXCEPT !.pc = "trip", !.conn = k].pc = "trip"
    BY <1>0 DEF Locals
  <2>. QED  BY <1>1, <1>9, <2>1, <2>2, Zenon DEF GetConnection
<1>10. CASE RoundTrip(c)
  <2>1. \/ Move(c, [cn[c] EXCEPT !.pc = "closing", !.conn = NoConn])
        \/ \E e : Move(c, [cn[c] EXCEPT !.pc = "return", !.err = e])
    BY <1>10, Zenon DEF RoundTrip
  <2>2. [cn[c] EXCEPT !.pc = "closing", !.conn = NoConn].pc = "closing"
    BY <1>0 DEF Locals
  <2>3. \A e : [cn[c] EXCEPT !.pc = "return", !.err = e].pc = "return"
    BY <1>0 DEF Locals
  <2>. QED  BY <1>1, <1>10, <2>1, <2>2, <2>3, Zenon DEF RoundTrip
<1>11. CASE GiveBack(c)
  <2>1. [cn[c] EXCEPT !.pc = AfterReturn[cn[c].err], !.conn = NoConn].pc # "track"
    BY <1>0 DEF Locals, AfterReturn
  <2>. QED  BY <1>1, <1>11, <2>1, Zenon DEF GiveBack
<1>12. CASE Answer(c)
  <2>1. [Off EXCEPT !.pc = "idle"].pc = "idle"
    BY DEF Off
  <2>. QED  BY <1>1, <1>2, <1>12, <2>1, Zenon DEF Answer
<1>13. CASE Disconnect(c)
  <2>1. Off.pc = "off"
    BY DEF Off
  <2>. QED  BY <1>1, <1>13, <2>1 DEF Disconnect
<1>. QED  BY <1>3, <1>4, <1>5, <1>6, <1>7, <1>8, <1>9, <1>10, <1>11, <1>12, <1>13 DEF Quiet

LEMMA TrackInit == Init => TrackInv
<1>. SUFFICES ASSUME Init PROVE TrackInv
  OBVIOUS
<1>1. \A r, s \in Routes : routeClient[r] = routeClient[s] /\ r # s => routeClient[r] = NoMongo
  BY DEF Init
<1>2. ASSUME NEW i \in Keys, NEW r \in Routes, tracked[i] = routeClient[r], r # RouteOfKey(i)
      PROVE  tracked[i] = NoMongo
  <2>1. i \in Routes => RouteOfKey(i) = i
    BY ConnectionsAssumption DEF RouteOfKey
  <2>. QED  BY <1>1, <1>2, <2>1 DEF Init
<1>3. \A c \in Clients : cn[c].pc # "track"
  BY DEF Init, Off
<1>4. CurrentClientTracked
  BY DEF Init, CurrentClientTracked, Keys
<1>. QED  BY <1>1, <1>2, <1>3, <1>4, Zenon DEF TrackInv

\* The new client of a route is nobody else's, and its maker tracks it next
LEMMA TrackMake ==
  ASSUME TypeInv, TrackInv, NEW c \in Clients, NEW m \in Mongos \ made,
         ~ RouteLocked(Route(c)), cn[c].pc = "lock",
         routeClient' = [routeClient EXCEPT ![Route(c)] = m],
         Move(c, [cn[c] EXCEPT !.pc = "track", !.mongo = m]), UNCHANGED <<closed, tracked>>
  PROVE  TrackInv'
<1>. DEFINE s == Route(c)
<1>1. s \in Routes
  BY ConnectionsAssumption DEF TypeInv, LocalsOK, Serving, Route
<1>2. /\ cn'[c].pc = "track" /\ cn'[c].mongo = m /\ cn'[c].db = cn[c].db
      /\ \A b \in Clients \ {c} : cn'[b] = cn[b]
  <2>. DEFINE q == [cn[c] EXCEPT !.pc = "track", !.mongo = m]
  <2>1. cn'[c] = q /\ \A b \in Clients \ {c} : cn'[b] = cn[b]
    BY Moved
  <2>2. q.pc = "track" /\ q.mongo = m /\ q.db = cn[c].db
    BY DEF TypeInv, TypeOK, Locals
  <2>. QED  BY <2>1, <2>2
<1>3. /\ routeClient'[s] = m /\ m # NoMongo
      /\ \A r \in Routes \ {s} : routeClient'[r] = routeClient[r]
      /\ \A r \in Routes : routeClient[r] # m
      /\ \A i \in Keys : tracked[i] # m
  BY <1>1, ConnectionsAssumption DEF TypeInv, TypeOK
<1>4. \A b \in Clients \ {c} : cn[b].pc = "track" => Route(b) # s
  BY DEF RouteLocked
<1>. HIDE DEF s
<1>5. \A r, t \in Routes : routeClient'[r] = routeClient'[t] /\ r # t => routeClient'[r] = NoMongo
  BY <1>3 DEF TrackInv
<1>6. \A i \in Keys, r \in Routes :
        tracked'[i] = routeClient'[r] /\ r # RouteOfKey(i) => tracked'[i] = NoMongo
  BY <1>3 DEF TrackInv
<1>7. ASSUME NEW b \in Clients, cn'[b].pc = "track" PROVE cn'[b].mongo = routeClient'[Route(b)']
  <2>1. CASE b = c
    <3>1. Route(c)' = s
      BY <1>2 DEF Route, s
    <3>. QED  BY <1>2, <1>3, <2>1, <3>1
  <2>2. CASE b # c
    <3>1. cn[b].pc = "track" /\ Route(b)' = Route(b) /\ cn'[b].mongo = cn[b].mongo
      BY <1>2, <1>7, <2>2 DEF Route
    <3>2. Route(b) \in Routes
      BY <3>1, ConnectionsAssumption DEF TypeInv, LocalsOK, Serving, Route
    <3>. QED  BY <1>3, <1>4, <2>2, <3>1, <3>2 DEF TrackInv
  <2>. QED  BY <2>1, <2>2
<1>8. ASSUME NEW r \in Routes
      PROVE  \/ routeClient'[r] \in {tracked'[i] : i \in Keys} \cup closed' \cup {NoMongo}
             \/ \E b \in Clients : cn'[b].pc = "track" /\ cn'[b].mongo = routeClient'[r]
  <2>1. CASE r = s
    BY <1>2, <1>3, <2>1
  <2>2. CASE r # s
    <3>1. routeClient'[r] = routeClient[r]
      BY <1>3, <2>2
    <3>2. \A b \in Clients : cn[b].pc = "track" => cn'[b] = cn[b]
      BY <1>2
    <3>. QED  BY <3>1, <3>2 DEF TrackInv, CurrentClientTracked
  <2>. QED  BY <2>1, <2>2
<1>. QED  BY <1>5, <1>6, <1>7, <1>8 DEF TrackInv, CurrentClientTracked, RouteOfKey

\* RegisterMongoClient replaces under a key only a client of the same route
LEMMA TrackTrack ==
  ASSUME TypeInv, TrackInv, NEW c \in Clients, Track(c)
  PROVE  TrackInv'
<1>. DEFINE s == Route(c)
            d == cn[c].db
<1>1. s \in Routes /\ d \in Dbs /\ d \in Keys /\ RouteOfKey(d) = s
  BY ConnectionsAssumption, Zenon DEF Track, TypeInv, LocalsOK, Serving, Route, RouteOfKey, Keys
<1>2. cn[c].pc = "track" /\ cn[c].mongo = routeClient[s]
  BY Zenon DEF Track, TrackInv
<1>3. /\ tracked'[d] = routeClient[s] /\ \A i \in Keys \ {d} : tracked'[i] = tracked[i]
      /\ routeClient' = routeClient /\ closed' = closed
  BY <1>1, <1>2, Zenon DEF Track, TypeInv, TypeOK, routing
<1>4. cn'[c].pc = "pool" /\ \A b \in Clients \ {c} : cn'[b] = cn[b]
  BY Gone, Zenon DEF Track
<1>. HIDE DEF s, d
<1>5. ASSUME NEW i \in Keys, NEW r \in Routes, tracked'[i] = routeClient[r], r # RouteOfKey(i)
      PROVE  tracked'[i] = NoMongo
  BY <1>1, <1>3, <1>5, Zenon DEF TrackInv
<1>6. \A b \in Clients : cn'[b].pc = "track" => cn'[b].mongo = routeClient[Route(b)']
  BY <1>4, Zenon DEF TrackInv, Route
<1>7. ASSUME NEW r \in Routes
      PROVE  \/ routeClient[r] \in {tracked'[i] : i \in Keys} \cup closed \cup {NoMongo}
             \/ \E b \in Clients : cn'[b].pc = "track" /\ cn'[b].mongo = routeClient[r]
  <2>1. CASE routeClient[r] \in closed \cup {NoMongo}
    BY <2>1, Zenon
  <2>2. ASSUME NEW i \in Keys, routeClient[r] = tracked[i], routeClient[r] # NoMongo
        PROVE  \E j \in Keys : routeClient[r] = tracked'[j]
    BY <1>1, <1>3, <2>2, Zenon DEF TrackInv
  <2>3. ASSUME NEW b \in Clients, cn[b].pc = "track", cn[b].mongo = routeClient[r],
               routeClient[r] # NoMongo
        PROVE  \/ \E j \in Keys : routeClient[r] = tracked'[j]
               \/ cn'[b].pc = "track" /\ cn'[b].mongo = routeClient[r]
    BY <1>1, <1>2, <1>3, <1>4, <2>3, Zenon
  <2>. QED  BY <2>1, <2>2, <2>3, Zenon DEF TrackInv, CurrentClientTracked
<1>. QED  BY <1>3, <1>5, <1>6, <1>7, Zenon DEF TrackInv, CurrentClientTracked, RouteOfKey

\* A client is cleared when nobody holds its route's lock to track it
LEMMA TrackClear ==
  ASSUME TypeInv, TrackInv, NEW c \in Clients, ClearClient(c)
  PROVE  TrackInv'
<1>. DEFINE s == Route(c)
<1>1. s \in Routes /\ cn[c].pc = "clear"
  BY ConnectionsAssumption, Zenon DEF ClearClient, TypeInv, LocalsOK, Serving, Route
<1>2. /\ routeClient'[s] = NoMongo /\ \A r \in Routes \ {s} : routeClient'[r] = routeClient[r]
      /\ tracked' = tracked /\ closed' = closed
  BY <1>1 DEF ClearClient, TypeInv, TypeOK, proxy
<1>3. \A b \in Clients : cn[b].pc = "track" => Route(b) # s
  BY Zenon DEF ClearClient, RouteLocked
<1>4. cn'[c].pc = "closing" /\ \A b \in Clients \ {c} : cn'[b] = cn[b]
  BY Gone, Zenon DEF ClearClient
<1>. HIDE DEF s
<1>5. ASSUME NEW b \in Clients, cn'[b].pc = "track" PROVE cn'[b].mongo = routeClient'[Route(b)']
  <2>1. cn[b].pc = "track" /\ cn'[b] = cn[b] /\ Route(b)' = Route(b)
    BY <1>4, <1>5 DEF Route
  <2>2. Route(b) \in Routes
    BY <2>1, ConnectionsAssumption, Zenon DEF TypeInv, LocalsOK, Serving, Route
  <2>. QED  BY <1>2, <1>3, <2>1, <2>2, Zenon DEF TrackInv
<1>6. \A b \in Clients : cn[b].pc = "track" => cn'[b] = cn[b]
  BY <1>1, <1>4
<1>7. CurrentClientTracked'
  BY <1>2, <1>6 DEF TrackInv, CurrentClientTracked
<1>8. \A r, t \in Routes : routeClient'[r] = routeClient'[t] /\ r # t => routeClient'[r] = NoMongo
  BY <1>2 DEF TrackInv
<1>9. \A i \in Keys, r \in Routes :
        tracked'[i] = routeClient'[r] /\ r # RouteOfKey(i) => tracked'[i] = NoMongo
  BY <1>2, Zenon DEF TrackInv
<1>. QED  BY <1>5, <1>7, <1>8, <1>9, Zenon DEF TrackInv, RouteOfKey

LEMMA TrackStep ==
  ASSUME TypeInv, TrackInv, [Next]_vars
  PROVE  TrackInv'
<1>1. ASSUME NEW c \in Clients, Quiet(c) PROVE TrackInv'
  <2>1. UNCHANGED <<routing, proxy>>
    BY <1>1, QuietFrame
  <2>2. \A b \in Clients : StillTracks(b)
    BY <1>1, QuietMoves
  <2>. QED  BY <2>1, <2>2, TrackFrame DEF routing, proxy
<1>2. ASSUME NEW c \in Clients, LazyCreate(c) PROVE TrackInv'
  <2>1. UNCHANGED <<closed, tracked>> /\ cn[c].pc = "lock" /\ ~ RouteLocked(Route(c))
    BY <1>2, Zenon DEF LazyCreate, proxy
  <2>2. ASSUME NEW q, Move(c, q), q.pc # "track", routeClient' = routeClient PROVE TrackInv'
    <3>1. cn'[c] = q /\ \A b \in Clients \ {c} : cn'[b] = cn[b]
      BY <2>2, Moved
    <3>2. \A b \in Clients : StillTracks(b)
      BY <2>1, <2>2, <3>1, Zenon DEF StillTracks
    <3>. QED  BY <2>1, <2>2, <3>2, TrackFrame
  <2>3. /\ [cn[c] EXCEPT !.pc = "pool", !.mongo = routeClient[Route(c)]].pc = "pool"
        /\ [cn[c] EXCEPT !.pc = "closing"].pc = "closing"
    BY DEF TypeInv, TypeOK, Locals
  <2>4. CASE /\ Move(c, [cn[c] EXCEPT !.pc = "pool", !.mongo = routeClient[Route(c)]])
             /\ UNCHANGED <<made, routeClient>>
    BY <2>2, <2>3, <2>4, Zenon
  <2>5. CASE Goto(c, "closing") /\ UNCHANGED <<made, routeClient>>
    BY <2>2, <2>3, <2>5, Zenon DEF Goto
  <2>6. ASSUME NEW m \in Mongos \ made, routeClient' = [routeClient EXCEPT ![Route(c)] = m],
               Move(c, [cn[c] EXCEPT !.pc = "track", !.mongo = m])
        PROVE  TrackInv'
    BY <2>1, <2>6, TrackMake, Zenon
  <2>. QED  BY <1>2, <2>4, <2>5, <2>6, ZenonT(30) DEF LazyCreate
<1>3. ASSUME NEW c \in Clients, Track(c) \/ ClearClient(c) PROVE TrackInv'
  BY <1>3, TrackTrack, TrackClear
<1>4. CASE Shutdown \/ (\E m \in Mongos : CloseClient(m)) \/ UNCHANGED vars
  <2>1. /\ routeClient' = routeClient /\ tracked' = tracked /\ closed \subseteq closed'
        /\ cn' = cn
    BY <1>4 DEF Shutdown, CloseClient, vars, routing
  <2>. QED  BY <2>1, TrackFrame DEF StillTracks
<1>5. CASE ShutdownDone
  <2>1. /\ routeClient' = routeClient /\ closed' = closed /\ cn' = cn
        /\ \A i \in Keys : tracked[i] \in closed \cup {NoMongo} /\ tracked'[i] = NoMongo
    BY <1>5 DEF ShutdownDone, routing
  <2>2. CurrentClientTracked'
    BY <2>1, Zenon DEF TrackInv, CurrentClientTracked
  <2>. QED  BY <2>1, <2>2 DEF TrackInv, RouteOfKey, Route
<1>. QED  BY <1>1, <1>2, <1>3, <1>4, <1>5, NextSteps, Zenon

\* Through lazy creation, clearing, the re-use of keys by RegisterMongoClient
\* and shutdown, the proxy never loses sight of a client some route still uses.
THEOREM ClientsTracked == Spec => []CurrentClientTracked
<1>1. TrackInv => CurrentClientTracked
  BY DEF TrackInv
<1>. QED  BY TypeInit, TypeStep, TrackInit, TrackStep, <1>1, PTL DEF Spec

-----------------------------------------------------------------------------
(* The limit on clients *)

LEMMA LimitInit == Init => LimitInv
<1>. SUFFICES ASSUME Init PROVE LimitInv
  OBVIOUS
<1>1. Enrolled = {}
  BY Zenon DEF Init, PoolInit, Enrolled, Registered, Unregistered
<1>2. ClientCount = 0 /\ IsFiniteSet(Enrolled)
  BY <1>1, FS_EmptySet DEF ClientCount, Enrolled
<1>. QED  BY <1>2, ConnectionsAssumption DEF LimitInv, ClientLimit

\* A step that registers and unregisters nobody
LEMMA LimitFrame ==
  ASSUME LimitInv, \A b \in Clients : clients'[b].db = clients[b].db
  PROVE  LimitInv'
<1>1. Enrolled' = Enrolled
  BY Zenon DEF Enrolled, Registered
<1>2. ClientCount = Cardinality(Enrolled) /\ ClientCount' = Cardinality(Enrolled')
  BY DEF ClientCount, Enrolled
<1>. QED  BY <1>1, <1>2 DEF LimitInv, ClientLimit

LEMMA LimitRegister ==
  ASSUME TypeInv, LimitInv, NEW c \in Clients, NEW d \in Dbs \cup {DefaultDb},
         MayRegister(c), RegisterClient(c, d)
  PROVE  LimitInv'
<1>1. CASE Registered(c)
  BY <1>1, LimitFrame DEF RegisterClient
<1>2. CASE ~ Registered(c)
  <2>1. clients' = [clients EXCEPT ![c] = [Unregistered EXCEPT !.db = d]]
    BY <1>2 DEF RegisterClient
  <2>2. /\ clients'[c].db = d /\ d # NoDb
        /\ \A b \in Clients \ {c} : clients'[b] = clients[b]
    BY <2>1, ConnectionsAssumption DEF TypeInv, TypeOK, PoolTypeOK, Unregistered
  <2>3. Enrolled' = Enrolled \cup {c} /\ c \notin Enrolled
    BY <1>2, <2>2, Zenon DEF Enrolled, Registered
  <2>4. /\ IsFiniteSet(Enrolled') /\ Cardinality(Enrolled') = Cardinality(Enrolled) + 1
        /\ Cardinality(Enrolled) \in Nat
    BY <2>3, FS_AddElement, FS_CardinalityType DEF LimitInv
  <2>5. ClientCount = Cardinality(Enrolled) /\ ClientCount' = Cardinality(Enrolled')
    BY DEF ClientCount, Enrolled
  <2>. QED  BY <1>2, <2>4, <2>5, ConnectionsAssumption DEF LimitInv, ClientLimit, MayRegister
<1>. QED  BY <1>1, <1>2

LEMMA LimitUnregister ==
  ASSUME TypeInv, LimitInv, NEW c \in Clients, UnregisterClient(c)
  PROVE  LimitInv'
<1>1. clients'[c].db = NoDb /\ \A b \in Clients \ {c} : clients'[b] = clients[b]
  BY Zenon DEF UnregisterClient, TypeInv, TypeOK, PoolTypeOK, Unregistered
<1>2. Enrolled' = Enrolled \ {c}
  BY <1>1, Zenon DEF Enrolled, Registered
<1>3. /\ IsFiniteSet(Enrolled') /\ Cardinality(Enrolled') <= Cardinality(Enrolled)
      /\ Cardinality(Enrolled) \in Nat /\ Cardinality(Enrolled') \in Nat
  BY <1>2, FS_Subset, FS_CardinalityType DEF LimitInv
<1>4. ClientCount = Cardinality(Enrolled) /\ ClientCount' = Cardinality(Enrolled')
  BY DEF ClientCount, Enrolled
<1>. QED  BY <1>3, <1>4, ConnectionsAssumption DEF LimitInv, ClientLimit

\* The steps that leave the pool manager alone
Local(c) ==
  \/ Request(c) \/ Hangup(c) \/ CheckClient(c) \/ UseClient(c) \/ LazyCheck(c) \/ LazyCreate(c)
  \/ Track(c) \/ RoundTrip(c) \/ ClearClient(c) \/ Answer(c)

LEMMA LocalFrame ==
  ASSUME NEW c, Local(c)
  PROVE  UNCHANGED poolVars
BY Zenon DEF Local, Request, Hangup, CheckClient, UseClient, LazyCheck, LazyCreate, Track,
             RoundTrip, ClearClient, Answer

LEMMA PoolSteps ==
  ASSUME [Next]_vars
  PROVE  \/ \E c \in Clients : \/ Local(c) \/ Connect(c) \/ EnterPool(c) \/ Register(c)
                               \/ GetConnection(c) \/ GiveBack(c) \/ Disconnect(c)
         \/ UNCHANGED <<poolVars, cn, routing>>
<1>1. Shutdown \/ ShutdownDone \/ (\E m \in Mongos : CloseClient(m)) => UNCHANGED <<poolVars, cn, routing>>
  BY Zenon DEF Shutdown, ShutdownDone, CloseClient
<1>2. UNCHANGED vars => UNCHANGED <<poolVars, cn, routing>>
  BY DEF vars, poolVars, routing
<1>. QED  BY <1>1, <1>2, Zenon DEF Next, Progress, Exit, Local

LEMMA LimitStep ==
  ASSUME TypeInv, LimitInv, [Next]_vars
  PROVE  LimitInv'
<1>1. CASE UNCHANGED clients
  BY <1>1, LimitFrame
<1>2. ASSUME NEW c \in Clients, Local(c) PROVE LimitInv'
  BY <1>1, <1>2, LocalFrame DEF poolVars
<1>3. ASSUME NEW c \in Clients, Connect(c) PROVE LimitInv'
  BY <1>1, <1>3, LimitRegister, Zenon DEF Connect
<1>4. ASSUME NEW c \in Clients, Register(c) PROVE LimitInv'
  <2>1. cn[c].db \in Dbs
    BY <1>4, Zenon DEF Register, TypeInv, LocalsOK, Serving
  <2>. QED  BY <1>1, <1>4, <2>1, LimitRegister, Zenon DEF Register
<1>5. ASSUME NEW c \in Clients, EnterPool(c) \/ Disconnect(c) PROVE LimitInv'
  BY <1>1, <1>5, LimitUnregister, Zenon DEF EnterPool, Disconnect
<1>6. ASSUME NEW c \in Clients, GetConnection(c) PROVE LimitInv'
  <2>1. ASSUME NEW k, NEW t, NewConnection(c, k, cn[c].db, cn[c].mongo, IsTransaction(cn[c].kind), t)
        PROVE  \A b \in Clients : clients'[b].db = clients[b].db
    BY <2>1 DEF NewConnection, TypeInv, TypeOK, PoolTypeOK, Registrations
  <2>. QED  BY <1>1, <1>6, <2>1, LimitFrame, Zenon DEF GetConnection
<1>7. ASSUME NEW c \in Clients, GiveBack(c) PROVE LimitInv'
  <2>1. \A b \in Clients : clients'[b].db = clients[b].db
    BY <1>7 DEF GiveBack, ReturnConnection, TypeInv, TypeOK, PoolTypeOK, Registrations
  <2>. QED  BY <2>1, LimitFrame
<1>8. UNCHANGED <<poolVars, cn, routing>> => UNCHANGED clients
  BY DEF poolVars
<1>. QED  BY <1>1, <1>2, <1>3, <1>4, <1>5, <1>6, <1>7, <1>8, PoolSteps, Zenon

\* max_client_conn is a limit on the registered clients at every moment: the
\* check and the insertion of RegisterClient are one step, and a change of
\* database or a refusal frees no more than it should.
THEOREM LimitKept == Spec => []ClientLimit
<1>1. LimitInv => ClientLimit
  BY DEF LimitInv
<1>. QED  BY TypeInit, TypeStep, LimitInit, LimitStep, <1>1, PTL DEF Spec
=============================================================================

----------------------- MODULE ClientConnectionsProofs -----------------------
(***************************************************************************)
(* Proofs about the pool manager and the goroutines that use it, for any   *)
(* number of clients, databases, routes and Mongo clients: the counts of   *)
(* its pools, the Mongo client in a pooled connection, and who holds a     *)
(* connection that is in use.                                              *)
(***************************************************************************)
EXTENDS ClientConnectionsTypes

-----------------------------------------------------------------------------
(* The invariants *)

\* The connections of a pool that are in use, among the objects C
InUse(C, d) == {k \in ConnIds : C[k].inUse /\ C[k].pool = d}

\* The counts A are right for the objects C
Counted(C, A) ==
  \A d \in Dbs : IsFiniteSet(InUse(C, d)) /\ A[d] = Cardinality(InUse(C, d))

\* What a client keeps, by the pool mode: it is the client's own, and in use in
\* the pool of its database
KeepInv(c) ==
  /\ \A k \in Kept(c) : k[1] = c /\ conns[k].inUse /\ conns[k].pool = clients[c].db
  /\ mode = "session" => clients[c].txnConn = NoConn
  /\ mode # "session" => clients[c].assigned = NoConn
  /\ mode = "statement" => clients[c].txnConn = NoConn
  /\ ~ Registered(c) => Kept(c) = {}

\* What a goroutine has between GetConnection and ReturnConnection
UseInv(c) ==
  LET q == cn[c] IN
  /\ q.pc = "register" => ~ Registered(c)
  /\ q.pc = "get" => clients[c].db = q.db
  /\ q.pc \in {"trip", "return"} =>
       /\ clients[c].db = q.db
       /\ q.conn[1] = c /\ conns[q.conn].inUse /\ conns[q.conn].pool = q.db
       /\ mode = "session" => q.conn = clients[c].assigned
       /\ mode = "transaction" => (q.conn = clients[c].txnConn <=> IsTransaction(q.kind))

PoolInv == Counted(conns, active) /\ \A c \in Clients : KeepInv(c) /\ UseInv(c)

\* Every database has a route of its own
OwnRoutes == \A d, e \in Dbs : RouteOf[d] = RouteOf[e] => d = e

\* Where a request may be without a client, or has used the pool
NeedsPool(c) ==
  \/ cn[c].pc = "use" /\ routeClient[Route(c)] = NoMongo
  \/ cn[c].pc \in {"pool", "register", "get"} /\ cn[c].mongo = NoMongo
  \/ cn[c].pc \in {"trip", "return", "clear"}

\* A request carries on without a client only if the pool of its database,
\* which goes before it, has one
NilInv ==
  /\ \A d \in Dbs : pools[d] # NoMongo
  /\ \A k \in ConnIds : conns[k].inUse => conns[k].mongo # NoMongo
  /\ \A c \in Clients :
       /\ NeedsPool(c) => pools[cn[c].db] # NoPool
       /\ MaxFailures = 0 => cn[c].pc # "clear" /\ cn[c].err # "connection"

AllHeld == \A k \in ConnIds : conns[k].inUse => Held(k)

-----------------------------------------------------------------------------
(* The pools' counts *)

\* Return keeps the counts right: the connections were in use
LEMMA ReturnCounts ==
  ASSUME TypeInv, Counted(conns, active), NEW K \in SUBSET ConnIds,
         \A k \in K : conns[k].inUse
  PROVE  Counted(ReturnObjects(K), ReturnCount(K))
<1>. SUFFICES ASSUME NEW d \in Dbs
              PROVE  /\ IsFiniteSet(InUse(ReturnObjects(K), d))
                     /\ ReturnCount(K)[d] = Cardinality(InUse(ReturnObjects(K), d))
  BY DEF Counted
<1>. DEFINE S == InUse(conns, d)
            T == {k \in K : conns[k].pool = d}
<1>1. InUse(ReturnObjects(K), d) = S \ T
  <2>1. \A k \in ConnIds : /\ k \in K => ~ ReturnObjects(K)[k].inUse
                           /\ k \notin K => ReturnObjects(K)[k] = conns[k]
    BY DEF ReturnObjects, TypeInv, TypeOK, PoolTypeOK, PooledConnections
  <2>2. ASSUME NEW k \in ConnIds
        PROVE  ReturnObjects(K)[k].inUse /\ ReturnObjects(K)[k].pool = d <=> k \in S /\ k \notin T
    <3>1. CASE k \in K
      BY <2>1, <3>1 DEF InUse
    <3>2. CASE k \notin K
      BY <2>1, <3>2 DEF InUse
    <3>. QED  BY <3>1, <3>2
  <2>. QED  BY <2>2 DEF InUse
<1>2. T \subseteq S
  BY DEF InUse
<1>3. IsFiniteSet(S) /\ active[d] = Cardinality(S)
  BY DEF Counted
<1>4. ReturnCount(K)[d] = Decremented(active[d], Cardinality(T))
  BY DEF ReturnCount
<1>. HIDE DEF S, T
<1>5. IsFiniteSet(T) /\ Cardinality(T) <= Cardinality(S)
  BY <1>2, <1>3, FS_Subset
<1>6. Cardinality(S) \in Nat /\ Cardinality(T) \in Nat
  BY <1>3, <1>5, FS_CardinalityType
<1>7. S \cap T = T
  BY <1>2
<1>8. IsFiniteSet(S \ T) /\ Cardinality(S \ T) = Cardinality(S) - Cardinality(T)
  <2>1. IsFiniteSet(S \ T) /\ Cardinality(S \ T) = Cardinality(S) - Cardinality(S \cap T)
    BY <1>3, FS_Difference, Zenon
  <2>. QED  BY <1>7, <2>1
<1>. QED  BY <1>1, <1>3, <1>4, <1>5, <1>6, <1>8 DEF Decremented

\* Checkout keeps the counts right: the connection was not in use
LEMMA CheckoutCounts ==
  ASSUME NEW C, NEW A, A \in [Dbs -> Nat], C \in [ConnIds -> PooledConnections], Counted(C, A),
         NEW k \in ConnIds, ~ C[k].inUse, NEW d \in Dbs,
         NEW r, r.inUse = TRUE, r.pool = d
  PROVE  Counted([C EXCEPT ![k] = r], [A EXCEPT ![d] = @ + 1])
<1>. DEFINE D == [C EXCEPT ![k] = r]
            B == [A EXCEPT ![d] = @ + 1]
<1>1. D[k] = r /\ \A j \in ConnIds \ {k} : D[j] = C[j]
  OBVIOUS
<1>2. B[d] = A[d] + 1 /\ \A e \in Dbs \ {d} : B[e] = A[e]
  OBVIOUS
<1>. HIDE DEF D, B
<1>3. ASSUME NEW e \in Dbs, e # d PROVE InUse(D, e) = InUse(C, e)
  BY <1>1, <1>3 DEF InUse
<1>4. InUse(D, d) = InUse(C, d) \cup {k} /\ k \notin InUse(C, d)
  BY <1>1 DEF InUse
<1>5. IsFiniteSet(InUse(C, d)) /\ A[d] = Cardinality(InUse(C, d))
  BY DEF Counted
<1>6. IsFiniteSet(InUse(D, d)) /\ Cardinality(InUse(D, d)) = Cardinality(InUse(C, d)) + 1
  BY <1>4, <1>5, FS_AddElement
<1>7. \A e \in Dbs : IsFiniteSet(InUse(D, e)) /\ B[e] = Cardinality(InUse(D, e))
  BY <1>2, <1>3, <1>5, <1>6 DEF Counted
<1>8. Counted(D, B)
  BY <1>7 DEF Counted
<1>. QED  BY <1>8 DEF D, B

LEMMA PoolInvInit == Init => PoolInv
<1>. SUFFICES ASSUME Init PROVE PoolInv
  OBVIOUS
<1>1. \A d \in Dbs : InUse(conns, d) = {} /\ active[d] = 0
  BY DEF Init, PoolInit, InUse
<1>2. Counted(conns, active)
  BY <1>1, FS_EmptySet DEF Counted
<1>3. ASSUME NEW c \in Clients PROVE KeepInv(c) /\ UseInv(c)
  BY <1>3 DEF Init, PoolInit, KeepInv, UseInv, Kept, Unregistered, Off
<1>. QED  BY <1>2, <1>3 DEF PoolInv

\* A client whose registration, locals and connections a step leaves alone
LEMMA PoolBystander ==
  ASSUME TypeInv, NEW b \in Clients, KeepInv(b), UseInv(b), mode' = mode,
         clients'[b] = clients[b], cn'[b] = cn[b],
         \A k \in ConnIds : k[1] = b => conns'[k] = conns[k]
  PROVE  KeepInv(b)' /\ UseInv(b)'
<1>1. Kept(b) \subseteq ConnIds
  BY DEF TypeInv, TypeOK, PoolTypeOK, Registrations, Kept
<1>2. KeepInv(b)'
  BY <1>1 DEF KeepInv, Kept, Registered
<1>3. cn[b].pc \in {"trip", "return"} => cn[b].conn \in ConnIds
  BY DEF TypeInv, LocalsOK
<1>4. UseInv(b)'
  BY <1>3 DEF UseInv, Registered
<1>. QED  BY <1>2, <1>4

\* Between the steps on the pool manager a goroutine carries its connection
\* from the round trip to its return, unless its Mongo client is nil
Carries(c) ==
  \/ /\ cn'[c].pc \notin {"register", "get", "trip", "return"}
     /\ \/ cn[c].pc \notin {"trip", "return"}
        \/ cn[c].pc = "trip" /\ conns[cn[c].conn].mongo = NoMongo
  \/ /\ cn[c].pc = "trip" /\ cn'[c].pc = "return"
     /\ cn'[c].conn = cn[c].conn /\ cn'[c].db = cn[c].db /\ cn'[c].kind = cn[c].kind

LEMMA LocalMoves ==
  ASSUME TypeInv, NEW c \in Clients, Local(c)
  PROVE  Carries(c) /\ \A b \in Clients \ {c} : cn'[b] = cn[b]
<1>0. cn[c] \in Locals
  BY DEF TypeInv, TypeOK
<1>1. ASSUME NEW q, Move(c, q), q.pc \notin {"register", "get", "trip", "return"},
             \/ cn[c].pc \notin {"trip", "return"}
             \/ cn[c].pc = "trip" /\ conns[cn[c].conn].mongo = NoMongo
      PROVE  Carries(c) /\ \A b \in Clients \ {c} : cn'[b] = cn[b]
  BY <1>1, Moved DEF Carries
<1>2. ASSUME NEW pc, Goto(c, pc), pc \notin {"register", "get", "trip", "return"},
             cn[c].pc \notin {"trip", "return"}
      PROVE  Carries(c) /\ \A b \in Clients \ {c} : cn'[b] = cn[b]
  BY <1>2, Gone DEF Carries
<1>3. CASE Hangup(c) \/ Track(c) \/ ClearClient(c)
  BY <1>2, <1>3 DEF Hangup, Track, ClearClient
<1>4. CASE CheckClient(c) \/ LazyCheck(c)
  BY <1>2, <1>4 DEF CheckClient, LazyCheck
<1>5. CASE Request(c)
  <2>1. PICK d, kind, t :
               Move(c, [cn[c] EXCEPT !.pc = "route", !.db = d, !.kind = kind, !.txn = t])
    BY <1>5, Zenon DEF Request
  <2>2. [cn[c] EXCEPT !.pc = "route", !.db = d, !.kind = kind, !.txn = t].pc = "route"
    BY <1>0 DEF Locals
  <2>3. cn[c].pc = "idle"
    BY <1>5 DEF Request
  <2>. QED  BY <1>1, <2>1, <2>2, <2>3, Zenon
<1>6. CASE UseClient(c) \/ LazyCreate(c)
  <2>1. \/ \E m : Move(c, [cn[c] EXCEPT !.pc = "pool", !.mongo = m])
        \/ \E m : Move(c, [cn[c] EXCEPT !.pc = "track", !.mongo = m])
        \/ Goto(c, "closing")
    BY <1>6, Zenon DEF UseClient, LazyCreate
  <2>2. \A m : /\ [cn[c] EXCEPT !.pc = "pool", !.mongo = m].pc = "pool"
               /\ [cn[c] EXCEPT !.pc = "track", !.mongo = m].pc = "track"
    BY <1>0 DEF Locals
  <2>3. cn[c].pc \in {"use", "lock"}
    BY <1>6, Zenon DEF UseClient, LazyCreate
  <2>. QED  BY <1>1, <1>2, <2>1, <2>2, <2>3, Zenon
<1>7. CASE RoundTrip(c)
  <2>0. cn[c].pc = "trip"
    BY <1>7 DEF RoundTrip
  <2>1. \/ /\ conns[cn[c].conn].mongo = NoMongo
           /\ Move(c, [cn[c] EXCEPT !.pc = "closing", !.conn = NoConn])
        \/ \E e : Move(c, [cn[c] EXCEPT !.pc = "return", !.err = e])
    BY <1>7, Zenon DEF RoundTrip
  <2>2. [cn[c] EXCEPT !.pc = "closing", !.conn = NoConn].pc = "closing"
    BY <1>0 DEF Locals
  <2>3. ASSUME NEW e, Move(c, [cn[c] EXCEPT !.pc = "return", !.err = e])
        PROVE  Carries(c) /\ \A b \in Clients \ {c} : cn'[b] = cn[b]
    <3>. DEFINE q == [cn[c] EXCEPT !.pc = "return", !.err = e]
    <3>1. q.pc = "return" /\ q.conn = cn[c].conn /\ q.db = cn[c].db /\ q.kind = cn[c].kind
      BY <1>0 DEF Locals
    <3>2. cn'[c] = q /\ \A b \in Clients \ {c} : cn'[b] = cn[b]
      BY <2>3, Moved
    <3>. HIDE DEF q
    <3>. QED  BY <2>0, <3>1, <3>2 DEF Carries
  <2>. QED  BY <1>1, <2>0, <2>1, <2>2, <2>3, Zenon
<1>8. CASE Answer(c)
  <2>1. [Off EXCEPT !.pc = "idle"].pc = "idle"
    BY DEF Off
  <2>. QED  BY <1>1, <1>2, <1>8, <2>1, Zenon DEF Answer
<1>. QED  BY <1>3, <1>4, <1>5, <1>6, <1>7, <1>8 DEF Local

LEMMA PoolLocal ==
  ASSUME TypeInv, PoolInv, NEW c \in Clients, Local(c)
  PROVE  PoolInv'
<1>1. UNCHANGED <<mode, clients, conns, active>>
  BY LocalFrame DEF poolVars
<1>2. Carries(c) /\ \A b \in Clients \ {c} : cn'[b] = cn[b]
  BY LocalMoves
<1>3. \A b \in Clients : KeepInv(b)'
  BY <1>1 DEF PoolInv, KeepInv, Kept, Registered
<1>4. UseInv(c)'
  BY <1>1, <1>2 DEF PoolInv, UseInv, Carries, Registered
<1>5. \A b \in Clients \ {c} : UseInv(b)'
  BY <1>1, <1>2 DEF PoolInv, UseInv, Registered
<1>. QED  BY <1>1, <1>3, <1>4, <1>5 DEF PoolInv, Counted, InUse

\* RegisterClient: the client keeps nothing yet
LEMMA PoolRegister ==
  ASSUME TypeInv, PoolInv, NEW c \in Clients, NEW d \in Dbs \cup {DefaultDb},
         RegisterClient(c, d), UNCHANGED <<mode, conns, active>>,
         \A b \in Clients \ {c} : cn'[b] = cn[b],
         cn'[c].pc \notin {"register", "trip", "return"},
         cn'[c].pc = "get" => ~ Registered(c) /\ cn'[c].db = d
  PROVE  PoolInv'
<1>1. \A b \in Clients \ {c} : clients'[b] = clients[b]
  BY DEF RegisterClient, TypeInv, TypeOK, PoolTypeOK
<1>2. ASSUME NEW b \in Clients \ {c} PROVE KeepInv(b)' /\ UseInv(b)'
  BY <1>1, PoolBystander DEF PoolInv
<1>3. CASE Registered(c)
  <2>1. clients' = clients
    BY <1>3 DEF RegisterClient
  <2>2. KeepInv(c)' /\ UseInv(c)'
    BY <1>3, <2>1 DEF PoolInv, KeepInv, Kept, Registered, UseInv
  <2>. QED  BY <1>2, <2>2 DEF PoolInv, Counted, InUse
<1>4. CASE ~ Registered(c)
  <2>1. clients'[c] = [Unregistered EXCEPT !.db = d]
    BY <1>4 DEF RegisterClient, TypeInv, TypeOK, PoolTypeOK
  <2>2. clients'[c].db = d /\ clients'[c].assigned = NoConn /\ clients'[c].txnConn = NoConn
    BY <2>1 DEF Unregistered
  <2>3. KeepInv(c)' /\ UseInv(c)'
    BY <2>2, Zenon DEF KeepInv, Kept, UseInv
  <2>. QED  BY <1>2, <2>3 DEF PoolInv, Counted, InUse
<1>. QED  BY <1>3, <1>4

\* UnregisterClient returns what the client keeps, and nothing else
LEMMA PoolUnregister ==
  ASSUME TypeInv, PoolInv, NEW c \in Clients, UnregisterClient(c), UNCHANGED mode,
         \A b \in Clients \ {c} : cn'[b] = cn[b],
         cn'[c].pc \notin {"get", "trip", "return"}
  PROVE  PoolInv'
<1>1. /\ clients'[c] = Unregistered /\ \A b \in Clients \ {c} : clients'[b] = clients[b]
      /\ conns' = ReturnObjects(Kept(c)) /\ active' = ReturnCount(Kept(c))
  BY Zenon DEF UnregisterClient, Return, TypeInv, TypeOK, PoolTypeOK
<1>2. Kept(c) \subseteq ConnIds /\ \A k \in Kept(c) : k[1] = c /\ conns[k].inUse
  BY DEF PoolInv, KeepInv, TypeInv, TypeOK, PoolTypeOK, Registrations, Kept
<1>3. Counted(conns, active)'
  BY <1>1, <1>2, ReturnCounts, Zenon DEF PoolInv
<1>4. \A k \in ConnIds : k \notin Kept(c) => conns'[k] = conns[k]
  BY <1>1, Zenon DEF ReturnObjects
<1>5. ASSUME NEW b \in Clients \ {c} PROVE KeepInv(b)' /\ UseInv(b)'
  BY <1>1, <1>2, <1>4, PoolBystander, Zenon DEF PoolInv
<1>6. /\ clients'[c].db = NoDb /\ clients'[c].assigned = NoConn /\ clients'[c].txnConn = NoConn
  BY <1>1 DEF Unregistered
<1>7. KeepInv(c)' /\ UseInv(c)'
  BY <1>6 DEF KeepInv, Kept, UseInv, Registered
<1>. QED  BY <1>3, <1>5, <1>7 DEF PoolInv

\* GetConnection with the connection the client keeps
LEMMA PoolKeep ==
  ASSUME TypeInv, PoolInv, NEW c \in Clients, cn[c].pc = "get",
         Keeps(c, IsTransaction(cn[c].kind), cn[c].txn),
         Move(c, [cn[c] EXCEPT !.pc = "trip", !.conn = KeptConnection(c)]),
         UNCHANGED <<mode, clients, conns, active>>
  PROVE  PoolInv'
<1>. DEFINE k == KeptConnection(c)
            q == [cn[c] EXCEPT !.pc = "trip", !.conn = k]
<1>1. q.pc = "trip" /\ q.conn = k /\ q.db = cn[c].db /\ q.kind = cn[c].kind
  BY DEF TypeInv, TypeOK, Locals
<1>2. cn'[c] = q /\ \A b \in Clients \ {c} : cn'[b] = cn[b]
  BY Moved
<1>3. k \in Kept(c) /\ k \in ConnIds
  BY DEF Kept, Keeps, KeptConnection, TypeInv, TypeOK, PoolTypeOK, Registrations
<1>4. /\ mode = "session" => k = clients[c].assigned
      /\ mode = "transaction" => k = clients[c].txnConn /\ IsTransaction(cn[c].kind)
  BY DEF Keeps, KeptConnection
<1>5. clients[c].db = cn[c].db
  BY DEF PoolInv, UseInv
<1>. HIDE DEF k, q
<1>6. UseInv(c)'
  BY <1>1, <1>2, <1>3, <1>4, <1>5 DEF PoolInv, UseInv, KeepInv
<1>7. \A b \in Clients : KeepInv(b)'
  BY DEF PoolInv, KeepInv, Kept, Registered
<1>8. \A b \in Clients \ {c} : UseInv(b)'
  BY <1>2 DEF PoolInv, UseInv, Registered
<1>. QED  BY <1>6, <1>7, <1>8 DEF PoolInv, Counted, InUse

\* GetConnection with a new one
LEMMA PoolNew ==
  ASSUME TypeInv, PoolInv, NEW c \in Clients, cn[c].pc = "get", UNCHANGED mode,
         ~ Keeps(c, IsTransaction(cn[c].kind), cn[c].txn),
         NEW k \in ConnIds, k[1] = c, Unreferenced(k),
         NewConnection(c, k, cn[c].db, cn[c].mongo, IsTransaction(cn[c].kind), cn[c].txn),
         Move(c, [cn[c] EXCEPT !.pc = "trip", !.conn = k])
  PROVE  PoolInv'
<1>. DEFINE q == [cn[c] EXCEPT !.pc = "trip", !.conn = k]
            d == cn[c].db
            isTxn == IsTransaction(cn[c].kind)
            K == Replaced(c, d, isTxn)
            r == [pool |-> d, mongo |-> PoolClient(d, cn[c].mongo), inUse |-> TRUE,
                  txn |-> IF mode = "transaction" /\ isTxn THEN cn[c].txn ELSE NoTxn]
<1>1. q.pc = "trip" /\ q.conn = k /\ q.db = d /\ q.kind = cn[c].kind
  BY DEF TypeInv, TypeOK, Locals
<1>2. cn'[c] = q /\ \A b \in Clients \ {c} : cn'[b] = cn[b]
  BY Moved
<1>3. d \in Dbs /\ clients[c].db = d /\ Registered(c)
  BY ConnectionsAssumption DEF PoolInv, UseInv, TypeInv, LocalsOK, Serving, Registered
<1>4. r.pool = d /\ r.inUse = TRUE
  OBVIOUS
<1>5. /\ conns' = [ReturnObjects(K) EXCEPT ![k] = r]
      /\ active' = [ReturnCount(K) EXCEPT ![d] = @ + 1]
  BY Zenon DEF NewConnection, Replaced
<1>6. K \subseteq Kept(c) /\ K \subseteq ConnIds
  BY DEF Replaced, Kept
<1>7. \A j \in Kept(c) : j \in ConnIds /\ j[1] = c /\ conns[j].inUse /\ conns[j].pool = d
  BY <1>3 DEF PoolInv, KeepInv, TypeInv, TypeOK, PoolTypeOK, Registrations, Kept
<1>8. k \notin Kept(c) /\ k \notin K /\ ~ conns[k].inUse /\ k # NoConn
  BY <1>6, ConnectionsAssumption DEF Unreferenced
<1>9. /\ clients'[c].db = d
      /\ clients'[c].assigned = (IF mode = "session" THEN k ELSE clients[c].assigned)
      /\ clients'[c].txnConn = (IF mode = "transaction" /\ isTxn THEN k ELSE clients[c].txnConn)
      /\ \A b \in Clients \ {c} : clients'[b] = clients[b]
  BY <1>3 DEF NewConnection, TypeInv, TypeOK, PoolTypeOK, Registrations
<1>10. IsFiniteSet(K)
  BY ReplacedFinite
<1>11. ReturnObjects(K) \in [ConnIds -> PooledConnections] /\ ReturnCount(K) \in [Dbs -> Nat]
  BY <1>10, ReturnTyping
<1>12. Counted(ReturnObjects(K), ReturnCount(K))
  BY <1>6, <1>7, ReturnCounts DEF PoolInv
<1>. HIDE DEF q, d, K, r
<1>13. \A j \in ConnIds \ K : ReturnObjects(K)[j] = conns[j]
  BY DEF ReturnObjects
<1>14. Counted(conns, active)'
  <2>1. Counted([ReturnObjects(K) EXCEPT ![k] = r], [ReturnCount(K) EXCEPT ![d] = @ + 1])
    BY <1>3, <1>4, <1>8, <1>11, <1>12, <1>13, CheckoutCounts, Zenon
  <2>. QED  BY <1>5, <2>1 DEF Counted, InUse
<1>15. conns'[k] = r /\ \A j \in ConnIds \ (K \cup {k}) : conns'[j] = conns[j]
  BY <1>5, <1>11, <1>13
<1>16. ASSUME NEW b \in Clients \ {c} PROVE KeepInv(b)' /\ UseInv(b)'
  <2>1. \A j \in ConnIds : j[1] = b => conns'[j] = conns[j]
    BY <1>6, <1>7, <1>15
  <2>. QED  BY <1>2, <1>9, <2>1, PoolBystander DEF PoolInv
<1>17. KeepInv(c)
  BY DEF PoolInv
<1>18. Kept(c)' = (IF mode = "session" \/ (mode = "transaction" /\ isTxn) THEN {k} ELSE Kept(c))
  BY <1>8, <1>9, <1>17 DEF Kept, KeepInv, TypeInv, TypeOK, PoolTypeOK
<1>19. ~ (mode = "session" \/ (mode = "transaction" /\ isTxn)) => K = {}
  BY DEF K, Replaced
<1>20. KeepInv(c)'
  <2>1. \A j \in Kept(c)' : j[1] = c /\ conns'[j].inUse /\ conns'[j].pool = clients'[c].db
    BY <1>4, <1>7, <1>8, <1>9, <1>15, <1>18, <1>19
  <2>2. mode \in {"session", "transaction", "statement"} /\ Registered(c)'
    BY <1>3, <1>9, ConnectionsAssumption, Zenon DEF TypeInv, TypeOK, PoolTypeOK, Registered
  <2>. QED  BY <1>9, <1>17, <2>1, <2>2 DEF KeepInv
<1>21. UseInv(c)'
  <2>1. clients[c].txnConn # k
    BY <1>8 DEF Kept
  <2>. QED  BY <1>1, <1>2, <1>4, <1>9, <1>15, <2>1 DEF UseInv
<1>. QED  BY <1>14, <1>16, <1>20, <1>21 DEF PoolInv

\* ReturnConnection returns a connection of the request, and forgets it
LEMMA PoolGiveBack ==
  ASSUME TypeInv, PoolInv, NEW c \in Clients, GiveBack(c)
  PROVE  PoolInv'
<1>. DEFINE k == cn[c].conn
            isEnd == IsEndOfTransaction(cn[c].kind)
            K == IF Returned(c, k, isEnd) THEN {k} ELSE {}
            q == [cn[c] EXCEPT !.pc = AfterReturn[cn[c].err], !.conn = NoConn]
<1>1. cn[c].pc = "return" /\ k \in ConnIds
  BY DEF GiveBack, TypeInv, LocalsOK
<1>2. /\ clients[c].db = cn[c].db
      /\ k[1] = c /\ conns[k].inUse /\ conns[k].pool = cn[c].db
      /\ mode = "session" => k = clients[c].assigned
  BY <1>1 DEF PoolInv, UseInv
<1>3. cn'[c] = q /\ \A b \in Clients \ {c} : cn'[b] = cn[b]
  BY Moved DEF GiveBack
<1>4. q.pc \in {"answer", "closing", "clear"}
  BY DEF AfterReturn, TypeInv, TypeOK, Locals
<1>5. /\ conns' = ReturnObjects(K) /\ active' = ReturnCount(K) /\ UNCHANGED mode
      /\ clients' = [clients EXCEPT ![c].txnConn =
                       IF mode = "transaction" /\ isEnd /\ @ = k THEN NoConn ELSE @]
  BY Zenon DEF GiveBack, ReturnConnection, Return
<1>6. /\ \A b \in Clients \ {c} : clients'[b] = clients[b]
      /\ clients'[c].db = clients[c].db /\ clients'[c].assigned = clients[c].assigned
      /\ clients'[c].txnConn =
           IF mode = "transaction" /\ isEnd /\ clients[c].txnConn = k THEN NoConn ELSE clients[c].txnConn
  BY <1>5 DEF TypeInv, TypeOK, PoolTypeOK, Registrations
<1>7. K \subseteq {k} /\ (K = {} \/ Returned(c, k, isEnd))
  OBVIOUS
<1>. HIDE DEF K, q
<1>8. Counted(conns, active)'
  BY <1>1, <1>2, <1>5, <1>7, ReturnCounts DEF PoolInv
<1>9. \A j \in ConnIds \ K : conns'[j] = conns[j]
  BY <1>5, Zenon DEF ReturnObjects
<1>10. ASSUME NEW b \in Clients \ {c} PROVE KeepInv(b)' /\ UseInv(b)'
  BY <1>2, <1>3, <1>5, <1>6, <1>7, <1>9, PoolBystander DEF PoolInv
<1>11. UseInv(c)'
  BY <1>3, <1>4 DEF UseInv
<1>12. KeepInv(c)
  BY DEF PoolInv
<1>13. Kept(c)' \subseteq Kept(c) /\ Kept(c)' \subseteq ConnIds
  BY <1>6 DEF Kept, TypeInv, TypeOK, PoolTypeOK, Registrations
<1>14. Kept(c)' \cap K = {}
  BY <1>2, <1>6, <1>7, <1>12 DEF Kept, Returned, KeepInv
<1>15. KeepInv(c)'
  <2>1. \A j \in Kept(c)' : j[1] = c /\ conns'[j].inUse /\ conns'[j].pool = clients'[c].db
    BY <1>6, <1>9, <1>12, <1>13, <1>14 DEF KeepInv
  <2>2. ~ Registered(c)' => Kept(c)' = {}
    BY <1>6, <1>12, <1>13, Zenon DEF KeepInv, Registered
  <2>. QED  BY <1>5, <1>6, <1>12, <2>1, <2>2 DEF KeepInv
<1>. QED  BY <1>8, <1>10, <1>11, <1>15 DEF PoolInv

LEMMA PoolStep ==
  ASSUME TypeInv, PoolInv, [Next]_vars
  PROVE  PoolInv'
<1>1. ASSUME NEW c \in Clients, Local(c) \/ GiveBack(c) PROVE PoolInv'
  BY <1>1, PoolLocal, PoolGiveBack
<1>2. CASE UNCHANGED <<poolVars, cn, routing>>
  <2>1. UNCHANGED <<mode, clients, conns, active, cn>>
    BY <1>2 DEF poolVars
  <2>2. \A b \in Clients : KeepInv(b)' /\ UseInv(b)'
    BY <2>1, PoolBystander DEF PoolInv
  <2>. QED  BY <2>1, <2>2, Zenon DEF PoolInv, Counted, InUse
<1>3. ASSUME NEW c \in Clients, NEW pc \in {"idle", "register", "get", "closing"}, Goto(c, pc),
             pc = "register" => ~ Registered(c), pc = "get" => clients[c].db = cn[c].db,
             UNCHANGED <<mode, clients, conns, active>>
      PROVE  PoolInv'
  <2>1. /\ cn'[c].pc = pc /\ cn'[c].db = cn[c].db
        /\ \A b \in Clients \ {c} : cn'[b] = cn[b]
    BY <1>3, Gone
  <2>2. UseInv(c)' /\ KeepInv(c)'
    BY <1>3, <2>1 DEF PoolInv, UseInv, KeepInv, Kept, Registered
  <2>3. \A b \in Clients \ {c} : UseInv(b)' /\ KeepInv(b)'
    BY <1>3, <2>1, PoolBystander, Zenon DEF PoolInv
  <2>. QED  BY <1>3, <2>2, <2>3 DEF PoolInv, Counted, InUse
<1>4. ASSUME NEW c \in Clients, Connect(c) PROVE PoolInv'
  <2>1. Goto(c, "idle") /\ UNCHANGED <<mode, conns, active>>
    BY <1>4, Zenon DEF Connect
  <2>2. cn'[c].pc = "idle" /\ \A b \in Clients \ {c} : cn'[b] = cn[b]
    BY <2>1, Gone
  <2>. QED  BY <1>3, <1>4, <2>1, <2>2, PoolRegister, Zenon DEF Connect
<1>5. ASSUME NEW c \in Clients, Register(c) PROVE PoolInv'
  <2>1. cn[c].pc = "register" /\ UNCHANGED <<mode, conns, active>>
    BY <1>5 DEF Register
  <2>2. ~ Registered(c) /\ cn[c].db \in Dbs
    BY <2>1 DEF PoolInv, UseInv, TypeInv, LocalsOK, Serving
  <2>3. CASE RegisterClient(c, cn[c].db) /\ Goto(c, "get")
    <3>1. /\ cn'[c].pc = "get" /\ cn'[c].db = cn[c].db
          /\ \A b \in Clients \ {c} : cn'[b] = cn[b]
      BY <2>3, Gone
    <3>. QED  BY <2>1, <2>2, <2>3, <3>1, PoolRegister
  <2>4. CASE Goto(c, "closing") /\ UNCHANGED clients
    BY <1>3, <2>1, <2>4
  <2>. QED  BY <1>5, <2>3, <2>4 DEF Register
<1>6. ASSUME NEW c \in Clients, EnterPool(c) PROVE PoolInv'
  <2>1. UNCHANGED mode
    BY <1>6 DEF EnterPool
  <2>2. CASE UnregisterClient(c) /\ Goto(c, "register")
    <3>1. cn'[c].pc = "register" /\ \A b \in Clients \ {c} : cn'[b] = cn[b]
      BY <2>2, Gone
    <3>. QED  BY <2>1, <2>2, <3>1, PoolUnregister
  <2>. QED  BY <1>3, <1>6, <2>1, <2>2, Zenon DEF EnterPool
<1>7. ASSUME NEW c \in Clients, Disconnect(c) PROVE PoolInv'
  <2>1. cn'[c] = Off /\ \A b \in Clients \ {c} : cn'[b] = cn[b]
    BY <1>7, Moved DEF Disconnect
  <2>2. cn'[c].pc = "off"
    BY <2>1 DEF Off
  <2>. QED  BY <1>7, <2>1, <2>2, PoolUnregister DEF Disconnect
<1>8. ASSUME NEW c \in Clients, GetConnection(c) PROVE PoolInv'
  <2>1. cn[c].pc = "get" /\ UNCHANGED mode
    BY <1>8, Zenon DEF GetConnection
  <2>. QED  BY <1>8, <2>1, PoolKeep, PoolNew, ZenonT(30) DEF GetConnection
<1>. QED  BY <1>1, <1>2, <1>4, <1>5, <1>6, <1>7, <1>8, PoolSteps, Zenon

\* Whatever is lost on the way, the numbers are right: a pool's count of active
\* connections is the number of its connections in use, none is returned twice,
\* and what a client keeps is in use in the pool of its database.
THEOREM CountsExact ==
  Spec => [](/\ \A d \in Dbs :
                  active[d] = Cardinality({k \in ConnIds : conns[k].inUse /\ conns[k].pool = d})
             /\ \A c \in Clients : \A k \in Kept(c) :
                  conns[k].inUse /\ conns[k].pool = clients[c].db)
<1>1. PoolInv => /\ \A d \in Dbs :
                      active[d] = Cardinality({k \in ConnIds : conns[k].inUse /\ conns[k].pool = d})
                 /\ \A c \in Clients : \A k \in Kept(c) :
                      conns[k].inUse /\ conns[k].pool = clients[c].db
  BY DEF PoolInv, Counted, InUse, KeepInv
<1>. QED  BY TypeInit, TypeStep, PoolInvInit, PoolStep, <1>1, PTL DEF Spec

-----------------------------------------------------------------------------
(* No request without a client *)

LEMMA NilInit == Init => NilInv
<1>1. Init => \A c \in Clients : cn[c].pc = "off" /\ cn[c].err = "none"
  BY DEF Init, Off
<1>. QED  BY <1>1, ConnectionsAssumption DEF Init, PoolInit, NilInv, NeedsPool

\* A step of c after which it has what it needs, that takes nothing from others
LEMMA NilFrame ==
  ASSUME TypeInv, NilInv, NEW c \in Clients, \A b \in Clients \ {c} : cn'[b] = cn[b],
         \A d \in Dbs : pools'[d] # NoMongo /\ (pools[d] # NoPool => pools'[d] # NoPool),
         \A k \in ConnIds : conns'[k].inUse => conns'[k].mongo # NoMongo,
         \A b \in Clients \ {c} : cn[b].pc = "use" /\ routeClient'[Route(b)] = NoMongo =>
            routeClient[Route(b)] = NoMongo \/ pools[cn[b].db] # NoPool,
         NeedsPool(c)' => pools'[cn'[c].db] # NoPool,
         MaxFailures = 0 => cn'[c].pc # "clear" /\ cn'[c].err # "connection"
  PROVE  NilInv'
<1>1. ASSUME NEW b \in Clients \ {c}, NeedsPool(b)' PROVE pools'[cn'[b].db] # NoPool
  <2>1. cn'[b] = cn[b] /\ Route(b)' = Route(b)
    BY DEF Route
  <2>2. cn[b].db \in Dbs
    BY <1>1, <2>1, Zenon DEF NeedsPool, TypeInv, LocalsOK, Serving
  <2>3. NeedsPool(b) \/ pools[cn[b].db] # NoPool
    BY <1>1, <2>1 DEF NeedsPool
  <2>. QED  BY <2>1, <2>2, <2>3 DEF NilInv
<1>. QED  BY <1>1, Zenon DEF NilInv

LEMMA ReturnMongo ==
  ASSUME TypeInv, NEW K, NEW k \in ConnIds
  PROVE  /\ ReturnObjects(K)[k].inUse => conns[k].inUse
         /\ ReturnObjects(K)[k].mongo = conns[k].mongo
BY DEF ReturnObjects, TypeInv, TypeOK, PoolTypeOK, PooledConnections

\* The steps on local variables, routes and the proxy
LEMMA NilLocal ==
  ASSUME TypeInv, NilInv, NEW c \in Clients, Local(c), OwnRoutes \/ MaxFailures = 0
  PROVE  NilInv'
<1>0. cn[c] \in Locals
  BY DEF TypeInv, TypeOK
<1>1. UNCHANGED <<pools, conns>>
  BY LocalFrame DEF poolVars
<1>2. ASSUME NEW q, Move(c, q), routeClient' = routeClient,
             q.pc \notin {"use", "pool", "register", "get", "trip", "return", "clear"},
             q.err # "connection"
      PROVE  NilInv'
  <2>1. cn'[c] = q /\ \A b \in Clients \ {c} : cn'[b] = cn[b]
    BY <1>2, Moved
  <2>. QED  BY <1>1, <1>2, <2>1, NilFrame, Zenon DEF NilInv, NeedsPool
<1>3. ASSUME NEW pc \in {"closing", "use", "lazy", "lock", "pool"}, Goto(c, pc),
             routeClient' = routeClient,
             pc = "use" => routeClient[Route(c)] # NoMongo,
             pc = "pool" => cn[c].mongo # NoMongo
      PROVE  NilInv'
  <2>1. /\ cn'[c].pc = pc /\ cn'[c].db = cn[c].db /\ cn'[c].mongo = cn[c].mongo
        /\ cn'[c].err = cn[c].err /\ \A b \in Clients \ {c} : cn'[b] = cn[b]
    BY <1>3, Gone, Zenon
  <2>2. ~ NeedsPool(c)'
    BY <1>3, <2>1, Zenon DEF NeedsPool, Route
  <2>. QED  BY <1>1, <1>3, <2>1, <2>2, NilFrame, Zenon DEF NilInv
<1>4. CASE Hangup(c)
  BY <1>3, <1>4, Zenon DEF Hangup, routing
<1>5. CASE CheckClient(c) \/ LazyCheck(c)
  BY <1>3, <1>5 DEF CheckClient, LazyCheck, routing
<1>6. CASE Request(c)
  <2>1. PICK d, kind, t :
               Move(c, [cn[c] EXCEPT !.pc = "route", !.db = d, !.kind = kind, !.txn = t])
    BY <1>6, Zenon DEF Request
  <2>. DEFINE q == [cn[c] EXCEPT !.pc = "route", !.db = d, !.kind = kind, !.txn = t]
  <2>2. q.pc = "route" /\ q.err = cn[c].err
    BY <1>0 DEF Locals
  <2>3. cn'[c] = q /\ (\A b \in Clients \ {c} : cn'[b] = cn[b]) /\ routeClient' = routeClient
    BY <1>6, <2>1, Moved DEF Request, routing
  <2>4. ~ NeedsPool(c)' /\ cn'[c].err = cn[c].err /\ cn'[c].pc = "route"
    BY <2>2, <2>3 DEF NeedsPool
  <2>. HIDE DEF q
  <2>. QED  BY <1>1, <2>3, <2>4, NilFrame, Zenon DEF NilInv
<1>7. ASSUME NEW m, NEW pc \in {"pool", "track"}, Move(c, [cn[c] EXCEPT !.pc = pc, !.mongo = m]),
             pc = "pool" /\ m = NoMongo => pools[cn[c].db] # NoPool,
             \A r \in Routes : routeClient'[r] # routeClient[r] => routeClient'[r] # NoMongo
      PROVE  NilInv'
  <2>. DEFINE q == [cn[c] EXCEPT !.pc = pc, !.mongo = m]
  <2>1. q.pc = pc /\ q.err = cn[c].err /\ q.db = cn[c].db /\ q.mongo = m
    BY <1>0 DEF Locals
  <2>2. cn'[c] = q /\ \A b \in Clients \ {c} : cn'[b] = cn[b]
    BY <1>7, Moved
  <2>. HIDE DEF q
  <2>3. NeedsPool(c)' => pools'[cn'[c].db] # NoPool
    BY <1>1, <1>7, <2>1, <2>2 DEF NeedsPool
  <2>4. \A b \in Clients \ {c} : cn[b].pc = "use" => Route(b) \in Routes
    BY ConnectionsAssumption, Zenon DEF TypeInv, LocalsOK, Serving, Route
  <2>. QED  BY <1>1, <1>7, <2>1, <2>2, <2>3, <2>4, NilFrame DEF NilInv
<1>8. CASE UseClient(c)
  BY <1>7, <1>8, Zenon DEF UseClient, NilInv, NeedsPool, routing
<1>9. CASE LazyCreate(c)
  <2>1. CASE Goto(c, "closing") /\ UNCHANGED <<made, routeClient>>
    BY <1>3, <2>1
  <2>2. CASE /\ routeClient[Route(c)] # NoMongo
             /\ Move(c, [cn[c] EXCEPT !.pc = "pool", !.mongo = routeClient[Route(c)]])
             /\ UNCHANGED <<made, routeClient>>
    BY <1>7, <2>2, Zenon
  <2>3. ASSUME NEW m \in Mongos, routeClient' = [routeClient EXCEPT ![Route(c)] = m],
               Move(c, [cn[c] EXCEPT !.pc = "track", !.mongo = m])
        PROVE  NilInv'
    <3>1. \A r \in Routes : routeClient'[r] # routeClient[r] => routeClient'[r] # NoMongo
      BY <2>3, ConnectionsAssumption DEF TypeInv, TypeOK
    <3>. QED  BY <1>7, <2>3, <3>1, Zenon
  <2>. QED  BY <1>9, <2>1, <2>2, <2>3, Zenon DEF LazyCreate
<1>10. CASE Track(c)
  <2>1. cn[c].mongo \in made /\ routeClient' = routeClient /\ Goto(c, "pool")
    BY <1>10 DEF Track, TypeInv, LocalsOK, routing
  <2>2. cn[c].mongo # NoMongo
    BY <2>1, ConnectionsAssumption, Zenon DEF TypeInv, TypeOK
  <2>. QED  BY <1>3, <2>1, <2>2
<1>11. CASE RoundTrip(c)
  <2>1. routeClient' = routeClient /\ cn[c].pc = "trip" /\ pools[cn[c].db] # NoPool
    BY <1>11 DEF RoundTrip, routing, NilInv, NeedsPool
  <2>2. CASE Move(c, [cn[c] EXCEPT !.pc = "closing", !.conn = NoConn])
    <3>. DEFINE q == [cn[c] EXCEPT !.pc = "closing", !.conn = NoConn]
    <3>1. q.pc = "closing" /\ q.err = cn[c].err
      BY <1>0 DEF Locals
    <3>2. cn'[c] = q /\ \A b \in Clients \ {c} : cn'[b] = cn[b]
      BY <2>2, Moved
    <3>. HIDE DEF q
    <3>. QED  BY <1>1, <2>1, <3>1, <3>2, NilFrame, Zenon DEF NilInv, NeedsPool
  <2>3. ASSUME NEW e, Move(c, [cn[c] EXCEPT !.pc = "return", !.err = e]),
               e = "connection" => failures < MaxFailures
        PROVE  NilInv'
    <3>. DEFINE q == [cn[c] EXCEPT !.pc = "return", !.err = e]
    <3>1. q.pc = "return" /\ q.err = e /\ q.db = cn[c].db
      BY <1>0 DEF Locals
    <3>2. cn'[c] = q /\ \A b \in Clients \ {c} : cn'[b] = cn[b]
      BY <2>3, Moved
    <3>3. MaxFailures = 0 => e # "connection"
      BY <2>3 DEF TypeInv, TypeOK
    <3>. HIDE DEF q
    <3>. QED  BY <1>1, <2>1, <3>1, <3>2, <3>3, NilFrame, Zenon DEF NilInv
  <2>4. \/ Move(c, [cn[c] EXCEPT !.pc = "closing", !.conn = NoConn])
        \/ \E e : /\ Move(c, [cn[c] EXCEPT !.pc = "return", !.err = e])
                  /\ e = "connection" => failures < MaxFailures
    <3>1. "none" # "connection" /\ "other" # "connection"
      OBVIOUS
    <3>. QED  BY ONLY <1>11, <3>1, Zenon DEF RoundTrip
  <2>. QED  BY <2>2, <2>3, <2>4, Zenon
<1>12. CASE ClearClient(c)
  <2>1. /\ routeClient' = [routeClient EXCEPT ![Route(c)] = NoMongo] /\ Goto(c, "closing")
        /\ cn[c].pc = "clear" /\ pools[cn[c].db] # NoPool /\ cn[c].db \in Dbs
    BY <1>12, Zenon DEF ClearClient, NilInv, NeedsPool, TypeInv, LocalsOK, Serving
  <2>2. /\ cn'[c].pc = "closing" /\ cn'[c].err = cn[c].err
        /\ \A b \in Clients \ {c} : cn'[b] = cn[b]
    BY <2>1, Gone, Zenon
  <2>3. OwnRoutes
    BY <2>1 DEF NilInv
  <2>4. ASSUME NEW b \in Clients \ {c}, cn[b].pc = "use", routeClient'[Route(b)] = NoMongo
        PROVE  routeClient[Route(b)] = NoMongo \/ pools[cn[b].db] # NoPool
    <3>1. cn[b].db \in Dbs /\ Route(b) \in Routes
      BY <2>4, ConnectionsAssumption, Zenon DEF TypeInv, LocalsOK, Serving, Route
    <3>2. CASE Route(b) # Route(c)
      BY <2>1, <2>4, <3>1, <3>2, Zenon DEF TypeInv, TypeOK
    <3>3. CASE Route(b) = Route(c)
      BY <2>1, <2>3, <3>1, <3>3, Zenon DEF OwnRoutes, Route
    <3>. QED  BY <3>2, <3>3
  <2>5. ~ NeedsPool(c)'
    BY <2>2 DEF NeedsPool
  <2>. QED  BY <1>1, <2>2, <2>4, <2>5, NilFrame, Zenon DEF NilInv
<1>13. CASE Answer(c)
  <2>1. [Off EXCEPT !.pc = "idle"].pc = "idle" /\ [Off EXCEPT !.pc = "idle"].err = "none"
    BY DEF Off
  <2>. QED  BY <1>2, <1>3, <1>13, <2>1, Zenon DEF Answer, routing
<1>. QED  BY <1>4, <1>5, <1>6, <1>8, <1>9, <1>10, <1>11, <1>12, <1>13 DEF Local

\* GetConnection: the pool has a client, or the request brings it
LEMMA NilGet ==
  ASSUME TypeInv, NilInv, NEW c \in Clients, GetConnection(c)
  PROVE  NilInv'
<1>. DEFINE d == cn[c].db
            m == PoolClient(d, cn[c].mongo)
            isTxn == IsTransaction(cn[c].kind)
<1>1. cn[c].pc = "get" /\ d \in Dbs /\ routeClient' = routeClient
  BY Zenon DEF GetConnection, TypeInv, LocalsOK, Serving, routing
<1>2. m # NoMongo /\ m # NoPool
  <2>1. cn[c].mongo \in Mongos \cup {NoMongo}
    BY DEF TypeInv, TypeOK, Locals
  <2>2. cn[c].mongo = NoMongo => pools[d] # NoPool
    BY <1>1 DEF NilInv, NeedsPool
  <2>. QED  BY <1>1, <2>1, <2>2, ConnectionsAssumption, Zenon DEF NilInv, PoolClient
<1>3. GetPool(d, cn[c].mongo) /\ \E k : Move(c, [cn[c] EXCEPT !.pc = "trip", !.conn = k])
  BY Zenon DEF GetConnection, NewConnection
<1>4. pools'[d] = m /\ \A e \in Dbs \ {d} : pools'[e] = pools[e]
  BY <1>1, <1>3 DEF GetPool, TypeInv, TypeOK, PoolTypeOK
<1>5. /\ cn'[c].pc = "trip" /\ cn'[c].db = d /\ cn'[c].err = cn[c].err
      /\ \A b \in Clients \ {c} : cn'[b] = cn[b]
  <2>1. PICK k : Move(c, [cn[c] EXCEPT !.pc = "trip", !.conn = k])
    BY <1>3, Zenon
  <2>. DEFINE q == [cn[c] EXCEPT !.pc = "trip", !.conn = k]
  <2>2. cn'[c] = q /\ \A b \in Clients \ {c} : cn'[b] = cn[b]
    BY <2>1, Moved
  <2>3. q.pc = "trip" /\ q.db = d /\ q.err = cn[c].err
    BY DEF TypeInv, TypeOK, Locals
  <2>. HIDE DEF q
  <2>. QED  BY <2>2, <2>3
<1>6. ASSUME NEW k \in ConnIds, conns'[k].inUse PROVE conns'[k].mongo # NoMongo
  <2>1. CASE conns' = conns
    BY <1>6, <2>1 DEF NilInv
  <2>2. ASSUME NEW j \in ConnIds, NewConnection(c, j, d, cn[c].mongo, isTxn, cn[c].txn)
        PROVE  conns'[k].mongo # NoMongo
    <3>. DEFINE K == Replaced(c, d, isTxn)
                r == [pool |-> d, mongo |-> m, inUse |-> TRUE,
                      txn |-> IF mode = "transaction" /\ isTxn THEN cn[c].txn ELSE NoTxn]
    <3>1. conns' = [ReturnObjects(K) EXCEPT ![j] = r]
      BY <2>2, Zenon DEF NewConnection, Replaced
    <3>2. r.mongo = m
      OBVIOUS
    <3>. HIDE DEF K, r
    <3>3. IF k = j THEN conns'[k] = r ELSE conns'[k] = ReturnObjects(K)[k]
      BY <3>1, Zenon DEF ReturnObjects
    <3>. QED  BY <1>2, <1>6, <3>2, <3>3, ReturnMongo, Zenon DEF NilInv
  <2>. QED  BY <2>1, <2>2, Zenon DEF GetConnection
<1>. HIDE DEF m
<1>. QED  BY <1>1, <1>2, <1>4, <1>5, <1>6, NilFrame DEF NilInv

LEMMA NilStep ==
  ASSUME TypeInv, NilInv, OwnRoutes \/ MaxFailures = 0, [Next]_vars
  PROVE  NilInv'
<1>1. ASSUME NEW c \in Clients, Local(c) \/ GetConnection(c) PROVE NilInv'
  BY <1>1, NilLocal, NilGet
<1>2. ASSUME NEW c \in Clients, pools' = pools, routeClient' = routeClient,
             \A b \in Clients \ {c} : cn'[b] = cn[b],
             conns' = conns \/ \E K : conns' = ReturnObjects(K),
             NeedsPool(c)' => pools[cn'[c].db] # NoPool,
             MaxFailures = 0 => cn'[c].pc # "clear" /\ cn'[c].err # "connection"
      PROVE  NilInv'
  <2>1. \A k \in ConnIds : conns'[k].inUse => conns'[k].mongo # NoMongo
    BY <1>2, ReturnMongo DEF NilInv
  <2>. QED  BY <1>2, <2>1, NilFrame, Zenon DEF NilInv
<1>3. ASSUME NEW c \in Clients, NEW pc \in {"idle", "register", "get", "closing"}, Goto(c, pc),
             pc \in {"register", "get"} => cn[c].pc \in {"pool", "register"},
             pools' = pools, routeClient' = routeClient,
             conns' = conns \/ \E K : conns' = ReturnObjects(K)
      PROVE  NilInv'
  <2>1. /\ cn'[c].pc = pc /\ cn'[c].db = cn[c].db /\ cn'[c].mongo = cn[c].mongo
        /\ cn'[c].err = cn[c].err /\ \A b \in Clients \ {c} : cn'[b] = cn[b]
    BY <1>3, Gone, Zenon
  <2>2. NeedsPool(c)' => pools[cn'[c].db] # NoPool
    BY <1>3, <2>1, Zenon DEF NilInv, NeedsPool
  <2>. QED  BY <1>2, <1>3, <2>1, <2>2, Zenon DEF NilInv
<1>4. ASSUME NEW c \in Clients, Connect(c) PROVE NilInv'
  BY <1>3, <1>4, Zenon DEF Connect, routing
<1>5. ASSUME NEW c \in Clients, Register(c) PROVE NilInv'
  BY <1>3, <1>5 DEF Register, routing
<1>6. ASSUME NEW c \in Clients, EnterPool(c) PROVE NilInv'
  <2>1. conns' = conns \/ \E K : conns' = ReturnObjects(K)
    BY <1>6, Zenon DEF EnterPool, UnregisterClient, Return
  <2>2. /\ pools' = pools /\ routeClient' = routeClient /\ cn[c].pc = "pool"
        /\ Goto(c, "get") \/ Goto(c, "register")
    BY <1>6 DEF EnterPool, routing
  <2>. QED  BY <1>3, <2>1, <2>2
<1>7. ASSUME NEW c \in Clients, Disconnect(c) PROVE NilInv'
  <2>1. /\ pools' = pools /\ routeClient' = routeClient
        /\ conns' = ReturnObjects(Kept(c)) /\ Move(c, Off)
    BY <1>7, Zenon DEF Disconnect, UnregisterClient, Return, routing
  <2>2. cn'[c] = Off /\ \A b \in Clients \ {c} : cn'[b] = cn[b]
    BY <2>1, Moved
  <2>3. cn'[c].pc = "off" /\ cn'[c].err = "none"
    BY <2>2 DEF Off
  <2>. QED  BY <1>2, <2>1, <2>2, <2>3, Zenon DEF NeedsPool
<1>8. ASSUME NEW c \in Clients, GiveBack(c) PROVE NilInv'
  <2>. DEFINE q == [cn[c] EXCEPT !.pc = AfterReturn[cn[c].err], !.conn = NoConn]
  <2>1. pools' = pools /\ routeClient' = routeClient /\ \E K : conns' = ReturnObjects(K)
    BY <1>8 DEF GiveBack, ReturnConnection, Return, routing
  <2>2. cn'[c] = q /\ \A b \in Clients \ {c} : cn'[b] = cn[b]
    BY <1>8, Moved DEF GiveBack
  <2>3. q.db = cn[c].db /\ q.err = cn[c].err /\ q.pc = AfterReturn[cn[c].err]
    BY DEF TypeInv, TypeOK, Locals
  <2>4. AfterReturn[cn[c].err] = "clear" => cn[c].err = "connection"
    BY DEF TypeInv, TypeOK, Locals, AfterReturn
  <2>5. pools[cn[c].db] # NoPool
    BY <1>8 DEF GiveBack, NilInv, NeedsPool
  <2>. HIDE DEF q
  <2>. QED  BY <1>2, <2>1, <2>2, <2>3, <2>4, <2>5, Zenon DEF NilInv
<1>9. UNCHANGED <<poolVars, cn, routing>> => NilInv'
  BY Zenon DEF NilInv, NeedsPool, Route, poolVars, routing
<1>. QED  BY <1>1, <1>4, <1>5, <1>6, <1>7, <1>8, <1>9, PoolSteps, Zenon

\* The second read of route.MongoClient may find nil what the first found set,
\* but RoundTrip is never called on a nil client, as long as no connection
\* error clears a client or every database has a route of its own: the pool of
\* the database was made by an earlier request and keeps its client.
THEOREM NeverNil ==
  ASSUME OwnRoutes \/ MaxFailures = 0
  PROVE  Spec => [](\A c \in Clients : cn[c].pc = "trip" => conns[cn[c].conn].mongo # NoMongo)
<1>1. TypeInv /\ PoolInv /\ NilInv =>
        \A c \in Clients : cn[c].pc = "trip" => conns[cn[c].conn].mongo # NoMongo
  BY Zenon DEF TypeInv, LocalsOK, PoolInv, UseInv, NilInv
<1>2. TypeInv /\ NilInv /\ [Next]_vars => NilInv'
  BY NilStep
<1>. QED  BY TypeInit, TypeStep, PoolInvInit, PoolStep, NilInit, <1>1, <1>2, PTL DEF Spec

-----------------------------------------------------------------------------
(* No connection is lost *)

\* A step of c whose own new connections, and what others have, stay held
LEMMA HeldFrame ==
  ASSUME TypeInv, AllHeld, NEW c \in Clients,
         \A b \in Clients \ {c} : cn'[b] = cn[b] /\ clients'[b] = clients[b],
         \A k \in ConnIds : conns'[k].inUse =>
            \/ k \in Kept(c)' \/ cn'[c].conn = k
            \/ conns[k].inUse /\ k \notin Kept(c) /\ cn[c].conn # k
  PROVE  AllHeld'
<1>. SUFFICES ASSUME NEW k \in ConnIds, conns'[k].inUse PROVE Held(k)'
  BY DEF AllHeld
<1>1. CASE k \in Kept(c)' \/ cn'[c].conn = k
  BY <1>1 DEF Held
<1>2. CASE conns[k].inUse /\ k \notin Kept(c) /\ cn[c].conn # k
  <2>1. PICK b \in Clients : k \in Kept(b) \/ cn[b].conn = k
    BY <1>2 DEF AllHeld, Held
  <2>2. b # c
    BY <1>2, <2>1, Zenon
  <2>3. k \in Kept(b)' \/ cn'[b].conn = k
    BY <2>1, <2>2 DEF Kept
  <2>. QED  BY <2>3 DEF Held
<1>. QED  BY <1>1, <1>2, Zenon

\* A goroutine without a connection has none
LEMMA EmptyHanded ==
  ASSUME TypeInv, NEW c \in Clients, cn[c].pc \notin {"trip", "return"}, NEW k \in ConnIds
  PROVE  cn[c].conn # k
BY DEF TypeInv, LocalsOK

LEMMA HeldLocal ==
  ASSUME TypeInv, PoolInv, AllHeld, NEW c \in Clients, Local(c),
         NilInv \/ mode = "session"
  PROVE  AllHeld'
<1>1. UNCHANGED <<mode, clients, conns>> /\ Kept(c)' = Kept(c)
  BY LocalFrame DEF poolVars, Kept
<1>2. Carries(c) /\ \A b \in Clients \ {c} : cn'[b] = cn[b]
  BY LocalMoves
<1>3. \A k \in ConnIds : k = cn[c].conn => cn'[c].conn = k \/ k \in Kept(c)
  <2>. SUFFICES ASSUME cn[c].conn \in ConnIds
                PROVE  cn'[c].conn = cn[c].conn \/ cn[c].conn \in Kept(c)
    OBVIOUS
  <2>1. cn[c].pc \in {"trip", "return"}
    BY EmptyHanded
  <2>2. conns[cn[c].conn].inUse /\ (mode = "session" => cn[c].conn = clients[c].assigned)
    BY <2>1, Zenon DEF PoolInv, UseInv
  <2>3. CASE mode = "session"
    BY <2>2, <2>3, ConnectionsAssumption, Zenon DEF Kept
  <2>4. CASE NilInv
    BY <1>2, <2>1, <2>2, <2>4, Zenon DEF NilInv, Carries
  <2>. QED  BY <2>3, <2>4
<1>. QED  BY <1>1, <1>2, <1>3, HeldFrame, Zenon

\* Of the connections given back none is in use, and the others are unchanged.
LEMMA ReturnedNotInUse ==
  ASSUME TypeInv, NEW K, conns' = ReturnObjects(K), NEW k \in ConnIds, conns'[k].inUse
  PROVE  k \notin K /\ conns[k].inUse
<1>1. conns'[k] = IF k \in K THEN [conns[k] EXCEPT !.inUse = FALSE, !.txn = NoTxn] ELSE conns[k]
  BY Zenon DEF ReturnObjects
<1>2. conns[k] \in PooledConnections
  BY Zenon DEF TypeInv, TypeOK, PoolTypeOK
<1>3. k \in K => conns'[k].inUse = FALSE
  BY <1>1, <1>2 DEF PooledConnections
<1>. QED  BY <1>1, <1>3, Zenon

LEMMA HeldUnregister ==
  ASSUME TypeInv, AllHeld, NEW c \in Clients, UnregisterClient(c),
         cn[c].pc \notin {"trip", "return"}, \A b \in Clients \ {c} : cn'[b] = cn[b]
  PROVE  AllHeld'
<1>1. /\ \A b \in Clients \ {c} : clients'[b] = clients[b]
      /\ conns' = ReturnObjects(Kept(c))
  BY Zenon DEF UnregisterClient, Return, TypeInv, TypeOK, PoolTypeOK
<1>2. ASSUME NEW k \in ConnIds, conns'[k].inUse PROVE k \notin Kept(c) /\ conns[k].inUse
  BY <1>1, <1>2, ReturnedNotInUse, Zenon
<1>3. \A k \in ConnIds : cn[c].conn # k
  BY EmptyHanded
<1>. QED  BY <1>1, <1>2, <1>3, HeldFrame, Zenon

\* A step that moves c and changes no connection, nor what c keeps
LEMMA HeldSame ==
  ASSUME TypeInv, AllHeld, NEW c \in Clients, conns' = conns, Kept(c)' = Kept(c),
         \A b \in Clients \ {c} : cn'[b] = cn[b] /\ clients'[b] = clients[b],
         cn[c].pc \notin {"trip", "return"}
  PROVE  AllHeld'
<1>1. \A k \in ConnIds : cn[c].conn # k
  BY EmptyHanded
<1>. QED  BY <1>1, HeldFrame

LEMMA HeldRegister ==
  ASSUME TypeInv, PoolInv, NEW c \in Clients, NEW d, RegisterClient(c, d)
  PROVE  Kept(c)' = Kept(c) /\ \A b \in Clients \ {c} : clients'[b] = clients[b]
<1>1. CASE Registered(c)
  BY <1>1 DEF RegisterClient, Kept
<1>2. CASE ~ Registered(c)
  <2>1. clients'[c] = [Unregistered EXCEPT !.db = d] /\ \A b \in Clients \ {c} : clients'[b] = clients[b]
    BY <1>2 DEF RegisterClient, TypeInv, TypeOK, PoolTypeOK
  <2>2. clients'[c].assigned = NoConn /\ clients'[c].txnConn = NoConn
    BY <2>1 DEF Unregistered
  <2>3. Kept(c) = {}
    BY <1>2 DEF PoolInv, KeepInv
  <2>. QED  BY <2>1, <2>2, <2>3 DEF Kept
<1>. QED  BY <1>1, <1>2, Zenon

\* A new connection takes the place of none that the client still keeps
LEMMA HeldNew ==
  ASSUME TypeInv, PoolInv, AllHeld, NEW c \in Clients, cn[c].pc = "get",
         ~ Keeps(c, IsTransaction(cn[c].kind), cn[c].txn), NEW k \in ConnIds, Unreferenced(k),
         NewConnection(c, k, cn[c].db, cn[c].mongo, IsTransaction(cn[c].kind), cn[c].txn),
         Move(c, [cn[c] EXCEPT !.pc = "trip", !.conn = k])
  PROVE  AllHeld'
<1>. DEFINE d == cn[c].db
            isTxn == IsTransaction(cn[c].kind)
            K == Replaced(c, d, isTxn)
            keep == mode = "session" \/ (mode = "transaction" /\ isTxn)
<1>1. cn'[c].conn = k /\ \A b \in Clients \ {c} : cn'[b] = cn[b]
  <2>1. /\ cn'[c] = [cn[c] EXCEPT !.pc = "trip", !.conn = k]
        /\ \A b \in Clients \ {c} : cn'[b] = cn[b]
    BY Moved
  <2>. QED  BY <2>1 DEF TypeInv, TypeOK, Locals
<1>2. PICK r : conns' = [ReturnObjects(K) EXCEPT ![k] = r]
  BY Zenon DEF NewConnection, Replaced
<1>3. ASSUME NEW j \in ConnIds, j # k, conns'[j].inUse PROVE j \notin K /\ conns[j].inUse
  <2>1. conns'[j] = ReturnObjects(K)[j]
    BY <1>2, <1>3, Zenon DEF ReturnObjects
  <2>. QED  BY <1>3, <2>1
            DEF ReturnObjects, TypeInv, TypeOK, PoolTypeOK, PooledConnections
<1>4. /\ clients'[c].assigned = (IF mode = "session" THEN k ELSE clients[c].assigned)
      /\ clients'[c].txnConn = (IF mode = "transaction" /\ isTxn THEN k ELSE clients[c].txnConn)
      /\ \A b \in Clients \ {c} : clients'[b] = clients[b]
  BY DEF NewConnection, TypeInv, TypeOK, PoolTypeOK, Registrations
<1>5. KeepInv(c) /\ clients[c].db = d
  BY DEF PoolInv, UseInv
<1>6. \A j \in Kept(c) : j \in ConnIds /\ conns[j].pool = d
  BY <1>5 DEF KeepInv, TypeInv, TypeOK, PoolTypeOK, Registrations, Kept
<1>7. ~ keep => Kept(c)' = Kept(c)
  BY <1>4 DEF Kept
<1>8. keep => Kept(c) = K
  <2>1. CASE mode = "session"
    BY <1>5, <2>1 DEF Keeps, KeepInv, Kept, Replaced
  <2>2. CASE mode = "transaction" /\ isTxn
    BY <1>5, <1>6, <2>2 DEF KeepInv, Kept, Replaced
  <2>. QED  BY <2>1, <2>2
<1>9. \A j \in ConnIds : cn[c].conn # j
  BY EmptyHanded
<1>. HIDE DEF K, keep
<1>. QED  BY <1>1, <1>3, <1>4, <1>7, <1>8, <1>9, HeldFrame

\* What ReturnConnection does not return, the client keeps
LEMMA HeldGiveBack ==
  ASSUME TypeInv, PoolInv, AllHeld, NEW c \in Clients, GiveBack(c),
         mode = "transaction" => "end" \notin Kinds
  PROVE  AllHeld'
<1>. DEFINE k == cn[c].conn
            isEnd == IsEndOfTransaction(cn[c].kind)
            K == IF Returned(c, k, isEnd) THEN {k} ELSE {}
<1>1. cn[c].pc = "return" /\ k \in ConnIds /\ cn[c].kind \in Kinds
  BY DEF GiveBack, TypeInv, LocalsOK, Serving
<1>2. /\ mode = "session" => k = clients[c].assigned
      /\ mode = "transaction" => (k = clients[c].txnConn <=> IsTransaction(cn[c].kind))
      /\ KeepInv(c) /\ mode \in {"session", "transaction", "statement"} /\ k # NoConn
  BY <1>1, ConnectionsAssumption, Zenon DEF PoolInv, UseInv, TypeInv, TypeOK, PoolTypeOK
<1>3. \A b \in Clients \ {c} : cn'[b] = cn[b]
  BY Moved DEF GiveBack
<1>4. /\ conns' = ReturnObjects(K)
      /\ clients' = [clients EXCEPT ![c].txnConn =
                       IF mode = "transaction" /\ isEnd /\ @ = k THEN NoConn ELSE @]
  BY Zenon DEF GiveBack, ReturnConnection, Return
<1>5. /\ \A b \in Clients \ {c} : clients'[b] = clients[b]
      /\ clients'[c].assigned = clients[c].assigned
      /\ clients'[c].txnConn =
           IF mode = "transaction" /\ isEnd /\ clients[c].txnConn = k THEN NoConn ELSE clients[c].txnConn
  BY <1>4 DEF TypeInv, TypeOK, PoolTypeOK, Registrations
<1>6. ASSUME NEW j \in ConnIds, conns'[j].inUse PROVE j \notin K /\ conns[j].inUse
  BY <1>4, <1>6, ReturnedNotInUse, Zenon
<1>7. isEnd /\ mode = "transaction" => IsTransaction(cn[c].kind)
  BY <1>1 DEF IsEndOfTransaction, IsTransaction
<1>8. k \notin K => k \in Kept(c)'
  BY <1>2, <1>5, <1>7, Zenon DEF Returned, Kept
<1>9. \A j \in Kept(c) : j \in Kept(c)' \/ j \in K
  BY <1>2, <1>5, Zenon DEF Returned, Kept
<1>. HIDE DEF K
<1>. QED  BY <1>3, <1>5, <1>6, <1>8, <1>9, HeldFrame, Zenon

LEMMA ModeStep == [Next]_vars => mode' = mode
<1>1. ASSUME NEW c \in Clients, \/ Connect(c) \/ EnterPool(c) \/ Register(c)
                                \/ GetConnection(c) \/ GiveBack(c) \/ Disconnect(c)
      PROVE  mode' = mode
  BY <1>1, Zenon DEF Connect, EnterPool, Register, GetConnection, GiveBack, Disconnect
<1>2. UNCHANGED poolVars => mode' = mode
  BY DEF poolVars
<1>. QED  BY <1>1, <1>2, PoolSteps, LocalFrame, Zenon

LEMMA HeldStep ==
  ASSUME TypeInv, PoolInv, AllHeld, NilInv \/ mode = "session",
         mode = "transaction" => "end" \notin Kinds, [Next]_vars
  PROVE  AllHeld'
<1>1. ASSUME NEW c \in Clients, Local(c) \/ GiveBack(c) PROVE AllHeld'
  BY <1>1, HeldLocal, HeldGiveBack
<1>2. CASE UNCHANGED <<poolVars, cn, routing>>
  BY <1>2 DEF poolVars, AllHeld, Held, Kept
<1>3. ASSUME NEW c \in Clients, Connect(c) \/ Register(c) PROVE AllHeld'
  <2>1. /\ conns' = conns /\ cn[c].pc \in {"off", "register"} /\ \E pc : Goto(c, pc)
        /\ (\E d : RegisterClient(c, d)) \/ UNCHANGED clients
    BY <1>3 DEF Connect, Register
  <2>2. \A b \in Clients \ {c} : cn'[b] = cn[b]
    BY <2>1, Gone
  <2>3. Kept(c)' = Kept(c) /\ \A b \in Clients \ {c} : clients'[b] = clients[b]
    BY <2>1, HeldRegister DEF Kept
  <2>. QED  BY <2>1, <2>2, <2>3, HeldSame
<1>4. ASSUME NEW c \in Clients, EnterPool(c) PROVE AllHeld'
  <2>1. /\ cn[c].pc = "pool" /\ \E pc : Goto(c, pc)
        /\ UnregisterClient(c) \/ UNCHANGED <<clients, conns>>
    BY <1>4, Zenon DEF EnterPool
  <2>2. \A b \in Clients \ {c} : cn'[b] = cn[b]
    BY <2>1, Gone
  <2>. QED  BY <2>1, <2>2, HeldSame, HeldUnregister DEF Kept
<1>5. ASSUME NEW c \in Clients, Disconnect(c) PROVE AllHeld'
  <2>1. cn[c].pc = "closing" /\ UnregisterClient(c) /\ \A b \in Clients \ {c} : cn'[b] = cn[b]
    BY <1>5, Moved, Zenon DEF Disconnect
  <2>. QED  BY <2>1, HeldUnregister
<1>6. ASSUME NEW c \in Clients, GetConnection(c) PROVE AllHeld'
  <2>1. cn[c].pc = "get"
    BY <1>6, Zenon DEF GetConnection
  <2>2. ASSUME NEW k, Move(c, [cn[c] EXCEPT !.pc = "trip", !.conn = k]), UNCHANGED <<clients,
  conns>>
        PROVE  AllHeld'
    <3>1. \A b \in Clients \ {c} : cn'[b] = cn[b]
      BY <2>2, Moved
    <3>. QED  BY <2>1, <2>2, <3>1, HeldSame DEF Kept
  <2>3. UNCHANGED <<clients, conns, active>> => UNCHANGED <<clients, conns>>
    OBVIOUS
  <2>. QED  BY <1>6, <2>1, <2>2, <2>3, HeldNew, ZenonT(30) DEF GetConnection
<1>. QED  BY <1>1, <1>2, <1>3, <1>4, <1>5, <1>6, PoolSteps, Zenon

\* In every pool mode the counts are right and every connection in use will be
\* returned by the client that keeps it or the goroutine that uses it.  The two
\* conditions are where the code loses one: an endSessions command outside the
\* client's transaction in transaction mode, which ReturnConnection neither
\* returns nor keeps; and a nil client, whose panic skips ReturnConnection, for
\* a database that shares its route with another after a connection error.  In
\* session mode the client's registration holds the connection through a panic.
THEOREM PoolsAccountedFor ==
  ASSUME "end" \in Kinds => "transaction" \notin Modes,
         OwnRoutes \/ MaxFailures = 0 \/ Modes \subseteq {"session"}
  PROVE  Spec => []CountedAndHeld
<1>1. PoolInv /\ AllHeld => CountedAndHeld
  BY Zenon DEF PoolInv, Counted, InUse, KeepInv, AllHeld, CountedAndHeld
<1>2. Init => AllHeld /\ mode \in Modes
  BY DEF Init, PoolInit, AllHeld
<1>3. mode \in Modes /\ [Next]_vars => (mode \in Modes)'
  BY ModeStep
<1>4. CASE OwnRoutes \/ MaxFailures = 0
  <2>1. TypeInv /\ NilInv /\ [Next]_vars => NilInv'
    BY <1>4, NilStep
  <2>2. TypeInv /\ PoolInv /\ NilInv /\ AllHeld /\ mode \in Modes /\ [Next]_vars => AllHeld'
    BY HeldStep
  <2>. QED  BY TypeInit, TypeStep, PoolInvInit, PoolStep, NilInit, <1>1, <1>2, <1>3, <2>1, <2>2, PTL
            DEF Spec
<1>5. CASE Modes \subseteq {"session"}
  <2>1. TypeInv /\ PoolInv /\ AllHeld /\ mode \in Modes /\ [Next]_vars => AllHeld'
    BY <1>5, HeldStep
  <2>. QED  BY TypeInit, TypeStep, PoolInvInit, PoolStep, <1>1, <1>2, <1>3, <2>1, PTL DEF Spec
<1>. QED  BY <1>4, <1>5
=============================================================================

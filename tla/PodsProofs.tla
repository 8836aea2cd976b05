----------------------------- MODULE PodsProofs -----------------------------
(***************************************************************************)
(* No request of an open transaction and no getMore goes astray while its  *)
(* entry in the distributed cache is not lost and is seen by those that    *)
(* need it, for every number of pods, Mongo clients of either kind,        *)
(* servers, sessions and cursors.                                          *)
(***************************************************************************)
EXTENDS Pods, TLAPS

\* Pod p has server s on record for session l: in the transaction cache of a
\* client of it, as the session's pin, or in a start that one of its clients
\* has sent and will add to the cache
Claims(p, s, l) ==
  \/ \E m \in Mongos : PodOf[m] = p /\ txns[m][l] = s
  \/ sessions[p][l] # NoSession /\ sessions[p][l].server = s
  \/ /\ flight[l] # NoRequest /\ flight[l].kind = "start"
     /\ PodOf[flight[l].mongo] = p /\ flight[l].server = s

\* A pinned connection is one of the pinned server
PinsAgree ==
  \A p \in Pods, l \in Lsids :
    sessions[p][l] # NoSession =>
      sessions[p][l].conn = IF sessions[p][l].server = NoServer THEN NoConn
                            ELSE sessions[p][l].server

\* One pod at most has a server on record
OneClaim(l) ==
  \A p, q \in Pods, s, t \in Servers : Claims(p, s, l) /\ Claims(q, t, l) => p = q /\ s = t

\* What is on record is where the transaction is, and has an entry
ClaimIsHome(l) ==
  \A p \in Pods, s \in Servers :
    Claims(p, s, l) => home[l] \in {NoServer, s} /\ TxnKey(l) \in group

\* Nobody but the pod that ends a transaction has it on record
EnderClaims(l) ==
  flight[l] # NoRequest /\ flight[l].kind \in {"commit", "abort"} =>
    \A p \in Pods, s \in Servers : Claims(p, s, l) => p = PodOf[flight[l].mongo]

SentHome(x) ==
  flight[x] # NoRequest /\ flight[x].kind # "killCursors"
    => home[x] \in {NoServer, flight[x].server}

TxnSafe(l) ==
  /\ OneClaim(l) /\ ClaimIsHome(l) /\ EnderClaims(l) /\ SentHome(l)
  /\ home[l] # NoServer => TxnKey(l) \in group

CursorSafe(k) ==
  /\ SentHome(k)
  /\ \A m \in Mongos : cursors[m][k] # NoServer => home[k] \in {NoServer, cursors[m][k]}
  /\ home[k] # NoServer => CursorKey(k) \in group

\* Sessions are used by requests of transactions, cursors by getMore and
\* killCursors
KindsAgree ==
  \A x \in Things : flight[x] # NoRequest =>
    IF x \in Cursors THEN flight[x].kind \in CursorKinds ELSE flight[x].kind \in TxnKinds

PodsInv ==
  /\ TypeOK /\ PinsAgree /\ KindsAgree
  /\ \A l \in Lsids : l \notin lost => TxnSafe(l)
  /\ \A k \in Cursors : k \notin lost => CursorSafe(k)
-----------------------------------------------------------------------------
(* Start-up, and what selecting a server gives *)

\* Nothing is open and nothing is on record when the pods start.
LEMMA InitPods == Init => PodsInv
<1>. SUFFICES ASSUME Init PROVE PodsInv
  OBVIOUS
<1>1. TypeOK
  BY DEF Init, TypeOK, Things
<1>2. PinsAgree /\ KindsAgree
  BY DEF Init, PinsAgree, KindsAgree
<1>3. ASSUME NEW l \in Lsids PROVE TxnSafe(l)
  BY <1>3, PodsAssumption DEF Init, TxnSafe, OneClaim, ClaimIsHome, EnderClaims, SentHome, Claims,
     Things
<1>4. ASSUME NEW k \in Cursors PROVE CursorSafe(k)
  BY <1>4 DEF Init, CursorSafe, SentHome, Things
<1>. QED  BY <1>1, <1>2, <1>3, <1>4 DEF PodsInv

\* The session a request works with is a session, its pins agree, and it has
\* pins only if it is the pod's own.
LEMMA SessionFacts ==
  ASSUME PodsInv, NEW p \in Pods, NEW l \in Lsids, NEW up
  PROVE  LET s == GetSession(p, l, up) IN
         /\ s \in SessionRecords
         /\ s.conn = IF s.server = NoServer THEN NoConn ELSE s.server
         /\ s.server # NoServer => sessions[p][l] # NoSession /\ s = sessions[p][l]
<1>1. CASE sessions[p][l] # NoSession
  BY <1>1 DEF GetSession, PodsInv, TypeOK, PinsAgree
<1>2. CASE sessions[p][l] = NoSession
  BY <1>2, Zenon DEF GetSession, Copy, NewSession, UnpinTransaction, StartTransaction,
     SessionRecords,
     TransactionStates
<1>. QED  BY <1>1, <1>2

\* A server is selected, and the connection is one of it.
LEMMA ServerFacts ==
  ASSUME PodsInv, NEW m \in Mongos, NEW l \in Lsids, NEW up,
         NEW srv \in ServersFor(GetSession(PodOf[m], l, up), m, l, up)
  PROVE  /\ srv \in Servers
         /\ Destination(GetSession(PodOf[m], l, up), srv) \in Servers
<1>. DEFINE s == GetSession(PodOf[m], l, up)
<1>1. s \in SessionRecords
  BY SessionFacts, PodsAssumption
<1>. HIDE DEF s
<1>2. srv \in Servers
  BY <1>1 DEF ServersFor, SelectForTxn, HasPinnedServer, SessionRecords, PodsInv, TypeOK, s
<1>3. Destination(s, srv) \in Servers
  BY <1>1, <1>2 DEF Destination, HasPinnedConnection, SessionRecords
<1>. QED  BY <1>2, <1>3 DEF s

\* The heart of the argument: a client that selects a server for a session
\* knows it from the records of its pod, or can tell from the missing entry
\* that nobody has a record and nothing is open.
LEMMA Selected ==
  ASSUME PodsInv, NEW m \in Mongos, NEW l \in Lsids, NEW up, flight[l] = NoRequest,
         \/ l \notin lost /\ ~ BlindTxn(GetSession(PodOf[m], l, up), m, l, up)
         \/ Forgotten(l),
         NEW srv \in ServersFor(GetSession(PodOf[m], l, up), m, l, up)
  PROVE  /\ Destination(GetSession(PodOf[m], l, up), srv) = srv
         /\ home[l] \in {NoServer, srv}
         /\ \A q \in Pods, t \in Servers : Claims(q, t, l) => q = PodOf[m] /\ t = srv
<1>. DEFINE p == PodOf[m]
            s == GetSession(p, l, up)
<1>p. p \in Pods
  BY PodsAssumption
<1>1. /\ s \in SessionRecords
      /\ s.conn = IF s.server = NoServer THEN NoConn ELSE s.server
      /\ s.server # NoServer => sessions[p][l] # NoSession /\ s = sessions[p][l]
  BY <1>p, SessionFacts
<1>2. srv \in Servers
  BY ServerFacts
<1>. HIDE DEF s
<1>3. CASE Forgotten(l)
  <2>1. s.server = NoServer
    BY <1>p, <1>1, <1>3 DEF Forgotten
  <2>2. \A q \in Pods, t \in Servers : ~ Claims(q, t, l)
    BY <1>3, PodsAssumption DEF Forgotten, Claims
  <2>3. Destination(s, srv) = srv
    BY <1>1, <2>1 DEF Destination, HasPinnedConnection
  <2>. QED  BY <1>3, <2>2, <2>3 DEF Forgotten, s
<1>4. CASE l \notin lost /\ ~ BlindTxn(s, m, l, up)
  <2>1. TxnSafe(l)
    BY <1>4 DEF PodsInv
  <2>2. s.server # NoServer => Claims(p, s.server, l) /\ s.server \in Servers
    BY <1>1 DEF Claims, SessionRecords
  <2>3. CASE Claims(p, srv, l)
    <3>1. \A q \in Pods, t \in Servers : Claims(q, t, l) => q = p /\ t = srv
      BY <1>p, <1>2, <2>1, <2>3 DEF TxnSafe, OneClaim
    <3>2. home[l] \in {NoServer, srv}
      BY <1>p, <1>2, <2>1, <2>3 DEF TxnSafe, ClaimIsHome
    <3>3. Destination(s, srv) = srv
      BY <1>p, <1>1, <2>2, <3>1 DEF Destination, HasPinnedConnection
    <3>. QED  BY <3>1, <3>2, <3>3 DEF s
  <2>4. CASE ~ Claims(p, srv, l)
    <3>1. TxnKey(l) \notin group
      <4>1. ~ (HasPinnedServer(s) /\ srv = s.server)
        BY <2>2, <2>4 DEF HasPinnedServer
      <4>2. srv \in SelectForTxn(m, l, up) /\ ~ HasPinnedServer(s)
        BY <4>1 DEF ServersFor, s
      <4>3. txns[m][l] # srv
        BY <2>4 DEF Claims
      <4>4. txns[m][l] = NoServer /\ ~ GetTransaction(l, Reach(m, up))
        BY <4>2, <4>3 DEF SelectForTxn
      <4>. QED  BY <1>4, <4>2, <4>4 DEF BlindTxn, GetTransaction
    <3>2. \A q \in Pods, t \in Servers : ~ Claims(q, t, l)
      BY <2>1, <3>1 DEF TxnSafe, ClaimIsHome
    <3>3. home[l] = NoServer
      BY <2>1, <3>1 DEF TxnSafe
    <3>4. Destination(s, srv) = srv
      BY <1>p, <1>1, <2>2, <3>2 DEF Destination, HasPinnedConnection
    <3>. QED  BY <3>2, <3>3, <3>4 DEF s
  <2>. QED  BY <2>3, <2>4
<1>. QED  BY <1>3, <1>4 DEF s
-----------------------------------------------------------------------------
(* Steps that only forget *)

\* A transaction stays safe if records of it are dropped, it ends or its
\* request is over, and its entry is kept.
LEMMA TxnForgets ==
  ASSUME NEW l \in Lsids, TxnSafe(l),
         \A p \in Pods, s \in Servers : Claims(p, s, l)' => Claims(p, s, l),
         home'[l] \in {NoServer, home[l]}, flight'[l] \in {NoRequest, flight[l]},
         TxnKey(l) \in group => TxnKey(l) \in group'
  PROVE  TxnSafe(l)'
<1>1. OneClaim(l)'
  BY DEF TxnSafe, OneClaim
<1>2. ClaimIsHome(l)'
  BY DEF TxnSafe, ClaimIsHome, TxnKey
<1>3. EnderClaims(l)'
  BY DEF TxnSafe, EnderClaims
<1>4. SentHome(l)'
  BY DEF TxnSafe, SentHome
<1>. QED  BY <1>1, <1>2, <1>3, <1>4 DEF TxnSafe, TxnKey

\* The same of a cursor.
LEMMA CursorForgets ==
  ASSUME NEW k \in Cursors, CursorSafe(k),
         \A m \in Mongos : cursors'[m][k] \in {NoServer, cursors[m][k]},
         home'[k] \in {NoServer, home[k]}, flight'[k] \in {NoRequest, flight[k]},
         CursorKey(k) \in group => CursorKey(k) \in group'
  PROVE  CursorSafe(k)'
BY DEF CursorSafe, SentHome, CursorKey

\* A refused request inserts the session it looked up, at most.
LEMMA RefuseStep ==
  ASSUME PodsInv, NEW n \in Mongos, NEW l \in Lsids, NEW kind, NEW up, Refuse(n, l, kind, up)
  PROVE  PodsInv'
<1>. DEFINE p == PodOf[n]
            s == GetSession(p, l, up)
<1>p. p \in Pods
  BY PodsAssumption
<1>1. /\ s \in SessionRecords
      /\ s.conn = IF s.server = NoServer THEN NoConn ELSE s.server
      /\ s.server # NoServer => sessions[p][l] # NoSession /\ s = sessions[p][l]
  BY <1>p, SessionFacts
<1>2. /\ sessions' = [sessions EXCEPT ![p][l] = s]
      /\ UNCHANGED <<using, txns, cursors, group, flight, home, lost>>
  BY DEF Refuse
<1>. HIDE DEF p, s
<1>3. TypeOK'
  BY <1>p, <1>1, <1>2 DEF PodsInv, TypeOK
<1>4. PinsAgree' /\ KindsAgree'
  BY <1>p, <1>1, <1>2 DEF PodsInv, TypeOK, PinsAgree, KindsAgree
<1>5. ASSUME NEW m \in Lsids, m \notin lost' PROVE TxnSafe(m)'
  <2>1. \A q \in Pods, t \in Servers : Claims(q, t, m)' => Claims(q, t, m)
    <3>1. \A q \in Pods : sessions'[q][m] # NoSession =>
            \/ sessions'[q][m].server = NoServer
            \/ sessions[q][m] # NoSession /\ sessions'[q][m] = sessions[q][m]
      BY <1>p, <1>1, <1>2 DEF PodsInv, TypeOK
    <3>. QED  BY <1>2, <3>1, PodsAssumption DEF Claims
  <2>2. TxnSafe(m)
    BY <1>2, <1>5 DEF PodsInv
  <2>. QED  BY <1>2, <2>1, <2>2, TxnForgets
<1>6. ASSUME NEW k \in Cursors, k \notin lost' PROVE CursorSafe(k)'
  BY <1>2, <1>6, CursorForgets DEF PodsInv
<1>. QED  BY <1>3, <1>4, <1>5, <1>6 DEF PodsInv

\* A server that ends something leaves records of nothing behind.
LEMMA ServerEndsStep ==
  ASSUME PodsInv, NEW x \in Things, ServerEnds(x)
  PROVE  PodsInv'
<1>1. TypeOK' /\ PinsAgree' /\ KindsAgree'
  BY DEF ServerEnds, PodsInv, TypeOK, PinsAgree, KindsAgree
<1>2. \A y \in Things : home'[y] \in {NoServer, home[y]}
  BY DEF ServerEnds, PodsInv, TypeOK
<1>3. ASSUME NEW m \in Lsids, m \notin lost' PROVE TxnSafe(m)'
  <2>1. \A q \in Pods, t \in Servers : Claims(q, t, m)' => Claims(q, t, m)
    BY DEF Claims, ServerEnds
  <2>. QED  BY <1>2, <1>3, <2>1, TxnForgets DEF PodsInv, ServerEnds, Things
<1>4. ASSUME NEW k \in Cursors, k \notin lost' PROVE CursorSafe(k)'
  BY <1>2, <1>4, CursorForgets DEF PodsInv, ServerEnds, Things
<1>. QED  BY <1>1, <1>3, <1>4 DEF PodsInv

\* Entries that expire in the group are lost; those of a pod are forgotten,
\* as are sessions that are cleaned up.
LEMMA ExpireStep ==
  ASSUME PodsInv,
         \/ \E key \in Keys : Expire(key)
         \/ \E n \in Mongos, l \in Lsids : ExpireTxn(n, l)
         \/ \E n \in Mongos, k \in Cursors : ExpireCursor(n, k)
         \/ \E p \in Pods, L \in SUBSET Lsids : CleanupInactiveSessions(p, L)
  PROVE  PodsInv'
<1>1. CASE \E key \in Keys : Expire(key)
  <2>. PICK key \in Keys : Expire(key)
    BY <1>1
  <2>1. TypeOK' /\ PinsAgree' /\ KindsAgree'
    BY DEF Expire, Entries, PodsInv, TypeOK, PinsAgree, KindsAgree, Things
  <2>2. ASSUME NEW m \in Lsids, m \notin lost' PROVE TxnSafe(m)'
    <3>1. \A q \in Pods, t \in Servers : Claims(q, t, m)' => Claims(q, t, m)
      BY DEF Claims, Expire
    <3>2. m \notin lost /\ (TxnKey(m) \in group => TxnKey(m) \in group')
      BY <2>2 DEF Expire, Entries
    <3>. QED  BY <3>1, <3>2, TxnForgets DEF PodsInv, Expire
  <2>3. ASSUME NEW k \in Cursors, k \notin lost' PROVE CursorSafe(k)'
    <3>1. k \notin lost /\ (CursorKey(k) \in group => CursorKey(k) \in group')
      BY <2>3 DEF Expire, Entries
    <3>. QED  BY <3>1, CursorForgets DEF PodsInv, Expire
  <2>. QED  BY <2>1, <2>2, <2>3 DEF PodsInv
<1>2. CASE \E n \in Mongos, l \in Lsids : ExpireTxn(n, l)
  <2>. PICK n \in Mongos, l \in Lsids : ExpireTxn(n, l)
    BY <1>2
  <2>1. TypeOK' /\ PinsAgree' /\ KindsAgree'
    BY DEF ExpireTxn, PodsInv, TypeOK, PinsAgree, KindsAgree
  <2>2. ASSUME NEW m \in Lsids, m \notin lost' PROVE TxnSafe(m)'
    <3>1. \A q \in Pods, t \in Servers : Claims(q, t, m)' => Claims(q, t, m)
      <4>1. \A j \in Mongos : txns'[j][m] \in {NoServer, txns[j][m]}
        BY DEF ExpireTxn, PodsInv, TypeOK
      <4>. QED  BY <4>1, PodsAssumption DEF Claims, ExpireTxn
    <3>. QED  BY <2>2, <3>1, TxnForgets DEF PodsInv, ExpireTxn
  <2>3. ASSUME NEW k \in Cursors, k \notin lost' PROVE CursorSafe(k)'
    BY <2>3, CursorForgets DEF PodsInv, ExpireTxn
  <2>. QED  BY <2>1, <2>2, <2>3 DEF PodsInv
<1>3. CASE \E n \in Mongos, k \in Cursors : ExpireCursor(n, k)
  <2>. PICK n \in Mongos, c \in Cursors : ExpireCursor(n, c)
    BY <1>3
  <2>1. TypeOK' /\ PinsAgree' /\ KindsAgree'
    BY Zenon DEF ExpireCursor, PodsInv, TypeOK, PinsAgree, KindsAgree
  <2>2. ASSUME NEW m \in Lsids, m \notin lost' PROVE TxnSafe(m)'
    <3>1. \A q \in Pods, t \in Servers : Claims(q, t, m)' => Claims(q, t, m)
      BY DEF Claims, ExpireCursor
    <3>. QED  BY <2>2, <3>1, TxnForgets DEF PodsInv, ExpireCursor
  <2>3. ASSUME NEW k \in Cursors, k \notin lost' PROVE CursorSafe(k)'
    <3>1. \A j \in Mongos : cursors'[j][k] \in {NoServer, cursors[j][k]}
      BY DEF ExpireCursor, PodsInv, TypeOK
    <3>. QED  BY <2>3, <3>1, CursorForgets DEF PodsInv, ExpireCursor
  <2>. QED  BY <2>1, <2>2, <2>3 DEF PodsInv
<1>4. CASE \E p \in Pods, L \in SUBSET Lsids : CleanupInactiveSessions(p, L)
  <2>. PICK p \in Pods, L \in SUBSET Lsids : CleanupInactiveSessions(p, L)
    BY <1>4
  <2>1. /\ TypeOK' /\ PinsAgree' /\ KindsAgree'
        /\ \A q \in Pods, m \in Lsids : sessions'[q][m] \in {NoSession, sessions[q][m]}
    BY DEF CleanupInactiveSessions, PodsInv, TypeOK, PinsAgree, KindsAgree
  <2>2. ASSUME NEW m \in Lsids, m \notin lost' PROVE TxnSafe(m)'
    <3>1. \A q \in Pods, t \in Servers : Claims(q, t, m)' => Claims(q, t, m)
      BY <2>1 DEF Claims, CleanupInactiveSessions
    <3>. QED  BY <2>2, <3>1, TxnForgets, Zenon DEF PodsInv, CleanupInactiveSessions
  <2>3. ASSUME NEW k \in Cursors, k \notin lost' PROVE CursorSafe(k)'
    BY <2>3, CursorForgets DEF PodsInv, CleanupInactiveSessions
  <2>. QED  BY <2>1, <2>2, <2>3 DEF PodsInv
<1>. QED  BY <1>1, <1>2, <1>3, <1>4
-----------------------------------------------------------------------------
(* Requests of transactions *)

\* A request is sent where the transaction is; a start puts its server on
\* record in this pod, and stores the entry.
LEMMA SendStep ==
  ASSUME PodsInv, NEW n \in Mongos, NEW l \in Lsids, NEW kind \in TxnKinds, NEW up,
         Send(n, l, kind, up)
  PROVE  PodsInv'
<1>. DEFINE p == PodOf[n]
            s == GetSession(p, l, up)
            afresh == kind = "start" /\ Forgotten(l)
<1>p. p \in Pods
  BY PodsAssumption
<1>1. /\ s \in SessionRecords
      /\ s.conn = IF s.server = NoServer THEN NoConn ELSE s.server
      /\ s.server # NoServer => sessions[p][l] # NoSession /\ s = sessions[p][l]
  BY <1>p, SessionFacts
<1>. PICK srv \in ServersFor(s, n, l, up) :
       /\ flight' = [flight EXCEPT ![l] =
                       [mongo |-> n, kind |-> kind, server |-> Destination(s, srv)]]
       /\ sessions' = [sessions EXCEPT ![p][l] =
            CASE kind = "start" -> StartTransaction(s, srv, Destination(s, srv))
              [] kind = "commit" -> CommitTransaction(s)
              [] kind = "abort" -> AbortTransaction(s)
              [] kind = "end" -> NoSession
              [] OTHER -> s]
  BY Zenon DEF Send
<1>. DEFINE to == Destination(s, srv)
            new == sessions'[p][l]
<1>2. srv \in Servers /\ to \in Servers
  BY ServerFacts
<1>3. /\ flight[l] = NoRequest /\ Accepted(s, kind)
      /\ group' = CASE kind = "start" -> StoreSession(StoreTransaction(group, l, up), l, up)
                    [] kind = "end" -> RemoveSession(group, l, up)
                    [] OTHER -> group
      /\ lost' = (IF afresh THEN lost \ {l} ELSE lost) \cup
                   (IF \/ kind = "start" /\ TxnKey(l) \notin up
                       \/ BlindTxn(s, n, l, up) /\ ~ afresh
                    THEN {l} ELSE {})
      /\ UNCHANGED <<using, txns, cursors, home>>
  BY DEF Send
<1>4. (l \notin lost /\ ~ BlindTxn(s, n, l, up)) \/ Forgotten(l) =>
        /\ to = srv /\ home[l] \in {NoServer, srv}
        /\ \A q \in Pods, t \in Servers : Claims(q, t, l) => q = p /\ t = srv
  BY <1>3, Selected
<1>5. kind = "start" => to = srv
  BY <1>3 DEF Accepted, CanStartTransaction, Destination, HasPinnedConnection
<1>. HIDE DEF p, s, to
<1>6. /\ \A q \in Pods, m \in Lsids : q # p \/ m # l => sessions'[q][m] = sessions[q][m]
      /\ \A x \in Things : x # l => flight'[x] = flight[x]
      /\ flight'[l] = [mongo |-> n, kind |-> kind, server |-> to]
      /\ flight'[l] # NoRequest
  BY <1>p, <1>2, PodsAssumption DEF PodsInv, TypeOK, Things, Requests, to
<1>7. new = CASE kind = "start" -> [s EXCEPT !.txn = "in_progress", !.server = srv, !.conn = to]
              [] kind = "commit" -> [s EXCEPT !.txn = "committed"]
              [] kind = "abort" -> [s EXCEPT !.txn = "aborted"]
              [] kind = "end" -> NoSession
              [] OTHER -> s
  BY <1>p DEF PodsInv, TypeOK, StartTransaction, CommitTransaction, AbortTransaction, to
<1>8. /\ new \in SessionRecords \cup {NoSession}
      /\ new # NoSession /\ kind = "start" => new.server = srv /\ new.conn = to
      /\ new # NoSession /\ kind # "start" => new.server = s.server /\ new.conn = s.conn
  <2>. HIDE DEF new
  <2>1. CASE kind = "start"
    BY <1>1, <1>2, <1>7, <2>1, Zenon DEF SessionRecords, TransactionStates
  <2>2. CASE kind \in {"commit", "abort"}
    BY <1>1, <1>7, <2>2 DEF SessionRecords, TransactionStates
  <2>3. CASE kind \in {"end", "statement"}
    BY <1>1, <1>7, <2>3
  <2>. QED  BY <2>1, <2>2, <2>3 DEF TxnKinds
<1>9. /\ group' \subseteq Keys
      /\ TxnKey(l) \in up /\ kind = "start" => TxnKey(l) \in group'
      /\ \A m \in Lsids : TxnKey(m) \in group => TxnKey(m) \in group'
      /\ \A k \in Cursors : CursorKey(k) \in group => CursorKey(k) \in group'
  BY <1>3 DEF StoreSession, StoreTransaction, RemoveSession, Keys, SessionKey, TxnKey, CursorKey,
     PodsInv, TypeOK
<1>10. TypeOK'
  <2>1. sessions' \in [Pods -> [Lsids -> SessionRecords \cup {NoSession}]]
    BY <1>p, <1>8 DEF PodsInv, TypeOK
  <2>2. flight' \in [Things -> Requests \cup {NoRequest}]
    BY <1>2 DEF PodsInv, TypeOK, Requests, Things, to
  <2>. QED  BY <1>3, <1>9, <2>1, <2>2 DEF PodsInv, TypeOK, Things
<1>11. PinsAgree' /\ KindsAgree'
  <2>1. PinsAgree'
    BY <1>1, <1>2, <1>5, <1>6, <1>8, PodsAssumption DEF PodsInv, PinsAgree
  <2>2. KindsAgree'
    BY <1>6, PodsAssumption DEF PodsInv, KindsAgree, TxnKinds, Things
  <2>. QED  BY <2>1, <2>2
<1>12. ASSUME NEW m \in Lsids, m \notin lost', m # l PROVE TxnSafe(m)'
  <2>1. \A q \in Pods, t \in Servers : Claims(q, t, m)' => Claims(q, t, m)
    BY <1>3, <1>6, <1>12 DEF Claims, Things
  <2>2. m \notin lost
    BY <1>3, <1>12
  <2>. QED  BY <1>3, <1>6, <1>9, <1>12, <2>1, <2>2, TxnForgets DEF PodsInv, Things
<1>13. ASSUME l \notin lost' PROVE TxnSafe(l)'
  <2>1. /\ kind = "start" => TxnKey(l) \in up
        /\ (l \notin lost /\ ~ BlindTxn(s, n, l, up)) \/ afresh
    BY <1>3, <1>13
  <2>2. /\ to = srv /\ home[l] \in {NoServer, srv}
        /\ \A q \in Pods, t \in Servers : Claims(q, t, l) => q = p /\ t = srv
    BY <1>4, <2>1
  <2>3. \A q \in Pods, t \in Servers : Claims(q, t, l)' => q = p /\ t = srv
    <3>. SUFFICES ASSUME NEW q \in Pods, NEW t \in Servers, Claims(q, t, l)'
                  PROVE  q = p /\ t = srv
      OBVIOUS
    <3>1. CASE \E m \in Mongos : PodOf[m] = q /\ txns'[m][l] = t
      BY <1>3, <2>2, <3>1 DEF Claims
    <3>2. CASE sessions'[q][l] # NoSession /\ sessions'[q][l].server = t
      <4>1. CASE q # p
        BY <1>6, <2>2, <3>2, <4>1 DEF Claims
      <4>2. CASE q = p /\ kind = "start"
        BY <1>8, <3>2, <4>2
      <4>3. CASE q = p /\ kind # "start"
        BY <1>1, <1>8, <2>2, <3>2, <4>3, PodsAssumption DEF Claims
      <4>. QED  BY <4>1, <4>2, <4>3
    <3>3. CASE PodOf[flight'[l].mongo] = q /\ flight'[l].server = t
      BY <1>6, <2>2, <3>3 DEF p
    <3>. QED  BY <3>1, <3>2, <3>3 DEF Claims
  <2>4. (\E q \in Pods, t \in Servers : Claims(q, t, l)') => TxnKey(l) \in group'
    <3>1. CASE kind = "start"
      BY <1>9, <2>1, <3>1
    <3>2. CASE kind # "start"
      <4>1. TxnSafe(l)
        BY <2>1, <3>2 DEF PodsInv
      <4>2. \A q \in Pods, t \in Servers : Claims(q, t, l)' => Claims(q, t, l)
        <5>. SUFFICES ASSUME NEW q \in Pods, NEW t \in Servers, Claims(q, t, l)'
                      PROVE  Claims(q, t, l)
          OBVIOUS
        <5>1. CASE \E m \in Mongos : PodOf[m] = q /\ txns'[m][l] = t
          BY <1>3, <5>1 DEF Claims
        <5>2. CASE sessions'[q][l] # NoSession /\ sessions'[q][l].server = t
          BY <1>1, <1>6, <1>8, <3>2, <5>2, PodsAssumption DEF Claims
        <5>3. CASE flight'[l].kind = "start"
          BY <1>6, <3>2, <5>3
        <5>. QED  BY <5>1, <5>2, <5>3 DEF Claims
      <4>. QED  BY <1>9, <4>1, <4>2 DEF TxnSafe, ClaimIsHome
    <3>. QED  BY <3>1, <3>2
  <2>5. home[l] # NoServer => TxnKey(l) \in group'
    <3>1. CASE l \notin lost
      BY <1>9, <3>1 DEF PodsInv, TxnSafe
    <3>2. CASE Forgotten(l)
      BY <3>2 DEF Forgotten
    <3>. QED  BY <2>1, <3>1, <3>2
  <2>6. OneClaim(l)'
    BY <2>3 DEF OneClaim
  <2>7. ClaimIsHome(l)'
    BY <1>3, <2>2, <2>3, <2>4 DEF ClaimIsHome, TxnKey
  <2>8. EnderClaims(l)'
    BY <1>6, <2>3 DEF EnderClaims, p
  <2>9. SentHome(l)'
    BY <1>3, <1>6, <2>2 DEF SentHome
  <2>. QED  BY <1>3, <2>5, <2>6, <2>7, <2>8, <2>9 DEF TxnSafe, TxnKey
<1>14. ASSUME NEW k \in Cursors, k \notin lost' PROVE CursorSafe(k)'
  <2>1. k # l /\ k \notin lost
    BY <1>3, <1>14, PodsAssumption
  <2>. QED  BY <1>3, <1>6, <1>9, <1>14, <2>1, CursorForgets DEF PodsInv, Things
<1>. QED  BY <1>10, <1>11, <1>12, <1>13, <1>14 DEF PodsInv
\* What the deferred calls leave behind: sessions with the pins they had or
\* without pins.
LEMMA DeferredFacts ==
  ASSUME PodsInv, NEW l \in Lsids, flight[l] # NoRequest, sessions' = Deferred(l)
  PROVE  /\ sessions' \in [Pods -> [Lsids -> SessionRecords \cup {NoSession}]]
         /\ PinsAgree'
         /\ \A q \in Pods, m \in Lsids :
              sessions'[q][m] # NoSession =>
                /\ sessions[q][m] # NoSession
                /\ sessions'[q][m].server \in {NoServer, sessions[q][m].server}
         /\ flight[l].kind \in {"commit", "abort"} /\ sessions'[PodOf[flight[l].mongo]][l] # NoSession
              => sessions'[PodOf[flight[l].mongo]][l].server = NoServer
<1>1. CASE /\ ~ (/\ flight[l].kind \in {"commit", "abort"}
                 /\ sessions[PodOf[flight[l].mongo]][l] # NoSession)
           /\ sessions' = sessions
  BY <1>1 DEF PodsInv, TypeOK, PinsAgree
<1>2. CASE /\ flight[l].kind \in {"commit", "abort"} /\ sessions[PodOf[flight[l].mongo]][l] # NoSession
           /\ sessions' = [sessions EXCEPT ![PodOf[flight[l].mongo]][l] = ResetTransactionState(@)]
  <2>. DEFINE p == PodOf[flight[l].mongo]
              old == sessions[p][l]
              new == ResetTransactionState(old)
  <2>1. p \in Pods
    BY PodsAssumption DEF PodsInv, TypeOK, Requests, Things
  <2>2. old \in SessionRecords
    BY <1>2, <2>1 DEF PodsInv, TypeOK
  <2>3. new \in SessionRecords /\ new.server = NoServer /\ new.conn = NoConn
    BY <2>2, Zenon DEF ResetTransactionState, SessionRecords, TransactionStates
  <2>4. sessions' = [sessions EXCEPT ![p][l] = new]
    BY <1>2, <2>1 DEF PodsInv, TypeOK
  <2>. HIDE DEF p, new
  <2>5. sessions' \in [Pods -> [Lsids -> SessionRecords \cup {NoSession}]]
    BY <2>1, <2>3, <2>4 DEF PodsInv, TypeOK
  <2>6. \A q \in Pods, m \in Lsids :
          sessions'[q][m] = IF q = p /\ m = l THEN new ELSE sessions[q][m]
    BY <2>1, <2>4 DEF PodsInv, TypeOK
  <2>7. PinsAgree'
    BY <2>3, <2>6 DEF PodsInv, PinsAgree
  <2>. QED  BY <1>2, <2>1, <2>3, <2>5, <2>6, <2>7, Zenon DEF p
<1>. QED  BY <1>1, <1>2, Zenon DEF Deferred

\* The reply adds the server of a start to the pod's cache, where it already
\* was on record; after a commit or an abort the entry stays, or no client
\* has anything on record.
LEMMA ReplyStep ==
  ASSUME PodsInv, NEW l \in Lsids, NEW up, Reply(l, up)
  PROVE  PodsInv'
<1>. DEFINE r == flight[l]
            p == PodOf[r.mongo]
            keys == Reach(r.mongo, up)
            ended == r.kind \in {"commit", "abort"}
<1>1. /\ r \in Requests /\ r.mongo \in Mongos /\ r.server \in Servers /\ r # NoRequest
      /\ r.kind \in TxnKinds /\ l \in Things
  BY PodsAssumption DEF Reply, PodsInv, TypeOK, Things, Requests, KindsAgree
<1>p. p \in Pods
  BY <1>1, PodsAssumption
<1>2. PICK h \in Executed(l) : home' = [home EXCEPT ![l] = h]
  BY Zenon DEF Reply
<1>3. h \in Servers \cup {NoServer}
  BY <1>1 DEF Executed, PodsInv, TypeOK, Things
<1>4. /\ sessions' \in [Pods -> [Lsids -> SessionRecords \cup {NoSession}]]
      /\ PinsAgree'
      /\ \A q \in Pods, m \in Lsids :
           sessions'[q][m] # NoSession =>
             /\ sessions[q][m] # NoSession
             /\ sessions'[q][m].server \in {NoServer, sessions[q][m].server}
      /\ ended /\ sessions'[p][l] # NoSession => sessions'[p][l].server = NoServer
  BY DeferredFacts DEF Reply
<1>5. /\ txns' \in [Mongos -> [Lsids -> Servers \cup {NoServer}]]
      /\ \A n \in Mongos, m \in Lsids : n # r.mongo \/ m # l => txns'[n][m] = txns[n][m]
      /\ txns'[r.mongo][l] = CASE r.kind = "start" -> r.server
                               [] ended -> NoServer
                               [] OTHER -> txns[r.mongo][l]
  BY <1>1 DEF Reply, PodsInv, TypeOK
<1>6. /\ group' \subseteq Keys
      /\ \A m \in Lsids : m # l \/ ~ ended \/ TxnKey(l) \notin keys =>
           (TxnKey(m) \in group => TxnKey(m) \in group')
      /\ \A k \in Cursors : CursorKey(k) \in group => CursorKey(k) \in group'
  BY DEF Reply, StoreTransaction, RemoveTransaction, Keys, TxnKey, CursorKey, PodsInv, TypeOK
<1>7. /\ flight'[l] = NoRequest /\ home'[l] = h
      /\ \A x \in Things : x # l => flight'[x] = flight[x] /\ home'[x] = home[x]
      /\ flight' \in [Things -> Requests \cup {NoRequest}]
      /\ home' \in [Things -> Servers \cup {NoServer}]
      /\ UNCHANGED <<using, cursors>>
  BY <1>1, <1>2, <1>3 DEF Reply, PodsInv, TypeOK
<1>8. /\ lost' \subseteq Things /\ lost \subseteq lost'
      /\ l \notin lost' /\ ended /\ TxnKey(l) \in keys =>
           \A n \in Mongos : n # r.mongo => txns[n][l] = NoServer
  BY <1>1 DEF Reply, PodsInv, TypeOK
<1>. HIDE DEF r, p, keys, ended
<1>9. TypeOK' /\ PinsAgree' /\ KindsAgree'
  <2>1. TypeOK'
    <3>1. TypeOK  BY DEF PodsInv
    <3>. QED  BY ONLY <1>4, <1>5, <1>6, <1>7, <1>8, <3>1 DEF TypeOK
  <2>2. KindsAgree'
    <3>1. KindsAgree  BY DEF PodsInv
    <3>2. \A x \in Things : flight'[x] \in {NoRequest, flight[x]}
      BY ONLY <1>7
    <3>. QED  BY ONLY <3>1, <3>2 DEF KindsAgree
  <2>. QED  BY <1>4, <2>1, <2>2
<1>10. ASSUME NEW m \in Lsids, m \notin lost', m # l PROVE TxnSafe(m)'
  <2>1. \A q \in Pods, t \in Servers : Claims(q, t, m)' => Claims(q, t, m)
    <3>1. /\ m \in Things /\ flight'[m] = flight[m]
          /\ \A n \in Mongos : txns'[n][m] = txns[n][m]
      BY <1>5, <1>7, <1>10 DEF Things
    <3>2. \A q \in Pods : sessions'[q][m] # NoSession =>
            /\ sessions[q][m] # NoSession
            /\ sessions'[q][m].server \in {NoServer, sessions[q][m].server}
      BY <1>4
    <3>. QED  BY ONLY <3>1, <3>2, PodsAssumption DEF Claims
  <2>. QED  BY <1>6, <1>7, <1>8, <1>10, <2>1, TxnForgets DEF PodsInv, Things
<1>11. ASSUME l \notin lost' PROVE TxnSafe(l)'
  <2>1. TxnSafe(l)
    BY <1>8, <1>11 DEF PodsInv
  <2>2. \A q \in Pods, t \in Servers : Claims(q, t, l)' => Claims(q, t, l)
    <3>. SUFFICES ASSUME NEW q \in Pods, NEW t \in Servers, Claims(q, t, l)'
                  PROVE  Claims(q, t, l)
      OBVIOUS
    <3>1. ASSUME NEW n \in Mongos, PodOf[n] = q, txns'[n][l] = t PROVE Claims(q, t, l)
      <4>1. CASE n # r.mongo
        BY <1>5, <3>1, <4>1 DEF Claims
      <4>2. CASE n = r.mongo
        BY <1>1, <1>5, <3>1, <4>2, PodsAssumption DEF Claims, r
      <4>. QED  BY <4>1, <4>2
    <3>2. CASE sessions'[q][l] # NoSession /\ sessions'[q][l].server = t
      BY <1>4, <3>2, PodsAssumption, Zenon DEF Claims
    <3>. QED  BY <1>7, <3>1, <3>2 DEF Claims
  <2>3. CASE ended
    <3>1. h = NoServer
      <4>1. home[l] \in {NoServer, r.server}
        BY <1>1, <2>1, <2>3 DEF TxnSafe, SentHome, r, ended
      <4>2. Executed(l) = {IF home[l] = r.server THEN NoServer ELSE home[l]}
        BY <2>3 DEF Executed, CursorKinds, r, ended
      <4>. QED  BY <4>1, <4>2
    <3>2. CASE TxnKey(l) \notin keys
      BY <1>6, <1>7, <2>1, <2>2, <3>1, <3>2, TxnForgets
    <3>3. CASE TxnKey(l) \in keys
      <4>1. ASSUME NEW q \in Pods, NEW t \in Servers, Claims(q, t, l)' PROVE FALSE
        <5>1. q = p
          BY <1>1, <2>1, <2>2, <2>3, <4>1 DEF TxnSafe, EnderClaims, r, p, ended
        <5>2. ~ (sessions'[q][l] # NoSession /\ sessions'[q][l].server = t)
          BY <1>4, <2>3, <5>1, PodsAssumption
        <5>3. \A n \in Mongos : txns'[n][l] = NoServer
          BY <1>5, <1>8, <1>11, <2>3, <3>3 DEF ended
        <5>. QED  BY <1>7, <4>1, <5>2, <5>3, PodsAssumption DEF Claims
      <4>. QED  BY <1>7, <3>1, <4>1 DEF TxnSafe, OneClaim, ClaimIsHome, EnderClaims, SentHome
    <3>. QED  BY <3>2, <3>3
  <2>4. CASE r.kind = "start"
    <3>1. Claims(p, r.server, l)
      BY <1>1, <2>4 DEF Claims, r, p
    <3>2. \A q \in Pods, t \in Servers : Claims(q, t, l)' => q = p /\ t = r.server
      BY <1>p, <1>1, <2>1, <2>2, <3>1 DEF TxnSafe, OneClaim
    <3>3. TxnKey(l) \in group' /\ home[l] \in {NoServer, r.server}
      BY <1>p, <1>1, <1>6, <2>1, <2>4, <3>1 DEF TxnSafe, ClaimIsHome, ended
    <3>4. h \in {NoServer, r.server}
      BY <2>4, <3>3 DEF Executed, r
    <3>5. OneClaim(l)'
      BY <3>2 DEF OneClaim
    <3>6. ClaimIsHome(l)'
      BY <1>7, <3>2, <3>3, <3>4 DEF ClaimIsHome, TxnKey
    <3>. QED  BY <1>7, <3>3, <3>5, <3>6 DEF TxnSafe, EnderClaims, SentHome, TxnKey
  <2>5. CASE r.kind \in {"statement", "end"}
    <3>1. h \in {NoServer, home[l]} /\ ~ ended
      BY <2>5 DEF Executed, r, ended
    <3>. QED  BY <1>6, <1>7, <2>1, <2>2, <3>1, TxnForgets, Zenon
  <2>. QED  BY <1>1, <2>3, <2>4, <2>5 DEF TxnKinds, ended
<1>12. ASSUME NEW k \in Cursors, k \notin lost' PROVE CursorSafe(k)'
  <2>1. k # l
    BY PodsAssumption
  <2>. QED  BY <1>6, <1>7, <1>8, <1>12, <2>1, CursorForgets DEF PodsInv, Things
<1>. QED  BY <1>9, <1>10, <1>11, <1>12 DEF PodsInv

\* A request that fails leaves the caches alone, and the pod that sent a start
\* has its server on record as a pin or has forgotten it.
LEMMA FailStep ==
  ASSUME PodsInv, NEW l \in Lsids, Fail(l)
  PROVE  PodsInv'
<1>. DEFINE r == flight[l]
<1>1. /\ r \in Requests /\ PodOf[r.mongo] \in Pods /\ r.server \in Servers /\ r # NoRequest
      /\ r.kind \in TxnKinds /\ l \in Things
  BY PodsAssumption DEF Fail, PodsInv, TypeOK, Things, Requests, KindsAgree
<1>2. PICK h \in Executed(l) \cup {home[l]} : home' = [home EXCEPT ![l] = h]
  BY Zenon DEF Fail
<1>3. h \in Servers \cup {NoServer}
  BY <1>1 DEF Executed, PodsInv, TypeOK, Things
<1>4. /\ sessions' \in [Pods -> [Lsids -> SessionRecords \cup {NoSession}]]
      /\ PinsAgree'
      /\ \A q \in Pods, m \in Lsids :
           sessions'[q][m] # NoSession =>
             /\ sessions[q][m] # NoSession
             /\ sessions'[q][m].server \in {NoServer, sessions[q][m].server}
  BY DeferredFacts DEF Fail
<1>5. /\ flight'[l] = NoRequest /\ home'[l] = h
      /\ \A x \in Things : x # l => flight'[x] = flight[x] /\ home'[x] = home[x]
      /\ flight' \in [Things -> Requests \cup {NoRequest}]
      /\ home' \in [Things -> Servers \cup {NoServer}]
      /\ UNCHANGED <<using, txns, cursors, group, lost>>
  BY <1>1, <1>2, <1>3 DEF Fail, PodsInv, TypeOK
<1>. HIDE DEF r
<1>6. TypeOK' /\ PinsAgree' /\ KindsAgree'
  BY <1>4, <1>5, Zenon DEF PodsInv, TypeOK, KindsAgree
<1>7. ASSUME NEW m \in Lsids PROVE
        \A q \in Pods, t \in Servers : Claims(q, t, m)' => Claims(q, t, m)
  <2>1. m \in Things /\ flight'[m] \in {NoRequest, flight[m]} /\ txns' = txns
    BY <1>5, <1>7 DEF Things
  <2>2. \A q \in Pods : sessions'[q][m] # NoSession =>
          /\ sessions[q][m] # NoSession
          /\ sessions'[q][m].server \in {NoServer, sessions[q][m].server}
    BY <1>4, <1>7
  <2>. QED  BY ONLY <2>1, <2>2, PodsAssumption DEF Claims
<1>8. ASSUME NEW m \in Lsids, m \notin lost', m # l PROVE TxnSafe(m)'
  BY <1>5, <1>7, <1>8, TxnForgets, Zenon DEF PodsInv, Things
<1>9. ASSUME l \notin lost' PROVE TxnSafe(l)'
  <2>1. TxnSafe(l)
    BY <1>5, <1>9 DEF PodsInv
  <2>2. CASE h \in {NoServer, home[l]}
    BY <1>5, <1>7, <2>1, <2>2, TxnForgets
  <2>3. CASE r.kind = "start" /\ h = r.server
    <3>1. Claims(PodOf[r.mongo], r.server, l)
      BY ONLY <1>1, <2>3 DEF Claims, r
    <3>2. \A q \in Pods, t \in Servers : Claims(q, t, l)' => q = PodOf[r.mongo] /\ t = r.server
      BY <1>1, <1>7, <2>1, <3>1 DEF TxnSafe, OneClaim
    <3>3. TxnKey(l) \in group
      BY <1>1, <2>1, <3>1 DEF TxnSafe, ClaimIsHome
    <3>. QED  BY <1>5, <2>3, <3>2, <3>3 DEF TxnSafe, OneClaim, ClaimIsHome, EnderClaims, SentHome,
                 TxnKey
  <2>. QED  BY <1>1, <1>2, <2>2, <2>3 DEF Executed, r, TxnKinds
<1>10. ASSUME NEW k \in Cursors, k \notin lost' PROVE CursorSafe(k)'
  <2>1. k # l
    BY PodsAssumption
  <2>. QED  BY <1>5, <1>10, <2>1, CursorForgets, Zenon DEF PodsInv, Things
<1>. QED  BY <1>6, <1>8, <1>9, <1>10 DEF PodsInv
-----------------------------------------------------------------------------
(* Cursors *)

\* A step of cursor k is of no account for transactions and other cursors.
LEMMA CursorFrame ==
  ASSUME PodsInv, NEW k \in Cursors,
         UNCHANGED <<sessions, txns>>,
         lost \ {k} = lost' \ {k},
         \A x \in Things : x # k => flight'[x] = flight[x] /\ home'[x] = home[x],
         \A n \in Mongos, c \in Cursors : c # k => cursors'[n][c] = cursors[n][c],
         group \ {CursorKey(k)} = group' \ {CursorKey(k)}
  PROVE  /\ \A l \in Lsids : l \notin lost' => TxnSafe(l)'
         /\ \A c \in Cursors : c # k /\ c \notin lost' => CursorSafe(c)'
<1>1. ASSUME NEW l \in Lsids, l \notin lost' PROVE TxnSafe(l)'
  <2>1. l # k /\ l \in Things /\ l \notin lost
    BY <1>1, PodsAssumption DEF Things
  <2>2. \A q \in Pods, t \in Servers : Claims(q, t, l)' => Claims(q, t, l)
    BY <2>1, Zenon DEF Claims
  <2>3. TxnKey(l) \in group => TxnKey(l) \in group'
    BY Zenon DEF TxnKey, CursorKey
  <2>. QED  BY <2>1, <2>2, <2>3, TxnForgets DEF PodsInv
<1>2. ASSUME NEW c \in Cursors, c # k, c \notin lost' PROVE CursorSafe(c)'
  <2>1. c \in Things /\ c \notin lost
    BY <1>2, Zenon DEF Things
  <2>2. CursorKey(c) \in group => CursorKey(c) \in group'
    BY <1>2 DEF CursorKey
  <2>. QED  BY <1>2, <2>1, <2>2, CursorForgets, Zenon DEF PodsInv
<1>. QED  BY <1>1, <1>2

\* A cursor is opened, and its first server recorded, when nobody remembers
\* its id.
LEMMA OpenStep ==
  ASSUME PodsInv, NEW m \in Mongos, NEW k \in Cursors, NEW up, Open(m, k, up)
  PROVE  PodsInv'
<1>. PICK srv \in Servers : /\ home' = [home EXCEPT ![k] = srv]
                            /\ cursors' = [cursors EXCEPT ![m][k] = srv]
  BY Zenon DEF Open
<1>1. TypeOK' /\ PinsAgree' /\ KindsAgree'
  <2>1. TypeOK'
    <3>1. home' \in [Things -> Servers \cup {NoServer}] /\ lost' \subseteq Things
      BY DEF Open, PodsInv, TypeOK, Things
    <3>2. cursors' \in [Mongos -> [Cursors -> Servers \cup {NoServer}]]
      BY DEF PodsInv, TypeOK
    <3>3. group' \subseteq Keys
      BY Zenon DEF Open, StoreCursor, Keys, PodsInv, TypeOK
    <3>. QED  BY <3>1, <3>2, <3>3 DEF Open, PodsInv, TypeOK
  <2>2. PinsAgree' /\ KindsAgree'
    BY DEF Open, PodsInv, PinsAgree, KindsAgree
  <2>. QED  BY <2>1, <2>2
<1>2. /\ \A l \in Lsids : l \notin lost' => TxnSafe(l)'
      /\ \A c \in Cursors : c # k /\ c \notin lost' => CursorSafe(c)'
  <2>1. /\ lost \ {k} = lost' \ {k}
        /\ group \ {CursorKey(k)} = group' \ {CursorKey(k)}
    BY DEF Open, StoreCursor
  <2>2. /\ UNCHANGED <<sessions, txns>>
        /\ \A x \in Things : x # k => flight'[x] = flight[x] /\ home'[x] = home[x]
        /\ \A n \in Mongos, c \in Cursors : c # k => cursors'[n][c] = cursors[n][c]
    BY DEF Open, PodsInv, TypeOK
  <2>. QED  BY <2>1, <2>2, CursorFrame
<1>3. ASSUME k \notin lost' PROVE CursorSafe(k)'
  <2>1. CursorKey(k) \in group'
    BY <1>3 DEF Open, StoreCursor
  <2>2. /\ home'[k] = srv /\ flight'[k] = NoRequest
        /\ \A n \in Mongos : cursors'[n][k] \in {srv, NoServer}
    BY DEF Open, PodsInv, TypeOK, Things
  <2>. QED  BY <2>1, <2>2 DEF CursorSafe, SentHome, CursorKey
<1>. QED  BY <1>1, <1>2, <1>3 DEF PodsInv

\* A getMore goes to the server on record, or the missing entry tells that
\* the cursor is closed.
LEMMA GetMoreStep ==
  ASSUME PodsInv, NEW m \in Mongos, NEW k \in Cursors, NEW up, GetMore(m, k, up)
  PROVE  PodsInv'
<1>. PICK srv \in SelectForCursor(m, k, up) :
       flight' = [flight EXCEPT ![k] = [mongo |-> m, kind |-> "getMore", server |-> srv]]
  BY Zenon DEF GetMore
<1>1. srv \in Servers
  BY DEF SelectForCursor, PodsInv, TypeOK
<1>2. TypeOK' /\ PinsAgree' /\ KindsAgree'
  <2>1. TypeOK'
    <3>1. [mongo |-> m, kind |-> "getMore", server |-> srv] \in Requests
      BY <1>1 DEF Requests, CursorKinds
    <3>2. flight' \in [Things -> Requests \cup {NoRequest}]
      BY <3>1 DEF PodsInv, TypeOK
    <3>. QED  BY <3>2 DEF GetMore, PodsInv, TypeOK, Things
  <2>2. PinsAgree' /\ KindsAgree'
    BY DEF GetMore, PodsInv, TypeOK, PinsAgree, KindsAgree, CursorKinds
  <2>. QED  BY <2>1, <2>2
<1>3. /\ \A l \in Lsids : l \notin lost' => TxnSafe(l)'
      /\ \A c \in Cursors : c # k /\ c \notin lost' => CursorSafe(c)'
  <2>1. lost \ {k} = lost' \ {k}
    BY DEF GetMore
  <2>2. /\ UNCHANGED <<sessions, txns, cursors, group>>
        /\ \A x \in Things : x # k => flight'[x] = flight[x] /\ home'[x] = home[x]
    BY DEF GetMore, PodsInv, TypeOK
  <2>. QED  BY <2>1, <2>2, CursorFrame, Zenon
<1>4. ASSUME k \notin lost' PROVE CursorSafe(k)'
  <2>1. k \notin lost /\ ~ BlindCursor(m, k, up)
    BY <1>4 DEF GetMore
  <2>2. CursorSafe(k)
    BY <2>1 DEF PodsInv
  <2>3. home[k] \in {NoServer, srv}
    BY <2>1, <2>2 DEF SelectForCursor, GetCursor, BlindCursor, CursorSafe
  <2>4. /\ flight'[k].server = srv
        /\ UNCHANGED <<cursors, group, home>>
    BY DEF GetMore, PodsInv, TypeOK, Things
  <2>. QED  BY <2>2, <2>3, <2>4, Zenon DEF CursorSafe, SentHome, CursorKey
<1>. QED  BY <1>2, <1>3, <1>4 DEF PodsInv

\* A killCursors may go anywhere and changes no record.
LEMMA KillCursorsStep ==
  ASSUME PodsInv, NEW m \in Mongos, NEW k \in Cursors, KillCursors(m, k)
  PROVE  PodsInv'
<1>. PICK srv \in Servers :
       flight' = [flight EXCEPT ![k] = [mongo |-> m, kind |-> "killCursors", server |-> srv]]
  BY Zenon DEF KillCursors
<1>1. TypeOK' /\ PinsAgree' /\ KindsAgree'
  <2>1. TypeOK'
    <3>1. [mongo |-> m, kind |-> "killCursors", server |-> srv] \in Requests
      BY DEF Requests, CursorKinds
    <3>2. flight' \in [Things -> Requests \cup {NoRequest}]
      BY <3>1 DEF PodsInv, TypeOK
    <3>. QED  BY <3>2 DEF KillCursors, PodsInv, TypeOK, Things
  <2>2. PinsAgree' /\ KindsAgree'
    BY DEF KillCursors, PodsInv, TypeOK, PinsAgree, KindsAgree, CursorKinds
  <2>. QED  BY <2>1, <2>2
<1>2. /\ \A l \in Lsids : l \notin lost' => TxnSafe(l)'
      /\ \A c \in Cursors : c # k /\ c \notin lost' => CursorSafe(c)'
  <2>1. /\ UNCHANGED <<sessions, txns, cursors, group, lost>>
        /\ \A x \in Things : x # k => flight'[x] = flight[x] /\ home'[x] = home[x]
    BY DEF KillCursors, PodsInv, TypeOK
  <2>. QED  BY <2>1, CursorFrame, Zenon
<1>3. ASSUME k \notin lost' PROVE CursorSafe(k)'
  <2>1. flight'[k].kind = "killCursors" /\ UNCHANGED <<cursors, group, home, lost>>
    BY DEF KillCursors, PodsInv, TypeOK, Things
  <2>2. CursorSafe(k)
    BY <1>3, <2>1 DEF PodsInv
  <2>. QED  BY <2>1, <2>2, Zenon DEF CursorSafe, SentHome, CursorKey
<1>. QED  BY <1>1, <1>2, <1>3 DEF PodsInv

\* The reply of a getMore refreshes the record of an open cursor, or drops it
\* with the cursor; a lost reply changes no record.
LEMMA MoreStep ==
  ASSUME PodsInv, NEW k \in Cursors, NoMore(k) \/ \E up : More(k, up)
  PROVE  PodsInv'
<1>. DEFINE r == flight[k]
<1>1. /\ r \in Requests /\ r.mongo \in Mongos /\ r.server \in Servers /\ r # NoRequest
      /\ r.kind \in CursorKinds /\ k \in Things
  BY Zenon DEF NoMore, More, PodsInv, TypeOK, Things, Requests, KindsAgree
<1>2. /\ UNCHANGED <<using, sessions, txns, lost>>
      /\ flight' = [flight EXCEPT ![k] = NoRequest]
  BY DEF NoMore, More
<1>3. /\ home' \in [Things -> Servers \cup {NoServer}] /\ home'[k] \in {NoServer, home[k]}
      /\ \A x \in Things : x # k => home'[x] = home[x]
  <2>1. home' = home \/ home' = [home EXCEPT ![k] = NoServer]
    <3>1. CASE NoMore(k)
      <4>. PICK h \in Executed(k) : home' = [home EXCEPT ![k] = h]
        BY <3>1, Zenon DEF NoMore
      <4>1. h \in {home[k], NoServer}
        BY <1>1 DEF Executed, CursorKinds
      <4>. QED  BY <4>1, Zenon DEF PodsInv, TypeOK
    <3>2. CASE \E up : More(k, up)
      BY <3>2, Zenon DEF More
    <3>. QED  BY <3>1, <3>2
  <2>. QED  BY <1>1, <2>1, Zenon DEF PodsInv, TypeOK
<1>4. /\ cursors' \in [Mongos -> [Cursors -> Servers \cup {NoServer}]]
      /\ \A n \in Mongos, c \in Cursors : c # k => cursors'[n][c] = cursors[n][c]
      /\ \A n \in Mongos : \/ cursors'[n][k] \in {NoServer, cursors[n][k]}
                          \/ cursors'[n][k] = home'[k]
  <2>1. \/ cursors' = cursors
        \/ cursors' = [cursors EXCEPT ![r.mongo][k] = NoServer]
        \/ /\ cursors' = [cursors EXCEPT ![r.mongo][k] = r.server]
           /\ home'[k] = r.server
    BY Zenon DEF NoMore, More
  <2>2. r.mongo \in Mongos /\ r.server \in Servers
    BY <1>1
  <2>3. cursors \in [Mongos -> [Cursors -> Servers \cup {NoServer}]]
    BY DEF PodsInv, TypeOK
  <2>. HIDE DEF r
  <2>4. CASE cursors' = cursors
    BY <2>3, <2>4
  <2>5. CASE cursors' = [cursors EXCEPT ![r.mongo][k] = NoServer]
    BY <2>2, <2>3, <2>5
  <2>6. CASE cursors' = [cursors EXCEPT ![r.mongo][k] = r.server] /\ home'[k] = r.server
    BY <2>2, <2>3, <2>6, Zenon
  <2>. QED  BY <2>1, <2>4, <2>5, <2>6, Zenon
<1>5. /\ group \ {CursorKey(k)} = group' \ {CursorKey(k)}
      /\ CursorKey(k) \in group /\ home'[k] # NoServer => CursorKey(k) \in group'
  BY <1>1, Zenon DEF NoMore, More, StoreCursor, RemoveCursor, PodsInv, TypeOK
<1>. HIDE DEF r
<1>6. TypeOK' /\ PinsAgree' /\ KindsAgree'
  <2>1. group' \subseteq Keys
    BY <1>5 DEF PodsInv, TypeOK, Keys
  <2>2. flight' \in [Things -> Requests \cup {NoRequest}]
    BY <1>2, Zenon DEF PodsInv, TypeOK
  <2>3. PinsAgree' /\ KindsAgree'
    BY <1>2, Zenon DEF PodsInv, TypeOK, PinsAgree, KindsAgree
  <2>. QED  BY <1>2, <1>3, <1>4, <2>1, <2>2, <2>3 DEF PodsInv, TypeOK
<1>7. /\ \A l \in Lsids : l \notin lost' => TxnSafe(l)'
      /\ \A c \in Cursors : c # k /\ c \notin lost' => CursorSafe(c)'
  <2>1. \A x \in Things : x # k => flight'[x] = flight[x]
    BY <1>2 DEF PodsInv, TypeOK
  <2>. QED  BY <1>2, <1>3, <1>4, <1>5, <2>1, CursorFrame, Zenon
<1>8. ASSUME k \notin lost' PROVE CursorSafe(k)'
  <2>1. CursorSafe(k)
    BY <1>2, <1>8 DEF PodsInv
  <2>2. flight'[k] = NoRequest
    BY <1>1, <1>2 DEF PodsInv, TypeOK
  <2>3. \A n \in Mongos : cursors'[n][k] # NoServer => home'[k] \in {NoServer, cursors'[n][k]}
    BY <1>3, <1>4, <2>1, Zenon DEF CursorSafe
  <2>. QED  BY <1>3, <1>5, <2>1, <2>2, <2>3, Zenon DEF CursorSafe, SentHome, CursorKey
<1>. QED  BY <1>6, <1>7, <1>8 DEF PodsInv

-----------------------------------------------------------------------------
(* Restarts *)

\* A pod that restarts forgets all it had on record; a start of its that is
\* still executed has its entry, unless that was lost.
LEMMA RestartStep ==
  ASSUME PodsInv, NEW p \in Pods, NEW owned, Restart(p, owned)
  PROVE  PodsInv'
<1>. DEFINE dropped == {x \in Things : flight[x] # NoRequest /\ PodOf[flight[x].mongo] = p}
<1>1. /\ \A q \in Pods, l \in Lsids :
           sessions'[q][l] = IF q = p THEN NoSession ELSE sessions[q][l]
      /\ \A n \in Mongos, l \in Lsids :
           txns'[n][l] = IF PodOf[n] = p THEN NoServer ELSE txns[n][l]
      /\ \A n \in Mongos, k \in Cursors :
           cursors'[n][k] = IF PodOf[n] = p THEN NoServer ELSE cursors[n][k]
      /\ \A x \in Things :
           /\ flight'[x] = IF x \in dropped THEN NoRequest ELSE flight[x]
           /\ home'[x] \in (IF x \in dropped THEN Executed(x) ELSE {}) \cup {home[x]}
  BY Zenon DEF Restart, PodsInv, TypeOK
<1>2. TypeOK' /\ PinsAgree' /\ KindsAgree'
  <2>1. TypeOK'
    BY Zenon DEF Restart, Entries, PodsInv, TypeOK, Things
  <2>2. PinsAgree'
    <3>1. PinsAgree  BY Zenon DEF PodsInv
    <3>2. \A q \in Pods, l \in Lsids : sessions'[q][l] \in {NoSession, sessions[q][l]}
      BY ONLY <1>1
    <3>. QED  BY ONLY <3>1, <3>2 DEF PinsAgree
  <2>3. KindsAgree'
    <3>1. KindsAgree  BY Zenon DEF PodsInv
    <3>2. \A x \in Things : flight'[x] \in {NoRequest, flight[x]}
      BY ONLY <1>1
    <3>. QED  BY ONLY <3>1, <3>2 DEF KindsAgree
  <2>. QED  BY <2>1, <2>2, <2>3
<1>3. ASSUME NEW l \in Lsids, l \notin lost' PROVE TxnSafe(l)'
  <2>1. l \in Things /\ l \notin lost /\ (TxnKey(l) \in group => TxnKey(l) \in group')
    BY <1>3, Zenon DEF Restart, Entries, Things
  <2>2. TxnSafe(l)
    BY <2>1 DEF PodsInv
  <2>3. \A q \in Pods, t \in Servers : Claims(q, t, l)' => Claims(q, t, l) /\ q # p
    <3>. SUFFICES ASSUME NEW q \in Pods, NEW t \in Servers, Claims(q, t, l)'
                  PROVE  Claims(q, t, l) /\ q # p
      OBVIOUS
    <3>1. t # NoServer
      BY PodsAssumption
    <3>2. CASE \E n \in Mongos : PodOf[n] = q /\ txns'[n][l] = t
      <4>1. PICK n \in Mongos : PodOf[n] = q /\ txns'[n][l] = t
        BY <3>2
      <4>2. PodOf[n] # p /\ txns[n][l] = t
        BY ONLY <1>1, <3>1, <4>1, l \in Lsids
      <4>. QED  BY ONLY <4>1, <4>2 DEF Claims
    <3>3. CASE sessions'[q][l] # NoSession /\ sessions'[q][l].server = t
      BY ONLY <1>1, <3>3, q \in Pods, l \in Lsids DEF Claims
    <3>4. CASE flight'[l] # NoRequest /\ flight'[l].kind = "start"
                /\ PodOf[flight'[l].mongo] = q /\ flight'[l].server = t
      BY ONLY <1>1, <2>1, <3>4, Zenon DEF Claims
    <3>. QED  BY <3>2, <3>3, <3>4, Zenon DEF Claims
  <2>4. CASE home'[l] \in {NoServer, home[l]}
    BY <1>1, <2>1, <2>2, <2>3, <2>4, TxnForgets, Zenon
  <2>5. CASE l \in dropped /\ flight[l].kind = "start" /\ home'[l] = flight[l].server
    <3>1. Claims(p, flight[l].server, l) /\ flight[l].server \in Servers
      BY <2>1, <2>5, Zenon DEF Claims, PodsInv, TypeOK, Requests
    <3>2. \A q \in Pods, t \in Servers : ~ Claims(q, t, l)'
      BY <2>2, <2>3, <3>1, Zenon DEF TxnSafe, OneClaim
    <3>3. TxnKey(l) \in group'
      BY <2>1, <2>2, <3>1, Zenon DEF TxnSafe, ClaimIsHome
    <3>4. flight'[l] = NoRequest
      BY <1>1, <2>1, <2>5, Zenon
    <3>. QED  BY <3>2, <3>3, <3>4, Zenon
              DEF TxnSafe, OneClaim, ClaimIsHome, EnderClaims, SentHome, TxnKey
  <2>. QED  BY <1>1, <2>1, <2>4, <2>5 DEF Executed
<1>4. ASSUME NEW k \in Cursors, k \notin lost' PROVE CursorSafe(k)'
  <2>1. k \in Things /\ k \notin lost /\ (CursorKey(k) \in group => CursorKey(k) \in group')
    BY <1>4, Zenon DEF Restart, Entries, Things
  <2>2. flight[k] # NoRequest => flight[k].kind \in CursorKinds
    BY <2>1 DEF PodsInv, KindsAgree
  <2>3. home'[k] \in {NoServer, home[k]}
    BY <1>1, <2>1, <2>2 DEF Executed, CursorKinds
  <2>4. \A n \in Mongos : cursors'[n][k] \in {NoServer, cursors[n][k]}
    BY <1>1
  <2>5. flight'[k] \in {NoRequest, flight[k]}
    BY <1>1, <2>1
  <2>. QED  BY <2>1, <2>3, <2>4, <2>5, CursorForgets DEF PodsInv
<1>. QED  BY <1>2, <1>3, <1>4 DEF PodsInv

-----------------------------------------------------------------------------

\* The inductive invariant of the pods: at most one of them has a server on
\* record for a session, it is the right one, and the entry in the
\* distributed cache warns the clients of the others that see it.
THEOREM PodsInvariance == Spec => []PodsInv
<1>1. PodsInv /\ [Next]_vars => PodsInv'
  <2>. SUFFICES ASSUME PodsInv, [Next]_vars PROVE PodsInv'
    OBVIOUS
  <2>1. CASE UNCHANGED vars
    <3>1. TypeOK' /\ PinsAgree' /\ KindsAgree'
      BY <2>1, Zenon DEF vars, PodsInv, TypeOK, PinsAgree, KindsAgree
    <3>2. ASSUME NEW l \in Lsids, l \notin lost' PROVE TxnSafe(l)'
      BY <2>1, <3>2, TxnForgets, Zenon DEF vars, PodsInv, Claims
    <3>3. ASSUME NEW k \in Cursors, k \notin lost' PROVE CursorSafe(k)'
      BY <2>1, <3>3, CursorForgets, Zenon DEF vars, PodsInv
    <3>. QED  BY <3>1, <3>2, <3>3 DEF PodsInv
  <2>2. CASE Next
    BY <2>2, RefuseStep, SendStep, ReplyStep, FailStep, OpenStep, GetMoreStep,
       KillCursorsStep, MoreStep, ServerEndsStep, ExpireStep, RestartStep, Zenon DEF Next
  <2>. QED  BY <2>1, <2>2
<1>. QED  BY InitPods, <1>1, PTL DEF Spec

\* Every pod's session is a record of that type, every request is to a server,
\* and what expires, is cleaned up or restarts leaves it so.
THEOREM TypeCorrect == Spec => []TypeOK
<1>1. PodsInv => TypeOK
  BY Zenon DEF PodsInv
<1> QED BY PodsInvariance, <1>1, PTL

\* No request of a transaction and no getMore goes to another server than the
\* one that has the transaction or cursor open, unless its entry in the
\* distributed cache was lost, a client that has no record did not see it (one
\* made after start-up never does), or the transaction was ended through
\* another client than the one that has it on record: with any number of
\* pods, of Mongo clients of either kind, of sessions, cursors and servers.
THEOREM RequestsGoHome == Spec => []SentWhereOpened
<1>1. PodsInv => SentWhereOpened
  BY Zenon DEF PodsInv, SentWhereOpened, TxnSafe, CursorSafe, SentHome, Things
<1>. QED  BY <1>1, PodsInvariance, PTL
=============================================================================

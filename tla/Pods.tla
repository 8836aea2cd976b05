-------------------------------- MODULE Pods --------------------------------
(***************************************************************************)
(* Several mongobouncer pods behind a load balancer that share sessions,   *)
(* transactions and cursors through mongo/distributed_cache.go, a          *)
(* groupcache whose entries live on one of the pods.  An entry says that a *)
(* session, a transaction or a cursor exists; the server and connection it *)
(* is pinned to cannot be serialised, so only the pod that opened it knows *)
(* them.  What one request does inside a pod is module RoundTrip; here a   *)
(* request is two steps, until its message is sent and from the reply on,  *)
(* and anything may happen in between: a pod restarts, a session is        *)
(* cleaned up, entries expire or cannot be reached.  A driver has one      *)
(* request of a session or cursor in flight at a time.                     *)
(*                                                                         *)
(* A pod has one session manager and several Mongo clients: one for each   *)
(* route, and one for each user of a route with credentials of their own.  *)
(* Each has transaction and cursor caches of its own.  Those of a client   *)
(* made at start-up look up and store the shared entries as well; those of *)
(* a client made later, for the first request of a route that could not be *)
(* connected, after a connection error, or for a user's credentials, are   *)
(* given no distributed cache.  A client that replaces another starts with *)
(* empty caches, like one whose records have all expired.                  *)
(***************************************************************************)
EXTENDS SessionManager

CONSTANTS Pods, Servers, Lsids, Cursors,
          Mongos,      \* the Mongo clients of all pods
          PodOf,       \* Mongo client -> its pod
          Lazy,        \* the Mongo clients made without the distributed cache
          Sticky,      \* the Mongo client of the database and pod a client stays with
          Workloads,   \* the sets of sessions and cursors clients may use
          NoSession, NoRequest

\* What a server has open: a transaction of a session, or a cursor
Things == Lsids \cup Cursors

VARIABLES using,     \* the sessions and cursors that clients use
          sessions,  \* pod -> lsid -> *Session in SessionManager.sessions
          txns,      \* Mongo client -> lsid -> server, Mongo.transactions
          cursors,   \* Mongo client -> cursor -> server, Mongo.cursors
          group,     \* the keys of the entries that groupcache holds
          flight,    \* thing -> the request that has been sent for it
          home,      \* thing -> the server that has it open
          lost       \* history: the things whose entry was lost or not seen when needed

vars == <<using, sessions, txns, cursors, group, flight, home, lost>>

SessionKey(l) == <<"session", l>>
TxnKey(l) == <<"txn", l>>
CursorKey(k) == <<"cursor", k>>

Keys == {SessionKey(l) : l \in Lsids} \cup {TxnKey(l) : l \in Lsids}
          \cup {CursorKey(k) : k \in Cursors}

TxnKinds == {"start", "statement", "commit", "abort", "end"}

CursorKinds == {"getMore", "killCursors"}

Requests == [mongo : Mongos, kind : TxnKinds \cup CursorKinds, server : Servers]

\* A connection is named after its server
SessionRecords == [lsid : Lsids, state : {"active"}, txn : TransactionStates,
                   server : Servers \cup {NoServer}, conn : Servers \cup {NoConn}]

ASSUME PodsAssumption ==
  /\ Lsids \cap Cursors = {}
  /\ PodOf \in [Mongos -> Pods]
  /\ Lazy \subseteq Mongos
  /\ Sticky \in Mongos
  /\ Workloads \subseteq SUBSET Things
  /\ NoServer \notin Servers /\ NoConn \notin Servers
  /\ NoSession \notin SessionRecords /\ NoRequest \notin Requests

TypeOK ==
  /\ using \in Workloads
  /\ sessions \in [Pods -> [Lsids -> SessionRecords \cup {NoSession}]]
  /\ txns \in [Mongos -> [Lsids -> Servers \cup {NoServer}]]
  /\ cursors \in [Mongos -> [Cursors -> Servers \cup {NoServer}]]
  /\ group \subseteq Keys
  /\ flight \in [Things -> Requests \cup {NoRequest}]
  /\ home \in [Things -> Servers \cup {NoServer}]
  /\ lost \subseteq Things

Init ==
  /\ using \in Workloads
  /\ sessions = [p \in Pods |-> [l \in Lsids |-> NoSession]]
  /\ txns = [m \in Mongos |-> [l \in Lsids |-> NoServer]]
  /\ cursors = [m \in Mongos |-> [k \in Cursors |-> NoServer]]
  /\ group = {}
  /\ flight = [x \in Things |-> NoRequest]
  /\ home = [x \in Things |-> NoServer]
  /\ lost = {}

-----------------------------------------------------------------------------
(* The distributed cache.  up: the keys whose owner the pod reaches now. *)

\* The keys that a Mongo client's own caches can look up and store
Reach(m, up) == IF m \in Lazy THEN {} ELSE up

\* StoreSession: only StartTransaction calls it, so the entry always says
\* that a transaction is in progress
StoreSession(g, l, up) == g \cup ({SessionKey(l)} \cap up)

RemoveSession(g, l, up) == g \ ({SessionKey(l)} \cap up)

StoreTransaction(g, l, up) == g \cup ({TxnKey(l)} \cap up)

RemoveTransaction(g, l, up) == g \ ({TxnKey(l)} \cap up)

StoreCursor(g, k, up) == g \cup ({CursorKey(k)} \cap up)

RemoveCursor(g, k, up) == g \ ({CursorKey(k)} \cap up)

\* What the entry of a session is turned into: its pins are not restored
Copy(l) == UnpinTransaction(StartTransaction(NewSession(l), NoServer, NoConn))

\* SessionManager.GetSession, then the session RoundTrip creates
GetSession(p, l, up) ==
  IF sessions[p][l] # NoSession THEN sessions[p][l]
  ELSE IF SessionKey(l) \in group \cap up THEN Copy(l)
  ELSE NewSession(l)

\* GetTransaction and GetCursor find an entry but never its server
GetTransaction(l, up) == TxnKey(l) \in group \cap up
GetCursor(k, up) == CursorKey(k) \in group \cap up

MutSelectForTxn(m, l, up) ==
  IF txns[m][l] # NoServer THEN {txns[m][l]}
  ELSE IF GetTransaction(l, Reach(m, up)) THEN {NoServer}
  ELSE Servers

\* The servers selectServer may return; none if an entry was found that has
\* no server, which RoundTrip answers with an error
SelectForTxn(m, l, up) ==
  IF txns[m][l] # NoServer THEN {txns[m][l]}
  ELSE IF GetTransaction(l, Reach(m, up)) THEN {}
  ELSE Servers

MutSelectForCursor(m, k, up) ==
  IF cursors[m][k] # NoServer THEN {cursors[m][k]} ELSE Servers

SelectForCursor(m, k, up) ==
  IF cursors[m][k] # NoServer THEN {cursors[m][k]}
  ELSE IF GetCursor(k, Reach(m, up)) THEN {}
  ELSE Servers

\* A client that has no record and does not see whether there is an entry
BlindTxn(s, m, l, up) ==
  ~ HasPinnedServer(s) /\ txns[m][l] = NoServer /\ TxnKey(l) \notin Reach(m, up)

BlindCursor(m, k, up) == cursors[m][k] = NoServer /\ CursorKey(k) \notin Reach(m, up)

-----------------------------------------------------------------------------
(* A request of a transaction, until its message is sent *)

ServersFor(s, m, l, up) ==
  IF HasPinnedServer(s) THEN {s.server} ELSE SelectForTxn(m, l, up)

Accepted(s, kind) ==
  CASE kind = "start" -> CanStartTransaction(s)
    [] kind \in {"commit", "abort"} -> CanEndTransaction(s)
    [] OTHER -> TRUE

\* The connection's server: the pinned connection, or one of the server's
Destination(s, srv) == IF HasPinnedConnection(s) THEN s.conn ELSE srv

\* No cache, no session and no server has anything of the session
Forgotten(l) ==
  /\ home[l] = NoServer
  /\ \A m \in Mongos : txns[m][l] = NoServer
  /\ \A p \in Pods : sessions[p][l] = NoSession \/ sessions[p][l].server = NoServer

\* An error is returned: there is no server, or the session refuses
Refuse(m, l, kind, up) ==
  LET s == GetSession(PodOf[m], l, up) IN
  /\ l \in using /\ flight[l] = NoRequest
  /\ ServersFor(s, m, l, up) = {} \/ ~ Accepted(s, kind)
  /\ sessions' = [sessions EXCEPT ![PodOf[m]][l] = s]
  /\ UNCHANGED <<using, txns, cursors, group, flight, home, lost>>

\* The session manager has the distributed cache whichever client it is
\* called by, so that StartTransaction stores the entries
Send(m, l, kind, up) ==
  LET p == PodOf[m]
      s == GetSession(p, l, up)
      afresh == kind = "start" /\ Forgotten(l)
  IN
  /\ l \in using /\ flight[l] = NoRequest
  /\ Accepted(s, kind)
  /\ \E srv \in ServersFor(s, m, l, up) :
       LET to == Destination(s, srv) IN
       /\ flight' = [flight EXCEPT ![l] =
                       [mongo |-> m, kind |-> kind, server |-> to]]
       /\ sessions' = [sessions EXCEPT ![p][l] =
            CASE kind = "start" -> StartTransaction(s, srv, to)
              [] kind = "commit" -> CommitTransaction(s)
              [] kind = "abort" -> AbortTransaction(s)
              [] kind = "end" -> NoSession
              [] OTHER -> s]
  /\ group' = CASE kind = "start" -> StoreSession(StoreTransaction(group, l, up), l, up)
                [] kind = "end" -> RemoveSession(group, l, up)
                [] OTHER -> group
  /\ lost' = (IF afresh THEN lost \ {l} ELSE lost) \cup
               (IF \/ kind = "start" /\ TxnKey(l) \notin up
                   \/ BlindTxn(s, m, l, up) /\ ~ afresh
                THEN {l} ELSE {})
  /\ UNCHANGED <<using, txns, cursors, home>>

-----------------------------------------------------------------------------
(* The servers *)

\* Where x is open once its request was executed.  A start may fail at the
\* server; a commit, an abort or endSessions leaves no transaction; a getMore
\* may return the last batch, and a killCursors closes the cursor if the server
\* has it.
Executed(x) ==
  LET r == flight[x] IN
  CASE r.kind = "start" -> {home[x], r.server}
    [] r.kind \in {"commit", "abort", "end"} -> {IF home[x] = r.server THEN NoServer ELSE home[x]}
    [] r.kind \in CursorKinds /\ home[x] = r.server -> {home[x], NoServer}
    [] OTHER -> {home[x]}

\* A server ends a transaction or a cursor that is idle for too long
ServerEnds(x) ==
  /\ home[x] # NoServer /\ flight[x] = NoRequest
  /\ home' = [home EXCEPT ![x] = NoServer]
  /\ UNCHANGED <<using, sessions, txns, cursors, group, flight, lost>>

-----------------------------------------------------------------------------
(* From the reply on *)

MutDeferred(l) ==
  LET r == flight[l]
      p == PodOf[r.mongo]
  IN
  IF r.kind \in {"commit", "abort"} /\ sessions[p][l] # NoSession
  THEN [sessions EXCEPT ![p][l] = UnpinTransaction(@)]
  ELSE sessions

\* The deferred calls of RoundTrip: the connection is closed and, after a
\* commit or an abort, the session reset
Deferred(l) ==
  LET r == flight[l]
      p == PodOf[r.mongo]
  IN
  IF r.kind \in {"commit", "abort"} /\ sessions[p][l] # NoSession
  THEN [sessions EXCEPT ![p][l] = ResetTransactionState(@)]
  ELSE sessions

\* transactions.add or transactions.remove of the client that sent the
\* request, and the deferred calls.  A record that another client has of an
\* ended transaction stays behind when the entry goes.
Reply(l, up) ==
  LET r == flight[l]
      ended == r.kind \in {"commit", "abort"}
      keys == Reach(r.mongo, up)
  IN
  /\ r # NoRequest
  /\ \E h \in Executed(l) : home' = [home EXCEPT ![l] = h]
  /\ sessions' = Deferred(l)
  /\ txns' = CASE r.kind = "start" -> [txns EXCEPT ![r.mongo][l] = r.server]
               [] ended -> [txns EXCEPT ![r.mongo][l] = NoServer]
               [] OTHER -> txns
  /\ group' = CASE r.kind = "start" -> StoreTransaction(group, l, keys)
                [] ended -> RemoveTransaction(group, l, keys)
                [] OTHER -> group
  /\ flight' = [flight EXCEPT ![l] = NoRequest]
  /\ lost' = IF /\ ended /\ TxnKey(l) \in keys
                /\ \E m \in Mongos \ {r.mongo} : txns[m][l] # NoServer
             THEN lost \cup {l} ELSE lost
  /\ UNCHANGED <<using, cursors>>

\* A network error or a timeout: RoundTrip returns before the caches change,
\* whether or not the server executed the request
Fail(l) ==
  /\ flight[l] # NoRequest
  /\ \E h \in Executed(l) \cup {home[l]} : home' = [home EXCEPT ![l] = h]
  /\ sessions' = Deferred(l)
  /\ flight' = [flight EXCEPT ![l] = NoRequest]
  /\ UNCHANGED <<using, txns, cursors, group, lost>>

-----------------------------------------------------------------------------
(* Cursors outside transactions *)

\* A find whose reply opens a cursor, with an id that nobody remembers
Open(m, k, up) ==
  /\ k \in using /\ home[k] = NoServer /\ flight[k] = NoRequest /\ CursorKey(k) \notin group
  /\ \A n \in Mongos : cursors[n][k] = NoServer
  /\ \E srv \in Servers :
       /\ home' = [home EXCEPT ![k] = srv]
       /\ cursors' = [cursors EXCEPT ![m][k] = srv]
  /\ group' = StoreCursor(group, k, Reach(m, up))
  /\ lost' = (lost \ {k}) \cup (IF CursorKey(k) \in Reach(m, up) THEN {} ELSE {k})
  /\ UNCHANGED <<using, sessions, txns, flight>>

\* A getMore that finds an entry without a server is refused and changes
\* nothing; any other is sent
GetMore(m, k, up) ==
  /\ k \in using /\ flight[k] = NoRequest
  /\ \E srv \in SelectForCursor(m, k, up) :
       flight' = [flight EXCEPT ![k] =
                    [mongo |-> m, kind |-> "getMore", server |-> srv]]
  /\ lost' = lost \cup (IF BlindCursor(m, k, up) THEN {k} ELSE {})
  /\ UNCHANGED <<using, sessions, txns, cursors, group, home>>

\* CursorID finds none in a killCursors, so that selectServer looks up no
\* record and any server may be chosen
KillCursors(m, k) ==
  /\ k \in using /\ flight[k] = NoRequest
  /\ \E srv \in Servers :
       flight' = [flight EXCEPT ![k] =
                    [mongo |-> m, kind |-> "killCursors", server |-> srv]]
  /\ UNCHANGED <<using, sessions, txns, cursors, group, home, lost>>

\* The reply of a server that has the cursor has its id, or 0 with the last
\* batch; any other reply is an error, has no cursor and changes no cache
More(k, up) ==
  LET r == flight[k]
      keys == Reach(r.mongo, up)
  IN
  /\ r # NoRequest /\ r.kind = "getMore"
  /\ \/ /\ home[k] # r.server
        /\ UNCHANGED <<cursors, group, home>>
     \/ /\ home[k] = r.server
        /\ cursors' = [cursors EXCEPT ![r.mongo][k] = r.server]
        /\ group' = StoreCursor(group, k, keys)
        /\ UNCHANGED home
     \/ /\ home[k] = r.server
        /\ home' = [home EXCEPT ![k] = NoServer]
        /\ cursors' = [cursors EXCEPT ![r.mongo][k] = NoServer]
        /\ group' = RemoveCursor(group, k, keys)
  /\ flight' = [flight EXCEPT ![k] = NoRequest]
  /\ UNCHANGED <<using, sessions, txns, lost>>

\* A getMore whose reply is lost, or a killCursors: neither its request nor
\* its reply names a cursor, so that no cache changes
NoMore(k) ==
  /\ flight[k] # NoRequest
  /\ \E h \in Executed(k) : home' = [home EXCEPT ![k] = h]
  /\ flight' = [flight EXCEPT ![k] = NoRequest]
  /\ UNCHANGED <<using, sessions, txns, cursors, group, lost>>

-----------------------------------------------------------------------------
(* Time and faults *)

\* The things whose entries are among the keys
Entries(keys) == {l \in Lsids : TxnKey(l) \in keys} \cup {k \in Cursors : CursorKey(k) \in keys}

\* An entry of the group expires, is evicted or goes with its pod
Expire(key) ==
  /\ key \in group
  /\ group' = group \ {key}
  /\ lost' = lost \cup Entries({key})
  /\ UNCHANGED <<using, sessions, txns, cursors, flight, home>>

\* A record of a client's own caches expires, or goes with the client
ExpireTxn(m, l) ==
  /\ txns[m][l] # NoServer
  /\ txns' = [txns EXCEPT ![m][l] = NoServer]
  /\ UNCHANGED <<using, sessions, cursors, group, flight, home, lost>>

ExpireCursor(m, k) ==
  /\ cursors[m][k] # NoServer
  /\ cursors' = [cursors EXCEPT ![m][k] = NoServer]
  /\ UNCHANGED <<using, sessions, txns, group, flight, home, lost>>

CleanupInactiveSessions(p, L) ==
  /\ \A l \in L : sessions[p][l] # NoSession
  /\ sessions' = [sessions EXCEPT ![p] = [l \in Lsids |-> IF l \in L THEN NoSession ELSE @[l]]]
  /\ UNCHANGED <<using, txns, cursors, group, flight, home, lost>>

\* The pod's memory is gone, with the entries it owns and its requests, of
\* which the servers execute some
Restart(p, owned) ==
  LET dropped == {x \in Things : flight[x] # NoRequest /\ PodOf[flight[x].mongo] = p} IN
  /\ owned \subseteq group
  /\ sessions' = [sessions EXCEPT ![p] = [l \in Lsids |-> NoSession]]
  /\ txns' = [m \in Mongos |-> IF PodOf[m] = p THEN [l \in Lsids |-> NoServer] ELSE txns[m]]
  /\ cursors' = [m \in Mongos |->
                  IF PodOf[m] = p THEN [k \in Cursors |-> NoServer] ELSE cursors[m]]
  /\ flight' = [x \in Things |-> IF x \in dropped THEN NoRequest ELSE flight[x]]
  /\ home' \in [Things -> Servers \cup {NoServer}]
  /\ \A x \in Things :
       home'[x] \in (IF x \in dropped THEN Executed(x) ELSE {}) \cup {home[x]}
  /\ group' = group \ owned
  /\ lost' = lost \cup Entries(owned)
  /\ UNCHANGED using

Next ==
  \/ \E m \in Mongos, l \in Lsids, kind \in TxnKinds,
        up \in SUBSET Keys : up \subseteq {SessionKey(l), TxnKey(l)}
                             /\ (Refuse(m, l, kind, up) \/ Send(m, l, kind, up))
  \/ \E l \in Lsids : Fail(l) \/ \E up \in SUBSET {TxnKey(l)} : Reply(l, up)
  \/ \E m \in Mongos, l \in Lsids : ExpireTxn(m, l)
  \/ \E m \in Mongos, k \in Cursors :
       \/ ExpireCursor(m, k) \/ KillCursors(m, k)
       \/ \E up \in SUBSET {CursorKey(k)} : Open(m, k, up) \/ GetMore(m, k, up)
  \/ \E k \in Cursors : NoMore(k) \/ \E up \in SUBSET {CursorKey(k)} : More(k, up)
  \/ \E x \in Things : ServerEnds(x)
  \/ \E key \in Keys : Expire(key)
  \/ \E p \in Pods : \/ \E L \in SUBSET Lsids : L # {} /\ CleanupInactiveSessions(p, L)
                     \/ \E owned \in SUBSET Keys : Restart(p, owned)

Spec == Init /\ [][Next]_vars

\* An abort names the admin database, so that any Mongo client of the pod may
\* be the one that sends it
StickyAbort(l) ==
  \E m \in Mongos : PodOf[m] = PodOf[Sticky] /\ Send(m, l, "abort", Keys)

\* Requests end, entries have a time to live, and a client with session
\* affinity goes on: it aborts what it could not start and starts again
Fairness ==
  /\ \A l \in Lsids : /\ WF_vars(Fail(l) \/ \E up \in SUBSET {TxnKey(l)} : Reply(l, up))
                     /\ SF_vars(Send(Sticky, l, "start", Keys))
                     /\ SF_vars(StickyAbort(l))
  /\ \A key \in Keys : WF_vars(Expire(key))

FairSpec == Spec /\ Fairness

-----------------------------------------------------------------------------
(* Properties *)

\* No request of a transaction and no getMore is sent to another server than
\* the one that has the transaction or cursor open, whichever pods and Mongo
\* clients the load balancer and the routes pick and whatever restarts,
\* expires in a client or is cleaned up: a client that does not know the
\* server refuses.  That is so as long as there is an entry in the distributed
\* cache and it is seen when needed.  A Mongo client made after start-up knows
\* nothing but its own records: it sees no entry, and makes none for a cursor.
\* The entry is also gone when a transaction was ended through another client
\* than the one that has it on record.  A killCursors goes to any server.
SentWhereOpened ==
  \A x \in Things :
    flight[x] # NoRequest /\ flight[x].kind # "killCursors" /\ x \notin lost
      => home[x] \in {NoServer, flight[x].server}

\* No session is wedged for good by what other pods, restarts and failed
\* requests left in the distributed cache: a client that aborts what was
\* refused and tries again starts a transaction at last.
NeverWedged ==
  \A l \in Lsids : l \in using => []<>(flight[l] # NoRequest /\ flight[l].kind = "start")
=============================================================================

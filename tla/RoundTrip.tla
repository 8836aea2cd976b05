------------------------------ MODULE RoundTrip ------------------------------
(***************************************************************************)
(* Mongo.RoundTrip (mongo/mongo.go): what happens to one request between   *)
(* the proxy and the driver.  Requests run concurrently; they share the    *)
(* global SessionManager, the driver's connection pools and, per Mongo     *)
(* client, the transaction cache, the cursor cache and the RWMutex that    *)
(* Close takes.  One action is one stretch of code between two accesses to *)
(* shared state.  Deferred calls are kept on a stack and run when the      *)
(* function returns, as Go runs them: a retry does not release what the    *)
(* failed attempt holds.                                                   *)
(***************************************************************************)
EXTENDS SessionManager, Sequences, FiniteSets

CONSTANTS Requests,    \* goroutines that may be inside RoundTrip at once
          Lsids,       \* logical session ids
          Objs,        \* *Session objects
          Mongos,      \* Mongo clients (one per route), sharing the sessions
          Addrs,       \* servers of one deployment
          Handles,     \* driver connection handles, per server
          PoolSize,    \* connections the driver keeps per server (maxPoolSize)
          CursorIds,   \* ids of server-side cursors
          Kinds,       \* the kinds of request clients send, of AllKinds
          MaxRetries,  \* maxRetries in RoundTrip
          SerialSessions,  \* TRUE: a client waits for the reply before it
                           \* sends the session's next request
          NoObj, NoLsid, NoCursor, NoMongo

AllKinds == {"plain",     \* neither transaction fields nor a cursor
             "unack",     \* an unacknowledged write
             "find",      \* its reply may open a cursor
             "getMore",
             "start",     \* startTransaction: true
             "statement", \* a later statement of a transaction
             "commit", "abort",
             "end"}       \* endSessions carrying transaction fields

\* The kinds for which Op.TransactionDetails() is not nil
TxnKinds == {"start", "statement", "commit", "abort", "end"}

Servers == Mongos \X Addrs
Conns == Servers \X Handles

ASSUME ConstantsAssumption ==
  /\ Kinds \subseteq AllKinds
  /\ PoolSize \in Nat
  /\ MaxRetries \in Nat
  /\ SerialSessions \in BOOLEAN
  /\ NoServer \notin Servers /\ NoConn \notin Conns
  /\ NoObj \notin Objs /\ NoLsid \notin Lsids
  /\ NoCursor \notin CursorIds /\ NoMongo \notin Mongos

VARIABLES req,       \* request -> its local variables and deferred calls
          sess,      \* object -> session record
          sessions,  \* SessionManager.sessions: lsid -> object
          out,       \* handles of connections checked out of the driver
          txns,      \* Mongo.transactions: mongo -> lsid -> server
          cursors,   \* Mongo.cursors: mongo -> cursor id -> server
          home,      \* cursor id -> the server that has it open
          mu         \* Mongo.mu and Mongo.client, as Close leaves them

vars == <<req, sess, sessions, out, txns, cursors, home, mu>>

Idle == [pc |-> "idle", kind |-> "plain", mongo |-> NoMongo, lsid |-> NoLsid,
         cursor |-> NoCursor, obj |-> NoObj, server |-> NoServer,
         conn |-> NoConn, attempt |-> 0, sent |-> 0, reply |-> NoCursor,
         defers |-> <<>>]

Pcs == {"idle", "lock", "lookup", "create", "select", "checkout", "txn", "wire",
        "reply", "return"}

DeferredCalls == [call : {"close", "closeUnlessActive", "reset", "unpin"},
                  conn : Conns \cup {NoConn}]

Attempts == 0 .. MaxRetries

Reqs == [pc : Pcs, kind : AllKinds, mongo : Mongos \cup {NoMongo},
         lsid : Lsids \cup {NoLsid}, cursor : CursorIds \cup {NoCursor},
         obj : Objs \cup {NoObj}, server : Servers \cup {NoServer},
         conn : Conns \cup {NoConn}, attempt : Attempts, sent : Nat,
         reply : CursorIds \cup {NoCursor}, defers : Seq(DeferredCalls)]

SessionRecords == [lsid : Lsids \cup {NoLsid}, state : SessionStates,
                   txn : TransactionStates, server : Servers \cup {NoServer},
                   conn : Conns \cup {NoConn}]

\* The state has the shape of RoundTrip's locals, the Session structs and maps
TypeOK ==
  /\ req \in [Requests -> Reqs]
  /\ sess \in [Objs -> SessionRecords]
  /\ sessions \in [Lsids -> Objs \cup {NoObj}]
  /\ out \subseteq Conns
  /\ txns \in [Mongos -> [Lsids -> Servers \cup {NoServer}]]
  /\ cursors \in [Mongos -> [CursorIds -> Servers \cup {NoServer}]]
  /\ home \in [CursorIds -> Servers \cup {NoServer}]
  /\ mu \in [Mongos -> {"open", "closing", "closed"}]

Init ==
  /\ req = [r \in Requests |-> Idle]
  /\ sess = [o \in Objs |-> NewSession(NoLsid)]
  /\ sessions = [l \in Lsids |-> NoObj]
  /\ out = {}
  /\ txns = [m \in Mongos |-> [l \in Lsids |-> NoServer]]
  /\ cursors = [m \in Mongos |-> [k \in CursorIds |-> NoServer]]
  /\ home = [k \in CursorIds |-> NoServer]
  /\ mu = [m \in Mongos |-> "open"]

-----------------------------------------------------------------------------
(* What the steps are made of *)

MutHoldsRLock(r) == req[r].pc \notin {"idle", "lock", "wire"}

\* RoundTrip holds m.mu.RLock from its first line to its return
HoldsRLock(r) == req[r].pc \notin {"idle", "lock"}

\* A *Session that no map entry and no goroutine points to is garbage
Unreferenced(o) == /\ \A l \in Lsids : sessions[l] # o
                   /\ \A r \in Requests : req[r].obj # o

\* The connections that deferred calls of a request will close
Deferred(q) == {q.defers[i].conn : i \in DOMAIN q.defers} \ {NoConn}

\* A handle the driver has just made for a connection it checks out: closing
\* or using an old handle never reaches the connection's next user
Fresh(c) ==
  /\ c \notin out
  /\ \A r \in Requests : c # req[r].conn /\ c \notin Deferred(req[r])
  /\ \A o \in Objs : c # sess[o].conn

Room(s) == Cardinality({c \in out : c[1] = s}) < PoolSize

\* q is what r's local variables become
Move(r, q) == req' = [req EXCEPT ![r] = q]

Goto(r, pc) == Move(r, [req[r] EXCEPT !.pc = pc])

MutRetried(q) == [q EXCEPT !.pc = "select", !.conn = NoConn]

MutRetriedOnceMore(q) ==
  IF q.attempt <= MaxRetries
  THEN [q EXCEPT !.pc = "select", !.attempt = @ + 1, !.conn = NoConn]
  ELSE [q EXCEPT !.pc = "return"]

\* "continue" while attempts remain, else "return nil, err".  What earlier
\* attempts deferred stays deferred.
Retried(q) ==
  IF q.attempt < MaxRetries
  THEN [q EXCEPT !.pc = "select", !.attempt = @ + 1, !.conn = NoConn]
  ELSE [q EXCEPT !.pc = "return"]

\* The request leaves selection with server s
Selected(r, s) == Move(r, [req[r] EXCEPT !.pc = "checkout", !.server = s])

\* selectServer: the transaction cache first, then the cursor cache
Cached(r) ==
  LET m == req[r].mongo
      inTxns == IF req[r].lsid # NoLsid THEN txns[m][req[r].lsid] ELSE NoServer
      inCursors == IF req[r].cursor # NoCursor THEN cursors[m][req[r].cursor]
                                               ELSE NoServer
  IN IF inTxns # NoServer THEN inTxns ELSE inCursors

-----------------------------------------------------------------------------
(* The handler, up to the checkout of a connection *)

\* A client's request reaches RoundTrip of Mongo client m.  A client asks for
\* more of a cursor only once a reply has told it of the cursor.
Arrive(r) ==
  /\ req[r].pc = "idle"
  /\ \E k \in Kinds, m \in Mongos :
       \E l \in IF k \in TxnKinds THEN Lsids ELSE {NoLsid},
          c \in IF k = "getMore" THEN CursorIds ELSE {NoCursor} :
         /\ SerialSessions /\ l # NoLsid => \A q \in Requests : req[q].lsid # l
         /\ k = "getMore" => /\ home[c] # NoServer /\ home[c][1] = m
                             /\ \A q \in Requests : req[q].reply # c
         /\ Move(r, [req[r] EXCEPT !.pc = "lock", !.kind = k, !.mongo = m,
                                   !.lsid = l, !.cursor = c])
  /\ UNCHANGED <<sess, sessions, out, txns, cursors, home, mu>>

MutEnter(r) ==
  /\ req[r].pc = "lock"
  /\ \/ /\ mu[req[r].mongo] # "closed"
        /\ Goto(r, IF req[r].kind \in TxnKinds THEN "lookup" ELSE "select")
     \/ /\ mu[req[r].mongo] = "closed"
        /\ Goto(r, "return")
  /\ UNCHANGED <<sess, sessions, out, txns, cursors, home, mu>>

\* m.mu.RLock(), then the client == nil return.  A Close that waits for the
\* lock keeps new readers out.
Enter(r) ==
  /\ req[r].pc = "lock"
  /\ \/ /\ mu[req[r].mongo] = "open"
        /\ Goto(r, IF req[r].kind \in TxnKinds THEN "lookup" ELSE "select")
     \/ /\ mu[req[r].mongo] = "closed"
        /\ Goto(r, "return")
  /\ UNCHANGED <<sess, sessions, out, txns, cursors, home, mu>>

MutLookup(r) ==
  /\ req[r].pc = "lookup"
  /\ LET found == {o \in Objs : /\ \E l \in Lsids : sessions[l] = o
                               /\ sess[o].state # "ended"}
     IN \/ /\ found # {}
           /\ \E o \in found : Move(r, [req[r] EXCEPT !.pc = "select", !.obj = o])
        \/ /\ found = {}
           /\ Goto(r, "create")
  /\ UNCHANGED <<sess, sessions, out, txns, cursors, home, mu>>

\* SessionManager.GetSession: an ended session counts as missing
Lookup(r) ==
  /\ req[r].pc = "lookup"
  /\ LET o == sessions[req[r].lsid]
         found == IF o = NoObj THEN FALSE ELSE sess[o].state # "ended"
     IN Move(r, [req[r] EXCEPT !.pc = IF found THEN "select" ELSE "create",
                               !.obj = IF found THEN o ELSE NoObj])
  /\ UNCHANGED <<sess, sessions, out, txns, cursors, home, mu>>

\* The insertion is a critical section of its own: it overwrites whatever
\* another request has put there since the lookup
Create(r) ==
  /\ req[r].pc = "create"
  /\ \E o \in Objs :
       /\ Unreferenced(o)
       /\ sess' = [sess EXCEPT ![o] = NewSession(req[r].lsid)]
       /\ sessions' = [sessions EXCEPT ![req[r].lsid] = o]
       /\ Move(r, [req[r] EXCEPT !.pc = "select", !.obj = o])
  /\ UNCHANGED <<out, txns, cursors, home, mu>>

\* The session's pinned server, else a cached one, else the topology's choice
Select(r) ==
  /\ req[r].pc = "select"
  /\ LET pinned == req[r].obj # NoObj /\ HasPinnedServer(sess[req[r].obj]) IN
       \/ pinned /\ Selected(r, sess[req[r].obj].server)
       \/ ~ pinned /\ Cached(r) # NoServer /\ Selected(r, Cached(r))
       \/ /\ ~ pinned /\ Cached(r) = NoServer
          /\ \E a \in Addrs : Selected(r, <<req[r].mongo, a>>)
  /\ UNCHANGED <<sess, sessions, out, txns, cursors, home, mu>>

\* The topology finds no server.  A request with transaction fields returns
\* the error, any other retries.
SelectFails(r) ==
  /\ req[r].pc = "select"
  /\ req[r].obj # NoObj => ~ HasPinnedServer(sess[req[r].obj])
  /\ Cached(r) = NoServer
  /\ IF req[r].obj # NoObj THEN Goto(r, "return") ELSE Move(r, Retried(req[r]))
  /\ UNCHANGED <<sess, sessions, out, txns, cursors, home, mu>>

\* checkoutConnection: the session's pinned connection, else a connection of
\* the server's pool, for which the call waits without a deadline
Checkout(r) ==
  /\ req[r].pc = "checkout"
  /\ \/ /\ req[r].obj # NoObj
        /\ HasPinnedConnection(sess[req[r].obj])
        /\ Move(r, [req[r] EXCEPT !.pc = "txn", !.conn = sess[req[r].obj].conn])
        /\ UNCHANGED out
     \/ /\ req[r].obj # NoObj => ~ HasPinnedConnection(sess[req[r].obj])
        /\ mu[req[r].server[1]] # "closed"
        /\ Room(req[r].server)
        /\ \E h \in Handles :
             LET c == <<req[r].server, h>> IN
               /\ Fresh(c)
               /\ Move(r, [req[r] EXCEPT !.pc = "txn", !.conn = c])
               /\ out' = out \cup {c}
  /\ UNCHANGED <<sess, sessions, txns, cursors, home, mu>>

\* server.Connection returns an error (it cannot connect, the pool was
\* cleared or closed)
CheckoutFails(r) ==
  /\ req[r].pc = "checkout"
  /\ req[r].obj # NoObj => ~ HasPinnedConnection(sess[req[r].obj])
  /\ Move(r, Retried(req[r]))
  /\ UNCHANGED <<sess, sessions, out, txns, cursors, home, mu>>

-----------------------------------------------------------------------------
(* The transaction's state, the exchange with the server, the return *)

MutCloseLater(c) == <<>>

\* The deferred closer of a request that ends no transaction
CloseLater(c) == <<[call |-> "closeUnlessActive", conn |-> c]>>

\* Deferred calls run last in, first out: close, reset, then unpin
CloseAndForget(c) == <<[call |-> "close", conn |-> c],
                       [call |-> "reset", conn |-> NoConn],
                       [call |-> "unpin", conn |-> NoConn]>>

\* To the wire, with calls pushed on the defer stack
Proceed(r, calls) ==
  Move(r, [req[r] EXCEPT !.pc = "wire", !.defers = calls \o @])

\* SessionManager.EndSession deletes the map entry under the session's id,
\* whichever object is there
EndSessionEntry(o) ==
  sessions' = IF sess[o].state = "ended" THEN sessions
              ELSE [sessions EXCEPT ![sess[o].lsid] = NoObj]

\* The session accepts the command
Transaction(r) ==
  LET o == req[r].obj
      c == req[r].conn
      Set(s) == sess' = [sess EXCEPT ![o] = s]
  IN
  /\ req[r].pc = "txn"
  /\ \/ /\ req[r].kind \notin TxnKinds \/ req[r].kind = "statement"
        /\ Proceed(r, CloseLater(c))
        /\ UNCHANGED <<sess, sessions>>
     \/ /\ req[r].kind = "start"
        /\ CanStartTransaction(sess[o])
        /\ Set(StartTransaction(sess[o], req[r].server, c))
        /\ Proceed(r, CloseLater(c))
        /\ UNCHANGED sessions
     \/ /\ req[r].kind \in {"commit", "abort"}
        /\ CanEndTransaction(sess[o])
        /\ Set(IF req[r].kind = "commit" THEN CommitTransaction(sess[o])
                                         ELSE AbortTransaction(sess[o]))
        /\ Proceed(r, CloseAndForget(c))
        /\ UNCHANGED sessions
     \/ /\ req[r].kind = "end"
        /\ Set(EndSession(sess[o]))
        /\ EndSessionEntry(o)
        /\ Proceed(r, CloseLater(c))
  /\ UNCHANGED <<out, txns, cursors, home, mu>>

\* The session refuses the command: RoundTrip returns before it has deferred
\* the close of this attempt's connection
TransactionRefused(r) ==
  /\ req[r].pc = "txn"
  /\ \/ req[r].kind = "start" /\ ~ CanStartTransaction(sess[req[r].obj])
     \/ req[r].kind \in {"commit", "abort"} /\ ~ CanEndTransaction(sess[req[r].obj])
  /\ Goto(r, "return")
  /\ UNCHANGED <<sess, sessions, out, txns, cursors, home, mu>>

\* The server executes the command and its reply arrives.  A find may open a
\* cursor; a getMore may be told that its cursor goes on or is exhausted.
WireOk(r) ==
  /\ req[r].pc = "wire"
  /\ req[r].conn \in out
  /\ \E k \in CursorIds \cup {NoCursor} :
       /\ \/ req[r].kind \notin {"find", "getMore"} /\ k = NoCursor /\ UNCHANGED home
          \/ /\ req[r].kind = "find"
             /\ k # NoCursor =>
                  /\ home[k] = NoServer
                  /\ \A m \in Mongos : cursors[m][k] = NoServer
                  /\ \A q \in Requests : req[q].cursor # k /\ req[q].reply # k
             /\ home' = [i \in CursorIds |-> IF i = k THEN req[r].conn[1] ELSE home[i]]
          \/ /\ req[r].kind = "getMore"
             /\ \/ k = req[r].cursor /\ home[k] = req[r].conn[1] /\ UNCHANGED home
                \/ /\ k = NoCursor
                   /\ home' = [home EXCEPT ![req[r].cursor] =
                                 IF @ = req[r].conn[1] THEN NoServer ELSE @]
       /\ Move(r, [req[r] EXCEPT !.pc = IF req[r].kind = "unack" THEN "return"
                                                                 ELSE "reply",
                                 !.sent = @ + 1, !.reply = k])
  /\ UNCHANGED <<sess, sessions, out, txns, cursors, mu>>

\* A network error or an undecodable reply, after processError: whether the
\* server saw the command is unknown.  On a closed handle the driver's error
\* is not one that isRetryableError knows.
WireFails(r) ==
  LET q == [req[r] EXCEPT !.sent = @ + 1] IN
  /\ req[r].pc = "wire"
  /\ \/ req[r].conn \in out /\ Move(r, Retried(q))
     \/ req[r].conn \in out /\ Move(r, [q EXCEPT !.pc = "return"])
     \/ req[r].conn \notin out /\ Goto(r, "return")
  /\ UNCHANGED <<sess, sessions, out, txns, cursors, home, mu>>

\* What a reply does to the caches of the request's Mongo client
Reply(r) ==
  LET m == req[r].mongo
      k == req[r].reply
  IN
  /\ req[r].pc = "reply"
  /\ cursors' = [cursors EXCEPT ![m] =
       [i \in CursorIds |->
          IF i = k THEN req[r].server
          ELSE IF k = NoCursor /\ i = req[r].cursor THEN NoServer
          ELSE cursors[m][i]]]
  /\ txns' = [txns EXCEPT ![m] =
       [l \in Lsids |->
          IF l # req[r].lsid THEN txns[m][l]
          ELSE IF req[r].kind = "start" THEN req[r].server
          ELSE IF req[r].kind \in {"commit", "abort"} THEN NoServer
          ELSE txns[m][l]]]
  /\ Goto(r, "return")
  /\ UNCHANGED <<sess, sessions, out, home, mu>>

\* One deferred call
RunDefer(r) ==
  LET d == Head(req[r].defers)
      o == req[r].obj
      active == o # NoObj /\ IsTransactionActive(sess[o])
  IN
  /\ req[r].pc = "return" /\ req[r].defers # <<>>
  /\ out' = IF \/ d.call = "close"
               \/ d.call = "closeUnlessActive" /\ ~ active
            THEN out \ {d.conn} ELSE out
  /\ sess' = IF d.call = "reset"
             THEN [sess EXCEPT ![o] = ResetTransactionState(@)]
             ELSE IF d.call = "unpin"
             THEN [sess EXCEPT ![o] = UnpinTransaction(@)]
             ELSE sess
  /\ Move(r, [req[r] EXCEPT !.defers = Tail(@)])
  /\ UNCHANGED <<sessions, txns, cursors, home, mu>>

\* m.mu.RUnlock() is the last deferred call; the answer goes to the client
Return(r) ==
  /\ req[r].pc = "return" /\ req[r].defers = <<>>
  /\ Move(r, Idle)
  /\ UNCHANGED <<sess, sessions, out, txns, cursors, home, mu>>

-----------------------------------------------------------------------------
(* Around the handler *)

\* cacheMonitor calls CleanupInactiveSessions: sessions that ended, and any
\* that time has made inactive, leave the map; their pins stay as they are
CleanupInactiveSessions ==
  \E L \in SUBSET {l \in Lsids : sessions[l] # NoObj} :
    /\ L # {}
    /\ {l \in Lsids : sessions[l] # NoObj /\ sess[sessions[l]].state = "ended"} \subseteq L
    /\ sessions' = [l \in Lsids |-> IF l \in L THEN NoObj ELSE sessions[l]]
    /\ UNCHANGED <<req, sess, out, txns, cursors, home, mu>>

\* The transaction cache's entries live for 120 seconds
TransactionExpires(m, l) ==
  /\ txns[m][l] # NoServer
  /\ txns' = [txns EXCEPT ![m][l] = NoServer]
  /\ UNCHANGED <<req, sess, sessions, out, cursors, home, mu>>

\* Mongo.Close asks for the write lock, before it cancels roundTripCtx
CloseCall(m) ==
  /\ mu[m] = "open"
  /\ mu' = [mu EXCEPT ![m] = "closing"]
  /\ UNCHANGED <<req, sess, sessions, out, txns, cursors, home>>

\* It has the lock: Disconnect closes the client's connections
CloseFinish(m) ==
  /\ mu[m] = "closing"
  /\ \A r \in Requests : HoldsRLock(r) => req[r].mongo # m
  /\ mu' = [mu EXCEPT ![m] = "closed"]
  /\ out' = {c \in out : c[1][1] # m}
  /\ UNCHANGED <<req, sess, sessions, txns, cursors, home>>

\* The steps RoundTrip takes by itself once it has been called
Progress(r) ==
  \/ Enter(r) \/ Lookup(r) \/ Create(r)
  \/ Select(r) \/ Checkout(r)
  \/ Transaction(r) \/ TransactionRefused(r)
  \/ WireOk(r) \/ WireFails(r)
  \/ Reply(r) \/ RunDefer(r) \/ Return(r)

Next ==
  \/ \E r \in Requests :
       Arrive(r) \/ Progress(r) \/ SelectFails(r) \/ CheckoutFails(r)
  \/ CleanupInactiveSessions
  \/ \E m \in Mongos, l \in Lsids : TransactionExpires(m, l)
  \/ \E m \in Mongos : CloseCall(m) \/ CloseFinish(m)

Spec == Init /\ [][Next]_vars

\* The scheduler runs every goroutine; a read or write on a socket ends at the
\* latest with its timeout; a request waiting for a connection is served in
\* turn once one is free (the driver's queue is first in, first out).
Fairness ==
  /\ \A r \in Requests : WF_vars(Progress(r)) /\ SF_vars(Checkout(r))
  /\ \A m \in Mongos : WF_vars(CloseFinish(m))

FairSpec == Spec /\ Fairness

-----------------------------------------------------------------------------
(* Properties *)

\* The connections a request will give back: its deferred closers', and the
\* one it has just checked out
Holds(q) == Deferred(q) \cup (IF q.pc = "txn" THEN {q.conn} ELSE {})

Live(o) == ~ Unreferenced(o)

InTransaction(o) == Live(o) /\ sess[o].txn = "in_progress"

Pins(o) == IF InTransaction(o) THEN {sess[o].conn} ELSE {}

Owned(c) == (\E r \in Requests : c \in Holds(req[r])) \/ (\E o \in Objs : c \in Pins(o))

\* No two requests ever have the same connection, no two transactions are
\* pinned to the same one, and a pinned connection is used only by requests of
\* its own session, whatever is retried, refused, cleaned up or closed.
ExclusiveUse ==
  /\ \A r, q \in Requests : r # q => Holds(req[r]) \cap Holds(req[q]) = {}
  /\ \A o, p \in Objs : o # p => Pins(o) \cap Pins(p) = {}
  /\ \A r \in Requests, o \in Objs :
       Pins(o) \cap Holds(req[r]) # {} => req[r].obj = o

\* A transaction in progress keeps its connection checked out until its client
\* ends it: no deferred closer of an earlier statement gives it back.
PinnedStaysCheckedOut ==
  \A o \in Objs : \A c \in Pins(o) : c \in out \/ mu[c[1][1]] = "closed"

\* Every command of a transaction, the commit or abort included, is sent on
\* the connection pinned when the transaction started, and the server whose
\* ErrorProcessor sees its failure is the one that connection belongs to.
SentOnPinnedConnection ==
  \A r \in Requests : req[r].pc \in {"wire", "reply"} =>
    /\ req[r].server = req[r].conn[1]
    /\ \/ req[r].kind \in {"commit", "abort"}
       \/ req[r].kind \in {"start", "statement"} /\ InTransaction(req[r].obj)
       => req[r].conn = sess[req[r].obj].conn

\* The retry loop never sends the command that starts or ends a transaction
\* twice: the session refuses it the second time.
BoundarySentOnce ==
  \A r \in Requests : req[r].kind \in {"start", "commit", "abort"} => req[r].sent <= 1

\* RoundTrip has committed or aborted and has yet to reset the session
Ending(r) == \E i \in DOMAIN req[r].defers : req[r].defers[i].call = "reset"

\* Even when the requests of a session overlap, at most one of those that work
\* with the same session object gets to end its transaction, and it sends its
\* command at most once.  (Two requests that both found no session have an
\* object each, and each may end the transaction of its own.)
OneEnder ==
  /\ \A r, q \in Requests : r # q /\ Ending(r) /\ Ending(q) => req[r].obj # req[q].obj
  /\ \A r \in Requests : Ending(r) => req[r].sent <= 1

\* Once Close has disconnected a client, no request is between the checks at
\* the top of that client's RoundTrip and its return.
QuietAfterClose ==
  \A r \in Requests :
    req[r].pc \notin {"idle", "lock", "return"} => mu[req[r].mongo] # "closed"

\* Every connection out of the driver's pools is about to be given back by a
\* request or is pinned to a transaction a client can still end.  This is so
\* of requests outside transactions, retries included; how transactions lose
\* connections is the next property.
NoConnectionLeak == \A c \in out : Owned(c)

\* There are only two ways to lose a connection: a command the session refuses
\* (the connection just checked out), and the cleanup of a session that has a
\* transaction in progress (the pinned one).
LeaksOnlyByRefusalOrCleanup ==
  [][\A c \in out : Owned(c) /\ c \in out' /\ ~ Owned(c)' =>
       \/ \E r \in Requests : /\ req[r].pc = "txn" /\ req[r].conn = c
                              /\ req'[r].pc = "return"
       \/ \E o \in Objs : c \in Pins(o) /\ \A l \in Lsids : sessions'[l] # o]_vars

\* RoundTrip always returns.
EveryRequestReturns ==
  \A r \in Requests : (req[r].pc # "idle") ~> (req[r].pc = "idle")

\* Close always gets the lock that in-flight requests hold.
CloseCompletes == \A m \in Mongos : (mu[m] = "closing") ~> (mu[m] = "closed")

-----------------------------------------------------------------------------
(***************************************************************************)
(* The inductive invariant behind the safety properties above, for serial  *)
(* sessions.  A session object belongs to the requests of one lsid, hence  *)
(* to at most one request at a time (Serial, ReqInv).  So what a request   *)
(* knows of its session's transaction stays true between its own steps,    *)
(* and the connection pinned to it is in no other request's hands.         *)
(***************************************************************************)

ResetCall == [call |-> "reset", conn |-> NoConn]
UnpinCall == [call |-> "unpin", conn |-> NoConn]

Ends(q) == q.kind \in {"commit", "abort"}

TxnOf(q) == IF q.obj = NoObj THEN "none" ELSE sess[q.obj].txn

Usable(c) == c \in out \/ mu[c[1][1]] = "closed"

\* The defer stack of a request, and the transaction state that goes with it
StackInv(q) ==
  IF Ends(q)
  THEN \/ q.defers = <<>>
       \/ /\ \E c \in Conns : q.defers = CloseAndForget(c) /\ sess[q.obj].conn = c
          /\ q.obj \in Objs /\ TxnOf(q) \in {"committed", "aborted"}
       \/ /\ q.defers = <<ResetCall, UnpinCall>> /\ q.pc = "return"
          /\ q.obj \in Objs /\ TxnOf(q) \in {"committed", "aborted"}
       \/ /\ q.defers = <<UnpinCall>> /\ q.pc = "return"
          /\ q.obj \in Objs /\ TxnOf(q) = "none"
  ELSE \A i \in DOMAIN q.defers : /\ q.defers[i].call = "closeUnlessActive"
                                  /\ q.defers[i].conn \in Conns

\* What holds at each place of the handler
PlaceInv(q) ==
  /\ q.pc = "idle" => q = Idle
  /\ q.pc \in {"lock", "lookup", "create"} =>
       q.obj = NoObj /\ q.sent = 0 /\ q.defers = <<>>
  /\ q.obj # NoObj => q.kind \in TxnKinds /\ sess[q.obj].lsid = q.lsid
  /\ q.kind \in TxnKinds /\ q.pc \in {"select", "checkout", "txn", "wire", "reply"} =>
       q.obj \in Objs
  /\ q.pc = "checkout" /\ TxnOf(q) = "in_progress" => q.server = sess[q.obj].server
  /\ q.pc = "txn" =>
       /\ q.conn \in Conns
       /\ TxnOf(q) = "in_progress" => q.conn = sess[q.obj].conn
       /\ TxnOf(q) \in {"in_progress", "none"} \/ ~ Ends(q) => q.server = q.conn[1]
       /\ TxnOf(q) = "none" => Usable(q.conn)
  /\ q.pc \in {"wire", "reply"} =>
       /\ q.conn \in Conns /\ q.server = q.conn[1]
       /\ Ends(q) => q.defers = CloseAndForget(q.conn)
       /\ q.kind = "start" => TxnOf(q) = "in_progress"
       /\ TxnOf(q) = "in_progress" => q.conn = sess[q.obj].conn

\* A command that starts or ends a transaction has been sent at most once; if
\* it has been, the session now refuses it
SentInv(q) ==
  q.kind \in {"start", "commit", "abort"} =>
    /\ q.sent \in {0, 1}
    /\ q.pc = "wire" => q.sent = 0
    /\ q.pc \in {"select", "checkout", "txn"} /\ q.sent = 1 =>
         IF Ends(q) THEN q.defers # <<>> ELSE TxnOf(q) = "in_progress"

ReqInv(q) == StackInv(q) /\ PlaceInv(q) /\ SentInv(q)

\* The pin of a session follows its transaction
ObjInv(o) ==
  /\ sess[o].txn = "in_progress" =>
       /\ sess[o].conn \in Conns /\ sess[o].server = sess[o].conn[1]
       /\ Usable(sess[o].conn)
  /\ sess[o].txn = "none" => sess[o].conn = NoConn
  /\ sess[o].txn \in {"committed", "aborted"} /\ sess[o].conn # NoConn =>
       \E r \in Requests : req[r].obj = o /\ Ends(req[r]) /\ req[r].defers # <<>>

Serial ==
  \A r, q \in Requests : r # q /\ req[r].lsid # NoLsid => req[r].lsid # req[q].lsid

\* One owner per connection
OwnInv ==
  /\ \A r, q \in Requests : r # q => Holds(req[r]) \cap Holds(req[q]) = {}
  /\ \A r \in Requests, o \in Objs : sess[o].conn \in Holds(req[r]) => req[r].obj = o
  /\ \A o, p \in Objs : o # p /\ sess[o].conn # NoConn => sess[o].conn # sess[p].conn

MapInv == \A l \in Lsids : sessions[l] # NoObj => sess[sessions[l]].lsid = l

IInv == /\ Serial
        /\ \A r \in Requests : ReqInv(req[r])
        /\ \A o \in Objs : ObjInv(o)
        /\ OwnInv
        /\ MapInv
=============================================================================

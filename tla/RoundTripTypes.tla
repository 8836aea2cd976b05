--------------------------- MODULE RoundTripTypes ---------------------------
(***************************************************************************)
(* Type correctness of RoundTrip, and what holds for any number of         *)
(* requests, sessions, clients, servers and retries however the requests   *)
(* of a session overlap: nobody is in RoundTrip of a client that Close has *)
(* disconnected, and one request at most ends a transaction.               *)
(***************************************************************************)
EXTENDS RoundTrip, TLAPS

-----------------------------------------------------------------------------
(* Types *)

\* Pushing deferred calls, or running one, leaves a stack of deferred calls
LEMMA DefersTyping ==
  /\ \A c \in Conns \cup {NoConn} : CloseLater(c) \in Seq(DeferredCalls)
  /\ \A c \in Conns \cup {NoConn} : CloseAndForget(c) \in Seq(DeferredCalls)
  /\ \A s, t \in Seq(DeferredCalls) : s \o t \in Seq(DeferredCalls)
  /\ \A s \in Seq(DeferredCalls) :
       s # <<>> => Tail(s) \in Seq(DeferredCalls) /\ Head(s) \in DeferredCalls
<1>1. \A c \in Conns \cup {NoConn} :
        /\ [call |-> "closeUnlessActive", conn |-> c] \in DeferredCalls
        /\ [call |-> "close", conn |-> c] \in DeferredCalls
        /\ [call |-> "reset", conn |-> NoConn] \in DeferredCalls
        /\ [call |-> "unpin", conn |-> NoConn] \in DeferredCalls
  BY DEF DeferredCalls
<1>a. \A S : \A x \in S : <<x>> \in Seq(S)
  OBVIOUS
<1>b. \A S : \A x, y, z \in S : <<x, y, z>> \in Seq(S)
  OBVIOUS
<1>2. \A c \in Conns \cup {NoConn} : CloseLater(c) \in Seq(DeferredCalls)
  BY <1>1, <1>a DEF CloseLater
<1>3. \A c \in Conns \cup {NoConn} : CloseAndForget(c) \in Seq(DeferredCalls)
  BY <1>1, <1>b DEF CloseAndForget
<1>4. \A s, t \in Seq(DeferredCalls) : s \o t \in Seq(DeferredCalls)
  OBVIOUS
<1>5. \A s \in Seq(DeferredCalls) :
        s # <<>> => Tail(s) \in Seq(DeferredCalls) /\ Head(s) \in DeferredCalls
  OBVIOUS
<1>. QED  BY <1>2, <1>3, <1>4, <1>5

\* What the typing of a step needs besides TypeOK: a request in flight has a
\* client, one that checks a connection out has a server, and one that looks
\* a session up has an lsid
Placed(q) ==
  /\ q.pc # "idle" => q.mongo \in Mongos
  /\ q.pc = "checkout" => q.server \in Servers
  /\ q.kind \in TxnKinds => q.lsid \in Lsids
  /\ q.pc \in {"lookup", "create"} => q.kind \in TxnKinds

PcOK == \A r \in Requests : Placed(req[r])

TypeInv == TypeOK /\ PcOK

\* A step of one request is well typed if the request's new record is
LEMMA MoveTyping ==
  ASSUME TypeInv, NEW r \in Requests, NEW q \in Reqs, Move(r, q), Placed(q)
  PROVE  req' \in [Requests -> Reqs] /\ PcOK'
BY DEF TypeInv, TypeOK, PcOK, Move, Placed

\* The methods of the session manager keep a session record a session record
LEMMA SessionTyping ==
  ASSUME NEW s \in SessionRecords, NEW srv \in Servers \cup {NoServer},
         NEW c \in Conns \cup {NoConn}
  PROVE  /\ StartTransaction(s, srv, c) \in SessionRecords
         /\ CommitTransaction(s) \in SessionRecords
         /\ AbortTransaction(s) \in SessionRecords
         /\ EndSession(s) \in SessionRecords
         /\ ResetTransactionState(s) \in SessionRecords
         /\ UnpinTransaction(s) \in SessionRecords
<1>. USE DEF SessionRecords, SessionStates, TransactionStates
<1>1. StartTransaction(s, srv, c) \in SessionRecords
  BY Zenon DEF StartTransaction
<1>2. CommitTransaction(s) \in SessionRecords /\ AbortTransaction(s) \in SessionRecords
  BY Zenon DEF CommitTransaction, AbortTransaction
<1>3. EndSession(s) \in SessionRecords
  BY Zenon DEF EndSession
<1>4. ResetTransactionState(s) \in SessionRecords /\ UnpinTransaction(s) \in SessionRecords
  BY Zenon DEF ResetTransactionState, UnpinTransaction
<1>. QED  BY <1>1, <1>2, <1>3, <1>4

\* A request about to retry, or giving up
LEMMA RetriedTyping ==
  ASSUME NEW q \in Reqs
  PROVE  /\ Retried(q) \in Reqs
         /\ Retried(q).pc \in {"select", "return"}
         /\ Retried(q).mongo = q.mongo /\ Retried(q).kind = q.kind
         /\ Retried(q).lsid = q.lsid
<1>1. q.attempt < MaxRetries => q.attempt + 1 \in Attempts
  BY ConstantsAssumption DEF Reqs, Attempts
<1>2. "select" \in Pcs /\ "return" \in Pcs
  BY DEF Pcs
<1>3. CASE q.attempt < MaxRetries
  BY <1>1, <1>2, <1>3, Zenon DEF Retried, Reqs
<1>4. CASE ~ (q.attempt < MaxRetries)
  BY <1>2, <1>4 DEF Retried, Reqs
<1>. QED  BY <1>3, <1>4

\* Before the first request everything has its type
LEMMA TypeInit == Init => TypeInv
<1>. SUFFICES ASSUME Init PROVE TypeInv
  OBVIOUS
<1>1. Idle \in Reqs
  BY ConstantsAssumption DEF Idle, Reqs, AllKinds, Pcs, Attempts
<1>2. \A o \in Objs : NewSession(NoLsid) \in SessionRecords
  BY DEF NewSession, SessionRecords, SessionStates, TransactionStates
<1>. QED  BY <1>1, <1>2 DEF Init, TypeInv, TypeOK, PcOK, Placed, Idle, TxnKinds

\* Every step of every request keeps the types
LEMMA TypeStep == TypeInv /\ [Next]_vars => TypeInv'
<1>. SUFFICES ASSUME TypeInv, [Next]_vars PROVE TypeInv'
  OBVIOUS
<1>u. CASE UNCHANGED vars
  BY <1>u DEF vars, TypeInv, TypeOK, PcOK, Placed
<1>r. ASSUME NEW r \in Requests,
             Arrive(r) \/ Progress(r) \/ SelectFails(r) \/ CheckoutFails(r)
      PROVE  TypeInv'
  <2>. DEFINE R == req[r]
  <2>0. R \in Reqs /\ Placed(R)
    BY DEF TypeInv, TypeOK, PcOK
  <2>m. ASSUME NEW q \in Reqs, Move(r, q), Placed(q)
        PROVE  req' \in [Requests -> Reqs] /\ PcOK'
    BY <2>m, MoveTyping
  <2>g. ASSUME NEW pc \in {"lookup", "create", "select", "return"}, Goto(r, pc),
               R.pc # "idle", pc \in {"lookup", "create"} => R.kind \in TxnKinds
        PROVE  req' \in [Requests -> Reqs] /\ PcOK'
    <3>1. [R EXCEPT !.pc = pc] \in Reqs
      BY <2>0, <2>g DEF Reqs, Pcs
    <3>2. Placed([R EXCEPT !.pc = pc])
      BY <2>0, <2>g DEF Reqs, Placed
    <3>. QED  BY <2>g, <2>m, <3>1, <3>2 DEF Goto
  <2>1. CASE Arrive(r)
    <3>0. PICK k \in Kinds, m \in Mongos :
            \E l \in IF k \in TxnKinds THEN Lsids ELSE {NoLsid},
               c \in IF k = "getMore" THEN CursorIds ELSE {NoCursor} :
               Move(r, [R EXCEPT !.pc = "lock", !.kind = k, !.mongo = m,
                                 !.lsid = l, !.cursor = c])
      BY <2>1, Zenon DEF Arrive
    <3>1. PICK l \in IF k \in TxnKinds THEN Lsids ELSE {NoLsid},
               c \in IF k = "getMore" THEN CursorIds ELSE {NoCursor} :
               Move(r, [R EXCEPT !.pc = "lock", !.kind = k, !.mongo = m,
                                 !.lsid = l, !.cursor = c])
      BY <3>0, Zenon
    <3>. DEFINE q == [R EXCEPT !.pc = "lock", !.kind = k, !.mongo = m,
                               !.lsid = l, !.cursor = c]
    <3>2. /\ k \in AllKinds /\ l \in Lsids \cup {NoLsid}
          /\ c \in CursorIds \cup {NoCursor} /\ "lock" \in Pcs
      BY ConstantsAssumption DEF Pcs
    <3>3. q \in Reqs
      BY <2>0, <3>2, ZenonT(30) DEF Reqs
    <3>4. Placed(q)
      BY <2>0 DEF Reqs, Placed
    <3>. HIDE DEF q
    <3>. QED  BY <2>1, <2>m, <3>1, <3>3, <3>4 DEF Arrive, TypeInv, TypeOK, q
  <2>2. CASE Enter(r)
    BY <2>2, <2>g DEF Enter, TypeInv, TypeOK
  <2>3. CASE Lookup(r)
    <3>. DEFINE o == sessions[R.lsid]
                found == IF o = NoObj THEN FALSE ELSE sess[o].state # "ended"
                pc == IF found THEN "select" ELSE "create"
                ob == IF found THEN o ELSE NoObj
                q == [R EXCEPT !.pc = pc, !.obj = ob]
    <3>1. o \in Objs \cup {NoObj}
      BY <2>0, <2>3 DEF Lookup, Placed, TypeInv, TypeOK
    <3>2. pc \in Pcs /\ pc \in {"select", "create"} /\ ob \in Objs \cup {NoObj}
      BY <3>1 DEF Pcs
    <3>4. Move(r, q)
      BY <2>3 DEF Lookup
    <3>. HIDE DEF pc, ob
    <3>5. q \in Reqs
      BY <2>0, <3>2, Zenon DEF Reqs
    <3>6. q.pc = pc /\ q.kind = R.kind /\ q.mongo = R.mongo /\ q.lsid = R.lsid
      BY <2>0 DEF Reqs
    <3>. HIDE DEF q
    <3>7. R.pc = "lookup"
      BY <2>3 DEF Lookup
    <3>3. q \in Reqs /\ Placed(q)
      BY <2>0, <3>2, <3>5, <3>6, <3>7 DEF Placed
    <3>. QED  BY <2>3, <2>m, <3>3, <3>4 DEF Lookup, TypeInv, TypeOK
  <2>4. CASE Create(r)
    <3>1. PICK o \in Objs :
            /\ sess' = [sess EXCEPT ![o] = NewSession(R.lsid)]
            /\ sessions' = [sessions EXCEPT ![R.lsid] = o]
            /\ Move(r, [R EXCEPT !.pc = "select", !.obj = o])
      BY <2>4, Zenon DEF Create
    <3>. DEFINE q == [R EXCEPT !.pc = "select", !.obj = o]
    <3>5. q \in Reqs
      BY <2>0, Zenon DEF Reqs, Pcs
    <3>6. q.pc = "select" /\ q.kind = R.kind /\ q.mongo = R.mongo /\ q.lsid = R.lsid
      BY <2>0 DEF Reqs
    <3>7. R.pc = "create"
      BY <2>4 DEF Create
    <3>3. NewSession(R.lsid) \in SessionRecords
      BY <2>0 DEF NewSession, SessionRecords, SessionStates, TransactionStates, Reqs
    <3>8. Move(r, q)
      BY <3>1
    <3>. HIDE DEF q
    <3>2. Placed(q)
      BY <2>0, <3>6, <3>7 DEF Placed
    <3>4. req' \in [Requests -> Reqs] /\ PcOK'
      BY <2>m, <3>2, <3>5, <3>8
    <3>. QED  BY <2>4, <3>1, <3>3, <3>4, Zenon DEF Create, TypeInv, TypeOK
  <2>s. ASSUME NEW s \in Servers, Selected(r, s), R.pc = "select"
        PROVE  req' \in [Requests -> Reqs] /\ PcOK'
    <3>. DEFINE q == [R EXCEPT !.pc = "checkout", !.server = s]
    <3>1. q \in Reqs
      BY <2>0, Zenon DEF Reqs, Pcs
    <3>2. Move(r, q)
      BY <2>s DEF Selected
    <3>3. /\ q.pc = "checkout" /\ q.kind = R.kind /\ q.mongo = R.mongo
          /\ q.lsid = R.lsid /\ q.server = s
      BY <2>0 DEF Reqs
    <3>. HIDE DEF q
    <3>4. Placed(q)
      BY <2>0, <2>s, <3>3 DEF Placed
    <3>. QED  BY <2>m, <3>1, <3>2, <3>4
  <2>5. CASE Select(r)
    <3>1. \E s \in Servers : Selected(r, s)
      <4>1. CASE R.obj # NoObj /\ HasPinnedServer(sess[R.obj]) /\ Selected(r, sess[R.obj].server)
        <5>1. sess[R.obj] \in SessionRecords
          BY <2>0, <4>1 DEF Reqs, TypeInv, TypeOK
        <5>. QED  BY <4>1, <5>1 DEF HasPinnedServer, SessionRecords
      <4>2. CASE Cached(r) # NoServer /\ Selected(r, Cached(r))
        <5>1. Cached(r) \in Servers \cup {NoServer}
          <6>1. R.mongo \in Mongos /\ R.lsid \in Lsids \cup {NoLsid}
                /\ R.cursor \in CursorIds \cup {NoCursor}
            BY <2>0, <2>5 DEF Select, Reqs, Placed
          <6>2. R.lsid # NoLsid => txns[R.mongo][R.lsid] \in Servers \cup {NoServer}
            BY <6>1 DEF TypeInv, TypeOK
          <6>3. R.cursor # NoCursor =>
                  cursors[R.mongo][R.cursor] \in Servers \cup {NoServer}
            BY <6>1 DEF TypeInv, TypeOK
          <6>. QED  BY <6>2, <6>3 DEF Cached
        <5>. QED  BY <4>2, <5>1
      <4>3. CASE \E a \in Addrs : Selected(r, <<R.mongo, a>>)
        BY <2>0, <2>5, <4>3 DEF Select, Placed, Servers
      <4>. QED  BY <2>5, <4>1, <4>2, <4>3 DEF Select
    <3>. QED  BY <2>5, <2>s, <3>1 DEF Select, TypeInv, TypeOK
  <2>t. ASSUME Move(r, Retried(R)), R.pc # "idle"
        PROVE  req' \in [Requests -> Reqs] /\ PcOK'
    <3>1. Retried(R) \in Reqs /\ Placed(Retried(R))
      BY <2>0, <2>t, RetriedTyping DEF Placed
    <3>. QED  BY <2>t, <2>m, <3>1
  <2>6. CASE SelectFails(r)
    BY <2>6, <2>g, <2>t DEF SelectFails, TypeInv, TypeOK
  <2>7. CASE Checkout(r)
    <3>1. PICK c \in Conns \cup {NoConn} :
            /\ Move(r, [R EXCEPT !.pc = "txn", !.conn = c])
            /\ out' = out \/ (c \in Conns /\ out' = out \cup {c})
      <4>1. CASE R.obj # NoObj /\ HasPinnedConnection(sess[R.obj])
        <5>1. sess[R.obj].conn \in Conns \cup {NoConn}
          BY <2>0, <4>1 DEF Reqs, SessionRecords, TypeInv, TypeOK
        <5>. QED  BY <2>7, <4>1, <5>1, Zenon DEF Checkout
      <4>2. CASE ~ (R.obj # NoObj /\ HasPinnedConnection(sess[R.obj]))
        <5>1. \A h \in Handles : <<R.server, h>> \in Conns
          BY <2>0, <2>7, Zenon DEF Checkout, Placed, Conns
        <5>. QED  BY <2>7, <4>2, <5>1, Zenon DEF Checkout
      <4>. QED  BY <4>1, <4>2, Zenon
    <3>. DEFINE q == [R EXCEPT !.pc = "txn", !.conn = c]
    <3>5. q \in Reqs
      BY <2>0, ZenonT(30) DEF Reqs, Pcs
    <3>6. q.pc = "txn" /\ q.kind = R.kind /\ q.mongo = R.mongo /\ q.lsid = R.lsid
      BY <2>0 DEF Reqs
    <3>3. Move(r, q)
      BY <3>1
    <3>7. R.pc = "checkout"
      BY <2>7, Zenon DEF Checkout
    <3>. HIDE DEF q
    <3>2. q \in Reqs /\ Placed(q)
      BY <2>0, <3>5, <3>6, <3>7 DEF Placed
    <3>4. req' \in [Requests -> Reqs] /\ PcOK'
      BY <2>m, <3>2, <3>3
    <3>. QED  BY <2>7, <3>1, <3>4, Zenon DEF Checkout, TypeInv, TypeOK
  <2>8. CASE CheckoutFails(r)
    BY <2>8, <2>t DEF CheckoutFails, TypeInv, TypeOK
  <2>p. ASSUME NEW calls \in Seq(DeferredCalls), Proceed(r, calls), R.pc = "txn"
        PROVE  req' \in [Requests -> Reqs] /\ PcOK'
    <3>. DEFINE d == calls \o R.defers
                q == [R EXCEPT !.pc = "wire", !.defers = d]
    <3>1. d \in Seq(DeferredCalls)
      BY <2>0, DefersTyping DEF Reqs
    <3>2. Move(r, q)
      BY <2>p DEF Proceed
    <3>. HIDE DEF d
    <3>4. q \in Reqs
      BY <2>0, <3>1, Zenon DEF Reqs, Pcs
    <3>5. q.pc = "wire" /\ q.kind = R.kind /\ q.mongo = R.mongo /\ q.lsid = R.lsid
      BY <2>0 DEF Reqs
    <3>. HIDE DEF q
    <3>3. q \in Reqs /\ Placed(q)
      BY <2>0, <2>p, <3>4, <3>5 DEF Placed
    <3>. QED  BY <2>m, <3>2, <3>3
  <2>9. CASE Transaction(r)
    <3>1. R.conn \in Conns \cup {NoConn} /\ R.server \in Servers \cup {NoServer}
      BY <2>0 DEF Reqs
    <3>2. /\ CloseLater(R.conn) \in Seq(DeferredCalls)
          /\ CloseAndForget(R.conn) \in Seq(DeferredCalls)
      BY <3>1, DefersTyping
    <3>3. req' \in [Requests -> Reqs] /\ PcOK'
      BY <2>9, <2>p, <3>2 DEF Transaction
    <3>4. sess' \in [Objs -> SessionRecords]
      <4>. DEFINE o == R.obj
      <4>1. ASSUME NEW s, o \in Objs => s \in SessionRecords,
                   sess' = [sess EXCEPT ![o] = s]
            PROVE  sess' \in [Objs -> SessionRecords]
        BY <4>1, Zenon DEF TypeInv, TypeOK
      <4>2. o \in Objs => sess[o] \in SessionRecords
        BY DEF TypeInv, TypeOK
      <4>3. o \in Objs =>
              /\ StartTransaction(sess[o], R.server, R.conn) \in SessionRecords
              /\ CommitTransaction(sess[o]) \in SessionRecords
              /\ AbortTransaction(sess[o]) \in SessionRecords
              /\ EndSession(sess[o]) \in SessionRecords
        BY <3>1, <4>2, SessionTyping
      <4>. HIDE DEF o
      <4>. QED  BY <2>9, <4>1, <4>3 DEF Transaction, TypeInv, TypeOK, o
    <3>5. sessions' \in [Lsids -> Objs \cup {NoObj}]
      BY <2>9, Zenon DEF Transaction, EndSessionEntry, TypeInv, TypeOK
    <3>. QED  BY <2>9, <3>3, <3>4, <3>5 DEF Transaction, TypeInv, TypeOK
  <2>10. CASE TransactionRefused(r)
    BY <2>10, <2>g DEF TransactionRefused, TypeInv, TypeOK
  <2>11. CASE WireOk(r)
    <3>1. PICK k \in CursorIds \cup {NoCursor} :
            Move(r, [R EXCEPT !.pc = IF R.kind = "unack" THEN "return" ELSE "reply",
                              !.sent = @ + 1, !.reply = k])
      BY <2>11, Zenon DEF WireOk
    <3>. DEFINE pc == IF R.kind = "unack" THEN "return" ELSE "reply"
                n == R.sent + 1
                q == [R EXCEPT !.pc = pc, !.sent = n, !.reply = k]
    <3>2. pc \in Pcs /\ pc \in {"return", "reply"} /\ n \in Nat
      BY <2>0 DEF Pcs, Reqs
    <3>3. Move(r, q)
      BY <3>1
    <3>. HIDE DEF pc, n
    <3>a. R.pc = "wire"
      BY <2>11 DEF WireOk
    <3>b. q \in Reqs
      BY <2>0, <3>2, Zenon DEF Reqs
    <3>c. q.pc = pc /\ q.kind = R.kind /\ q.mongo = R.mongo /\ q.lsid = R.lsid
      BY <2>0 DEF Reqs
    <3>. HIDE DEF q
    <3>4. q \in Reqs /\ Placed(q)
      BY <2>0, <3>a, <3>b, <3>c, <3>2 DEF Placed
    <3>5. req' \in [Requests -> Reqs] /\ PcOK'
      BY <2>m, <3>3, <3>4
    <3>6. R.conn[1] \in Servers
      BY <2>11 DEF WireOk, Conns, TypeInv, TypeOK
    <3>7. home' \in [CursorIds -> Servers \cup {NoServer}]
      BY <2>11, <3>6 DEF WireOk, TypeInv, TypeOK
    <3>. QED  BY <2>11, <3>5, <3>7 DEF WireOk, TypeInv, TypeOK
  <2>12. CASE WireFails(r)
    <3>. DEFINE n == R.sent + 1
                q == [R EXCEPT !.sent = n]
                z == [q EXCEPT !.pc = "return"]
    <3>1. n \in Nat
      BY <2>0 DEF Reqs
    <3>a. Move(r, Retried(q)) \/ Move(r, z) \/ Goto(r, "return")
      BY <2>12 DEF WireFails
    <3>. HIDE DEF n
    <3>c. q \in Reqs
      BY <2>0, <3>1 DEF Reqs
    <3>d. R.pc = "wire"
      BY <2>12 DEF WireFails
    <3>e. q.pc = R.pc /\ q.kind = R.kind /\ q.mongo = R.mongo /\ q.lsid = R.lsid
      BY <2>0 DEF Reqs
    <3>. HIDE DEF q
    <3>f. z \in Reqs
      BY <3>c DEF Reqs, Pcs
    <3>g. z.pc = "return" /\ z.kind = q.kind /\ z.mongo = q.mongo /\ z.lsid = q.lsid
      BY <3>c DEF Reqs
    <3>. HIDE DEF z
    <3>2. q \in Reqs /\ Placed(q)
      BY <2>0, <3>c, <3>d, <3>e DEF Placed
    <3>3. z \in Reqs /\ Placed(z)
      BY <3>2, <3>d, <3>e, <3>f, <3>g DEF Placed
    <3>b. R.pc = "wire" /\ q.mongo = R.mongo /\ q.pc = "wire"
      BY <3>d, <3>e
    <3>4. Retried(q) \in Reqs /\ Placed(Retried(q))
      BY <3>2, <3>b, RetriedTyping DEF Placed
    <3>5. req' \in [Requests -> Reqs] /\ PcOK'
      BY <2>g, <2>m, <3>a, <3>b, <3>3, <3>4
    <3>. QED  BY <2>12, <3>5 DEF WireFails, TypeInv, TypeOK
  <2>13. CASE Reply(r)
    <3>1. req' \in [Requests -> Reqs] /\ PcOK'
      BY <2>13, <2>g DEF Reply
    <3>2. R.server \in Servers \cup {NoServer} /\ R.mongo \in Mongos
      BY <2>0, <2>13 DEF Reply, Reqs, Placed
    <3>3. cursors' \in [Mongos -> [CursorIds -> Servers \cup {NoServer}]]
      BY <2>13, <3>2, Zenon DEF Reply, TypeInv, TypeOK
    <3>4. txns' \in [Mongos -> [Lsids -> Servers \cup {NoServer}]]
      <4>. DEFINE f == [l \in Lsids |->
                          IF l # R.lsid THEN txns[R.mongo][l]
                          ELSE IF R.kind = "start" THEN R.server
                          ELSE IF R.kind \in {"commit", "abort"} THEN NoServer
                          ELSE txns[R.mongo][l]]
      <4>1. f \in [Lsids -> Servers \cup {NoServer}]
        BY <3>2 DEF TypeInv, TypeOK
      <4>2. txns' = [txns EXCEPT ![R.mongo] = f]
        BY <2>13 DEF Reply
      <4>. HIDE DEF f
      <4>. QED  BY <3>2, <4>1, <4>2 DEF TypeInv, TypeOK
    <3>. QED  BY <2>13, <3>1, <3>3, <3>4, Zenon DEF Reply, TypeInv, TypeOK
  <2>14. CASE RunDefer(r)
    <3>. DEFINE d == Tail(R.defers)
                q == [R EXCEPT !.defers = d]
    <3>1. d \in Seq(DeferredCalls)
      BY <2>0, <2>14, DefersTyping DEF RunDefer, Reqs
    <3>2. Move(r, q)
      BY <2>14 DEF RunDefer
    <3>. HIDE DEF d
    <3>6. q \in Reqs
      BY <2>0, <3>1, Zenon DEF Reqs
    <3>7. q.pc = R.pc /\ q.kind = R.kind /\ q.mongo = R.mongo /\ q.lsid = R.lsid
      BY <2>0 DEF Reqs
    <3>8. R.pc = "return"
      BY <2>14 DEF RunDefer
    <3>. HIDE DEF q
    <3>3. q \in Reqs /\ Placed(q)
      BY <2>0, <3>6, <3>7, <3>8 DEF Placed
    <3>4. req' \in [Requests -> Reqs] /\ PcOK'
      BY <2>m, <3>2, <3>3
    <3>5. sess' \in [Objs -> SessionRecords]
      <4>1. \A o \in Objs : /\ ResetTransactionState(sess[o]) \in SessionRecords
                             /\ UnpinTransaction(sess[o]) \in SessionRecords
        BY SessionTyping, Zenon DEF TypeInv, TypeOK
      <4>2. CASE sess' = sess
        BY <4>2 DEF TypeInv, TypeOK
      <4>3. CASE sess' = [sess EXCEPT ![R.obj] = ResetTransactionState(sess[R.obj])]
        BY <4>1, <4>3, Zenon DEF TypeInv, TypeOK
      <4>4. CASE sess' = [sess EXCEPT ![R.obj] = UnpinTransaction(sess[R.obj])]
        BY <4>1, <4>4, Zenon DEF TypeInv, TypeOK
      <4>. QED  BY <2>14, <4>2, <4>3, <4>4, Zenon DEF RunDefer
    <3>. QED  BY <2>14, <3>4, <3>5 DEF RunDefer, TypeInv, TypeOK
  <2>15. CASE Return(r)
    <3>1. Idle \in Reqs /\ Placed(Idle)
      BY ConstantsAssumption
      DEF Idle, Reqs, AllKinds, Pcs, Attempts, Placed, TxnKinds
    <3>. QED  BY <2>15, <2>m, <3>1 DEF Return, TypeInv, TypeOK
  <2>. QED
    BY <1>r, <2>1, <2>2, <2>3, <2>4, <2>5, <2>6, <2>7, <2>8, <2>9, <2>10, <2>11,
       <2>12, <2>13, <2>14, <2>15 DEF Progress
<1>c. CASE CleanupInactiveSessions
  BY <1>c DEF CleanupInactiveSessions, TypeInv, TypeOK, PcOK, Placed
<1>e. ASSUME NEW m \in Mongos, NEW l \in Lsids, TransactionExpires(m, l)
      PROVE  TypeInv'
  BY <1>e, Zenon DEF TransactionExpires, TypeInv, TypeOK, PcOK, Placed
<1>m. ASSUME NEW m \in Mongos, CloseCall(m) \/ CloseFinish(m)
      PROVE  TypeInv'
  BY <1>m, Zenon DEF CloseCall, CloseFinish, TypeInv, TypeOK, PcOK, Placed
<1>. QED  BY <1>u, <1>r, <1>c, <1>e, <1>m DEF Next

\* Whatever requests arrive and however the driver fails them, the locals of
\* RoundTrip, the sessions and the caches keep their types.
THEOREM TypeCorrect == Spec => []TypeOK
<1>1. TypeInv => TypeOK
  BY DEF TypeInv
<1>. QED  BY TypeInit, TypeStep, <1>1, PTL DEF Spec

-----------------------------------------------------------------------------
(* Close *)

\* Once Mongo.Close has disconnected a client no request of it is beyond the
\* checks at the top of RoundTrip: the write lock waits for every reader.
THEOREM QuietAfterCloseCorrect == Spec => []QuietAfterClose
<1>1. Init => QuietAfterClose
  BY DEF Init, QuietAfterClose, HoldsRLock, Idle
<1>2. TypeInv /\ QuietAfterClose /\ [Next]_vars => QuietAfterClose'
  <2>. SUFFICES ASSUME TypeInv, QuietAfterClose, [Next]_vars, NEW r \in Requests,
                       HoldsRLock(r)', mu'[req'[r].mongo] = "closed"
                PROVE  req'[r].pc = "return"
    BY DEF QuietAfterClose, HoldsRLock
  <2>. DEFINE R == req[r]
  <2>0. R \in Reqs /\ req \in [Requests -> Reqs]
    BY DEF TypeInv, TypeOK
  <2>1. req'[r] = R /\ mu' = mu => req'[r].pc = "return"
    BY DEF QuietAfterClose, HoldsRLock
  <2>2. ASSUME NEW p \in Requests, NEW q, p # r, Move(p, q), mu' = mu
        PROVE  req'[r].pc = "return"
    BY <2>0, <2>1, <2>2 DEF Move
  <2>4. ASSUME NEW q, Move(r, q) PROVE req'[r] = q
    BY <2>0, <2>4 DEF Move
  <2>5. ASSUME NEW p \in Requests, Arrive(p) PROVE req'[r].pc = "return"
    <3>1. PICK k, m, l, c : Move(p, [req[p] EXCEPT !.pc = "lock", !.kind = k,
                                       !.mongo = m, !.lsid = l, !.cursor = c])
      BY <2>5, Zenon DEF Arrive
    <3>2. mu' = mu
      BY <2>5 DEF Arrive
    <3>3. CASE p = r
      <4>1. req'[r].pc = "lock"
        BY <2>0, <2>4, <3>1, <3>3, Zenon DEF Reqs
      <4>. QED  BY <4>1 DEF HoldsRLock
    <3>. QED  BY <2>2, <3>1, <3>2, <3>3
  <2>6. ASSUME NEW p \in Requests, Enter(p) PROVE req'[r].pc = "return"
    <3>1. PICK pc : Goto(p, pc) /\ (pc = "return" \/ mu[req[p].mongo] = "open")
      BY <2>6 DEF Enter
    <3>2. mu' = mu
      BY <2>6 DEF Enter
    <3>3. CASE p = r
      <4>1. req'[r].pc = pc /\ req'[r].mongo = R.mongo
        BY <2>0, <2>4, <3>1, <3>3 DEF Reqs, Goto
      <4>. QED  BY <3>1, <3>2, <3>3, <4>1
    <3>. QED  BY <2>2, <3>1, <3>2, <3>3 DEF Goto
  <2>7. ASSUME NEW p \in Requests, mu' = mu, \E q : Move(p, q),
               req[p].pc \notin {"idle", "lock", "return"},
               req'[p].mongo = req[p].mongo
        PROVE  req'[r].pc = "return"
    BY <2>2, <2>7 DEF QuietAfterClose, HoldsRLock
  <2>8. ASSUME NEW p \in Requests,
               \/ Lookup(p) \/ Create(p) \/ Select(p) \/ Checkout(p) \/ Transaction(p)
               \/ TransactionRefused(p) \/ WireOk(p) \/ WireFails(p) \/ Reply(p)
               \/ SelectFails(p) \/ CheckoutFails(p)
        PROVE  req'[r].pc = "return"
    <3>0. req[p] \in Reqs
      BY <2>0
    <3>1. /\ req[p].pc \notin {"idle", "lock", "return"} /\ mu' = mu
      BY <2>8, <3>0, Zenon DEF Lookup, Create, Select, Checkout, Transaction, TransactionRefused,
           WireOk, WireFails, Reply, SelectFails, CheckoutFails, Reqs
    <3>2. \E q : Move(p, q)
      BY <2>8, Zenon DEF Lookup, Create, Select, Selected, Checkout, Transaction, Proceed,
           TransactionRefused, Goto, WireOk, WireFails, Reply, SelectFails, CheckoutFails
    <3>3. req'[p].mongo = req[p].mongo
      <4>1. CASE Lookup(p)
        BY <2>0, <3>0, <4>1 DEF Lookup, Move, Reqs
      <4>2. CASE Create(p)
        BY <2>0, <3>0, <4>2 DEF Create, Move, Reqs
      <4>3. CASE Select(p)
        <5>1. PICK srv : Selected(p, srv)
          BY <4>3, Zenon DEF Select
        <5>. QED  BY <2>0, <3>0, <5>1 DEF Selected, Move, Reqs
      <4>4. CASE Checkout(p)
        <5>1. PICK c : Move(p, [req[p] EXCEPT !.pc = "txn", !.conn = c])
          BY <4>4, Zenon DEF Checkout
        <5>. QED  BY <2>0, <3>0, <5>1 DEF Move, Reqs
      <4>5. CASE Transaction(p)
        <5>1. PICK calls : Proceed(p, calls)
          BY <4>5, Zenon DEF Transaction
        <5>2. PICK d : Move(p, [req[p] EXCEPT !.pc = "wire", !.defers = d])
          BY <5>1, Zenon DEF Proceed
        <5>. QED  BY <2>0, <3>0, <5>2 DEF Move, Reqs
      <4>6. CASE TransactionRefused(p) \/ Reply(p)
        BY <2>0, <3>0, <4>6 DEF TransactionRefused, Reply, Goto, Move, Reqs
      <4>7. CASE WireOk(p)
        BY <2>0, <3>0, <4>7 DEF WireOk, Move, Reqs
      <4>8. CASE WireFails(p)
        <5>. DEFINE n == req[p].sent + 1
                    q == [req[p] EXCEPT !.sent = n]
        <5>1. \/ Move(p, Retried(q)) \/ Move(p, [q EXCEPT !.pc = "return"])
              \/ Move(p, [req[p] EXCEPT !.pc = "return"])
          BY <4>8 DEF WireFails, Goto
        <5>2. /\ Retried(q).mongo = req[p].mongo
              /\ [q EXCEPT !.pc = "return"].mongo = req[p].mongo
              /\ [req[p] EXCEPT !.pc = "return"].mongo = req[p].mongo
          BY <3>0 DEF Retried, Reqs
        <5>. HIDE DEF q
        <5>. QED  BY <2>0, <5>1, <5>2, Zenon DEF Move
      <4>9. CASE SelectFails(p) \/ CheckoutFails(p)
        <5>1. \/ Move(p, Retried(req[p])) \/ Move(p, [req[p] EXCEPT !.pc = "return"])
          BY <4>9 DEF SelectFails, CheckoutFails, Goto
        <5>2. /\ Retried(req[p]).mongo = req[p].mongo
              /\ [req[p] EXCEPT !.pc = "return"].mongo = req[p].mongo
          BY <3>0 DEF Retried, Reqs
        <5>. QED  BY <2>0, <5>1, <5>2, Zenon DEF Move
      <4>. QED  BY <2>8, <4>1, <4>2, <4>3, <4>4, <4>5, <4>6, <4>7, <4>8, <4>9, Zenon
    <3>. QED  BY <2>7, <3>1, <3>2, <3>3
  <2>9. ASSUME NEW p \in Requests, RunDefer(p) \/ Return(p) PROVE req'[r].pc = "return"
    <3>1. CASE RunDefer(p)
      BY <2>0, <2>1, <3>1 DEF RunDefer, Move, Reqs
    <3>2. CASE Return(p)
      BY <2>0, <2>1, <3>2 DEF Return, Move, Idle, HoldsRLock
    <3>. QED  BY <2>9, <3>1, <3>2
  <2>10. ASSUME NEW m \in Mongos, CloseCall(m) \/ CloseFinish(m)
         PROVE  req'[r].pc = "return"
    <3>1. req' = req /\ mu' \in [Mongos -> {"open", "closing", "closed"}]
      BY <2>10, Zenon DEF CloseCall, CloseFinish, TypeInv, TypeOK
    <3>2. HoldsRLock(r) /\ R.mongo \in Mongos
      BY <3>1 DEF HoldsRLock, TypeInv, PcOK, Placed
    <3>3. CASE CloseCall(m)
      <4>1. mu[R.mongo] = "closed"
        BY <3>1, <3>2, <3>3 DEF CloseCall, TypeInv, TypeOK
      <4>. QED  BY <3>1, <3>2, <4>1 DEF QuietAfterClose, HoldsRLock
    <3>4. CASE CloseFinish(m)
      <4>1. R.mongo # m
        BY <3>2, <3>4 DEF CloseFinish
      <4>2. mu[R.mongo] = "closed"
        BY <3>1, <3>2, <3>4, <4>1, Zenon DEF CloseFinish, TypeInv, TypeOK
      <4>. QED  BY <3>1, <3>2, <4>2 DEF QuietAfterClose, HoldsRLock
    <3>. QED  BY <2>10, <3>3, <3>4
  <2>11. CASE UNCHANGED vars \/ CleanupInactiveSessions
              \/ \E m \in Mongos, l \in Lsids : TransactionExpires(m, l)
    BY <2>1, <2>11 DEF vars, CleanupInactiveSessions, TransactionExpires
  <2>. QED  BY <2>5, <2>6, <2>8, <2>9, <2>10, <2>11, Zenon DEF Next, Progress
<1>. QED  BY <1>1, <1>2, TypeInit, TypeStep, PTL DEF Spec

-----------------------------------------------------------------------------
(* Requests that overlap *)

\* The calls a commit or abort defers, as they are run one by one
LEMMA ForgetStack ==
  ASSUME NEW c
  PROVE  /\ CloseAndForget(c) # <<>>
         /\ Head(CloseAndForget(c)) = [call |-> "close", conn |-> c]
         /\ Tail(CloseAndForget(c)) = <<ResetCall, UnpinCall>>
         /\ <<ResetCall, UnpinCall>> # <<>>
         /\ Head(<<ResetCall, UnpinCall>>) = ResetCall
         /\ Tail(<<ResetCall, UnpinCall>>) = <<UnpinCall>>
         /\ <<UnpinCall>> # <<>> /\ Head(<<UnpinCall>>) = UnpinCall
         /\ Tail(<<UnpinCall>>) = <<>>
<1>1. \A x, y, z : /\ <<x, y, z>> # <<>> /\ <<y, z>> # <<>> /\ <<z>> # <<>>
                   /\ Head(<<x, y, z>>) = x /\ Head(<<y, z>>) = y /\ Head(<<z>>) = z
  OBVIOUS
<1>2. \A x, y, z : Tail(<<x, y, z>>) = <<y, z>>
  OBVIOUS
<1>3. \A y, z : Tail(<<y, z>>) = <<z>>
  OBVIOUS
<1>4. \A z : Tail(<<z>>) = <<>>
  OBVIOUS
<1>. QED  BY <1>1, <1>2, <1>3, <1>4 DEF CloseAndForget, ResetCall, UnpinCall

\* Pushing a deferred call adds it to those on the stack
LEMMA PushStack ==
  ASSUME NEW S, NEW x \in S, NEW t \in Seq(S), NEW i \in DOMAIN (<<x>> \o t)
  PROVE  (<<x>> \o t)[i] = x \/ \E j \in DOMAIN t : (<<x>> \o t)[i] = t[j]
<1>1. /\ <<x>> \in Seq(S) /\ Len(<<x>>) = 1 /\ Len(t) \in Nat
      /\ DOMAIN t = 1 .. Len(t)
  OBVIOUS
<1>2. Len(<<x>> \o t) = 1 + Len(t) /\ DOMAIN (<<x>> \o t) = 1 .. (1 + Len(t))
  BY <1>1
<1>3. (<<x>> \o t)[i] = IF i <= 1 THEN <<x>>[i] ELSE t[i - 1]
  BY <1>1, <1>2
<1>4. i \in Nat /\ i >= 1 /\ i <= 1 + Len(t)
  BY <1>1, <1>2
<1>. QED  BY <1>1, <1>3, <1>4

\* Running a deferred call takes the first one off the stack
LEMMA PopStack ==
  ASSUME NEW S, NEW t \in Seq(S), t # <<>>
  PROVE  /\ 1 \in DOMAIN t /\ Head(t) = t[1]
         /\ \A i \in DOMAIN Tail(t) : \E j \in DOMAIN t : Tail(t)[i] = t[j]
<1>1. /\ Len(t) \in Nat /\ Len(t) >= 1 /\ DOMAIN t = 1 .. Len(t) /\ Head(t) = t[1]
      /\ Len(Tail(t)) = Len(t) - 1 /\ DOMAIN Tail(t) = 1 .. (Len(t) - 1)
  OBVIOUS
<1>2. \A i \in DOMAIN Tail(t) : Tail(t)[i] = t[i + 1] /\ i + 1 \in DOMAIN t
  BY <1>1
<1>. QED  BY <1>1, <1>2

\* What the steps that touch neither sessions nor connections do to a request
Quietly(R, q) ==
  /\ q.kind = R.kind /\ q.obj = R.obj /\ q.defers = R.defers
  /\ q.pc \in {"lookup", "select", "checkout", "reply", "return"}
  /\ R.pc \in {"lock", "select", "checkout", "txn", "wire", "reply"}
  /\ R.pc = "txn" => q.pc = "return"
  /\ q.pc = "lookup" => R.pc = "lock"
  /\ q.pc = "reply" => R.pc = "wire"
  /\ R.pc = "lock" => q.pc \in {"lookup", "return"} \/ q.kind \notin TxnKinds
  /\ \/ q.sent = R.sent
     \/ R.pc = "wire" /\ q.sent = R.sent + 1

LEMMA QuietSteps ==
  ASSUME TypeInv, NEW r \in Requests,
         \/ Enter(r) \/ Select(r) \/ SelectFails(r) \/ CheckoutFails(r)
         \/ TransactionRefused(r) \/ WireOk(r) \/ WireFails(r) \/ Reply(r)
  PROVE  /\ UNCHANGED <<sess, sessions, out>>
         /\ \E q : Move(r, q) /\ Quietly(req[r], q)
<1>. DEFINE R == req[r]
<1>0. R \in Reqs
  BY DEF TypeInv, TypeOK
<1>1. UNCHANGED <<sess, sessions, out>>
  BY Zenon DEF Enter, Select, SelectFails, CheckoutFails, TransactionRefused, WireOk,
               WireFails, Reply
<1>. SUFFICES \E q : Move(r, q) /\ Quietly(R, q)
  BY <1>1
<1>g. ASSUME NEW pc \in {"lookup", "select", "return"}, Goto(r, pc),
             R.pc \in {"lock", "select", "checkout", "txn", "wire", "reply"},
             pc = "lookup" => R.pc = "lock",
             pc = "select" => R.pc = "lock" /\ R.kind \notin TxnKinds
      PROVE  \E q : Move(r, q) /\ Quietly(R, q)
  <2>. DEFINE q == [R EXCEPT !.pc = pc]
  <2>1. q.pc = pc /\ q.kind = R.kind /\ q.obj = R.obj /\ q.defers = R.defers /\ q.sent = R.sent
    BY <1>0 DEF Reqs
  <2>2. Move(r, q)
    BY <1>g DEF Goto
  <2>. HIDE DEF q
  <2>3. Quietly(R, q)
    BY <1>g, <2>1, Zenon DEF Quietly
  <2>. QED  BY <2>2, <2>3, Zenon
<1>t. ASSUME NEW s \in Reqs, Move(r, Retried(s)), R.pc \in {"select", "checkout", "wire"},
             s.kind = R.kind, s.obj = R.obj, s.defers = R.defers,
             s.sent = R.sent \/ (R.pc = "wire" /\ s.sent = R.sent + 1)
      PROVE  \E q : Move(r, q) /\ Quietly(R, q)
  <2>1. /\ Retried(s).pc \in {"select", "return"} /\ Retried(s).kind = s.kind
        /\ Retried(s).obj = s.obj /\ Retried(s).defers = s.defers /\ Retried(s).sent = s.sent
    BY <1>t DEF Retried, Reqs
  <2>2. Quietly(R, Retried(s))
    BY <1>t, <2>1, Zenon DEF Quietly
  <2>. QED  BY <1>t, <2>2, Zenon
<1>2. CASE Enter(r) \/ TransactionRefused(r) \/ Reply(r)
  <2>1. PICK pc \in {"lookup", "select", "return"} :
          /\ Goto(r, pc) /\ R.pc \in {"lock", "txn", "reply"}
          /\ pc = "lookup" => R.pc = "lock"
          /\ pc = "select" => R.pc = "lock" /\ R.kind \notin TxnKinds
    BY <1>2, Zenon DEF Enter, TransactionRefused, Reply
  <2>. QED  BY <1>g, <2>1, ZenonT(30)
<1>3. CASE Select(r)
  <2>1. PICK s : Selected(r, s)
    BY <1>3, Zenon DEF Select
  <2>. DEFINE q == [R EXCEPT !.pc = "checkout", !.server = s]
  <2>2. /\ q.pc = "checkout" /\ q.kind = R.kind /\ q.obj = R.obj /\ q.defers = R.defers
        /\ q.sent = R.sent
    BY <1>0 DEF Reqs
  <2>3. Move(r, q) /\ R.pc = "select"
    BY <1>3, <2>1, Zenon DEF Selected, Select
  <2>. HIDE DEF q
  <2>4. Quietly(R, q)
    BY <2>2, <2>3, Zenon DEF Quietly
  <2>. QED  BY <2>3, <2>4, Zenon
<1>4. CASE SelectFails(r) \/ CheckoutFails(r)
  <2>1. R.pc \in {"select", "checkout"} /\ (Move(r, Retried(R)) \/ Goto(r, "return"))
    BY <1>4, Zenon DEF SelectFails, CheckoutFails
  <2>. QED  BY <1>0, <1>g, <1>t, <2>1, Zenon
<1>5. CASE WireOk(r)
  <2>. DEFINE pc == IF R.kind = "unack" THEN "return" ELSE "reply"
              n == R.sent + 1
  <2>1. PICK k : Move(r, [R EXCEPT !.pc = pc, !.sent = n, !.reply = k])
    BY <1>5, Zenon DEF WireOk
  <2>. DEFINE q == [R EXCEPT !.pc = pc, !.sent = n, !.reply = k]
  <2>2. /\ q.pc \in {"return", "reply"} /\ q.kind = R.kind /\ q.obj = R.obj
        /\ q.defers = R.defers /\ q.sent = n
    BY <1>0 DEF Reqs
  <2>3. Move(r, q) /\ R.pc = "wire"
    BY <1>5, <2>1, Zenon DEF WireOk
  <2>. HIDE DEF q
  <2>4. Quietly(R, q)
    BY <2>2, <2>3, Zenon DEF Quietly
  <2>. QED  BY <2>3, <2>4, Zenon
<1>6. CASE WireFails(r)
  <2>. DEFINE n == R.sent + 1
              s == [R EXCEPT !.sent = n]
              z == [s EXCEPT !.pc = "return"]
  <2>1. R.pc = "wire" /\ (Move(r, Retried(s)) \/ Move(r, z) \/ Goto(r, "return"))
    BY <1>6 DEF WireFails
  <2>2. /\ s \in Reqs /\ s.kind = R.kind /\ s.obj = R.obj /\ s.defers = R.defers /\ s.sent = n
    <3>1. n \in Nat
      BY <1>0 DEF Reqs
    <3>. QED  BY <1>0, <3>1, Zenon DEF Reqs
  <2>3. /\ z.pc = "return" /\ z.kind = R.kind /\ z.obj = R.obj /\ z.defers = R.defers
        /\ z.sent = n
    BY <1>0 DEF Reqs
  <2>. HIDE DEF s, z
  <2>4. CASE Move(r, z)
    <3>1. Quietly(R, z)
      BY <2>1, <2>3, Zenon DEF Quietly
    <3>. QED  BY <2>4, <3>1, Zenon
  <2>. QED  BY <1>g, <1>t, <2>1, <2>2, <2>4, Zenon
<1>. QED  BY <1>1, <1>2, <1>3, <1>4, <1>5, <1>6, Zenon

\* RoundTrip has committed or aborted, and its stack still holds the reset
ToReset(q) == \/ \E c \in Conns \cup {NoConn} : q.defers = CloseAndForget(c)
              \/ q.defers = <<ResetCall, UnpinCall>>

\* What holds of each request however the requests of a session overlap: from
\* the commit or abort to the reset, the session accepts no other command that
\* starts or ends a transaction, so nothing else moves its transaction state
EnderReq(q) ==
  /\ q.pc = "idle" => q = Idle
  /\ q.pc \in {"lock", "lookup", "create"} => q.defers = <<>> /\ q.sent = 0
  /\ q.kind \in TxnKinds /\ q.pc \in {"select", "checkout", "txn", "wire", "reply"} =>
       q.obj \in Objs
  /\ ~ Ends(q) => \A i \in DOMAIN q.defers : q.defers[i].call = "closeUnlessActive"
  /\ Ends(q) =>
       \/ /\ q.defers = <<>> /\ q.pc \notin {"wire", "reply"}
          /\ q.sent = 0 \/ q.pc = "return"
       \/ q.defers = <<UnpinCall>> /\ q.pc = "return"
       \/ /\ ToReset(q) /\ q.obj \in Objs
          /\ sess[q.obj].txn \in {"committed", "aborted"}
          /\ q.sent \in {0, 1} /\ (q.pc = "wire" => q.sent = 0)

EnderInv ==
  /\ \A r \in Requests : EnderReq(req[r])
  /\ \A r, q \in Requests :
       r # q /\ ToReset(req[r]) /\ ToReset(req[q]) => req[r].obj # req[q].obj

\* The stacks a commit or abort leaves, told apart by the call on top
LEMMA ResetStacks ==
  ASSUME NEW q, ToReset(q)
  PROVE  /\ q.defers # <<>> /\ q.defers # <<UnpinCall>>
         /\ 1 \in DOMAIN q.defers /\ q.defers[1].call # "closeUnlessActive"
<1>1. \A x, y, z : /\ <<x, y, z>> # <<>> /\ <<y, z>> # <<>>
                   /\ <<x, y, z>> # <<z>> /\ <<y, z>> # <<z>>
                   /\ 1 \in DOMAIN <<x, y, z>> /\ 1 \in DOMAIN <<y, z>>
                   /\ <<x, y, z>>[1] = x /\ <<y, z>>[1] = y
  OBVIOUS
<1>2. ResetCall.call = "reset" /\ \A c : [call |-> "close", conn |-> c].call = "close"
  BY DEF ResetCall
<1>3. CASE q.defers = <<ResetCall, UnpinCall>>
  BY <1>1, <1>2, <1>3
<1>4. ASSUME NEW c, q.defers = CloseAndForget(c)
      PROVE  /\ q.defers # <<>> /\ q.defers # <<UnpinCall>>
             /\ 1 \in DOMAIN q.defers /\ q.defers[1].call # "closeUnlessActive"
  <2>1. q.defers = <<[call |-> "close", conn |-> c], ResetCall, UnpinCall>>
    BY <1>4 DEF CloseAndForget, ResetCall, UnpinCall
  <2>2. /\ q.defers # <<>> /\ q.defers # <<UnpinCall>> /\ 1 \in DOMAIN q.defers
    BY <1>1, <2>1, Len(<<UnpinCall>>) = 1, Len(q.defers) = 3
  <2>3. q.defers[1] = [call |-> "close", conn |-> c]
    BY <1>1, <2>1
  <2>. QED  BY <1>2, <2>2, <2>3
<1>. QED  BY <1>3, <1>4 DEF ToReset

\* A request that is to reset its session has ended the transaction
LEMMA Resetting ==
  ASSUME NEW q, EnderReq(q), ToReset(q)
  PROVE  /\ Ends(q) /\ q.obj \in Objs /\ sess[q.obj].txn \in {"committed", "aborted"}
         /\ q.sent \in {0, 1}
BY ResetStacks DEF EnderReq

\* A request that stands still, and its session, or nothing to reset in it
LEMMA EnderKept ==
  ASSUME NEW x, EnderReq(x), ToReset(x) => sess'[x.obj].txn = sess[x.obj].txn
  PROVE  EnderReq(x)'
<1>1. ToReset(x)' <=> ToReset(x)
  BY Zenon DEF ToReset, CloseAndForget, ResetCall, UnpinCall
<1>2. Ends(x)' <=> Ends(x)
  BY DEF Ends
<1>. QED  BY <1>1, <1>2, Zenon DEF EnderReq, Idle, UnpinCall

\* No request, nothing to reset
LEMMA EnderIdle == EnderReq(Idle) /\ EnderReq(Idle)' /\ ~ ToReset(Idle)
<1>1. Idle.pc = "idle" /\ Idle.kind = "plain" /\ Idle.defers = <<>> /\ Idle.sent = 0
  BY DEF Idle
<1>2. ~ Ends(Idle) /\ Idle.kind \notin TxnKinds
  BY <1>1 DEF Ends, TxnKinds
<1>3. \A i \in DOMAIN Idle.defers : FALSE
  BY <1>1
<1>4. EnderReq(Idle)
  BY <1>1, <1>2, <1>3 DEF EnderReq
<1>5. ~ ToReset(Idle)
  BY <1>1, ResetStacks
<1>. QED  BY <1>4, <1>5, EnderKept

\* A step of one request leaves the others as they are if it does not move the
\* transaction state of a session that another is to reset
LEMMA EnderMove ==
  ASSUME TypeInv, EnderInv, NEW r \in Requests, NEW q, Move(r, q), EnderReq(q)',
         \A p \in Requests \ {r} :
           ToReset(req[p]) => sess'[req[p].obj].txn = sess[req[p].obj].txn,
         ToReset(q) =>
           \A p \in Requests \ {r} : ToReset(req[p]) => req[p].obj # q.obj
  PROVE  EnderInv'
<1>1. req' = [p \in Requests |-> IF p = r THEN q ELSE req[p]]
  BY Zenon DEF Move, TypeInv, TypeOK
<1>2. \A p \in Requests : ToReset(req[p])' <=> ToReset(req'[p])
  BY Zenon DEF ToReset, CloseAndForget, ResetCall, UnpinCall
<1>4. ASSUME NEW p \in Requests PROVE EnderReq(req[p])'
  <2>1. CASE p = r
    BY <1>1, <2>1
  <2>2. CASE p # r
    <3>1. req'[p] = req[p] /\ EnderReq(req[p])
      BY <1>1, <2>2 DEF EnderInv
    <3>2. ToReset(req[p]) => sess'[req[p].obj].txn = sess[req[p].obj].txn
      BY <2>2
    <3>. QED  BY EnderKept, <3>1, <3>2, Zenon
  <2>. QED  BY <2>1, <2>2
<1>5. \A p, z \in Requests :
        p # z /\ ToReset(req'[p]) /\ ToReset(req'[z]) => req'[p].obj # req'[z].obj
  BY <1>1, ZenonT(30) DEF EnderInv
<1>. QED  BY <1>2, <1>4, <1>5, Zenon DEF EnderInv

\* The session accepts no start, commit or abort while another request is to
\* reset it
LEMMA EnderTransaction ==
  ASSUME TypeInv, EnderInv, NEW r \in Requests, Transaction(r)
  PROVE  EnderInv'
<1>. DEFINE R == req[r]
            o == R.obj
            c == R.conn
<1>0. /\ R \in Reqs /\ EnderReq(R) /\ R.pc = "txn" /\ R.defers \in Seq(DeferredCalls)
      /\ c \in Conns \cup {NoConn}
  BY Zenon DEF Transaction, EnderInv, TypeInv, TypeOK, Reqs
<1>1. R.kind \in TxnKinds => o \in Objs /\ sess[o] \in SessionRecords
  BY <1>0, Zenon DEF EnderReq, TypeInv, TypeOK
<1>2. \A p \in Requests : ToReset(req[p]) =>
        req[p].obj \in Objs /\ sess[req[p].obj].txn \in {"committed", "aborted"}
  BY Resetting DEF EnderInv
<1>a. ASSUME ~ Ends(R), Proceed(r, CloseLater(c)),
             \A p \in Objs : sess[p].txn \in {"committed", "aborted"} => sess'[p].txn = sess[p].txn
      PROVE  EnderInv'
  <2>. DEFINE x == [call |-> "closeUnlessActive", conn |-> c]
              d == <<x>> \o R.defers
              q == [R EXCEPT !.pc = "wire", !.defers = d]
  <2>1. Move(r, q)
    BY <1>a DEF Proceed, CloseLater
  <2>2. x \in DeferredCalls /\ x.call = "closeUnlessActive"
    BY <1>0 DEF DeferredCalls
  <2>. HIDE DEF x
  <2>3. \A i \in DOMAIN d : d[i] = x \/ \E j \in DOMAIN R.defers : d[i] = R.defers[j]
    BY <1>0, <2>2, PushStack
  <2>4. \A i \in DOMAIN d : d[i].call = "closeUnlessActive"
    BY <1>0, <1>a, <2>2, <2>3, Zenon DEF EnderReq
  <2>. HIDE DEF d
  <2>5. q.pc = "wire" /\ q.kind = R.kind /\ q.obj = o /\ q.defers = d
    BY <1>0 DEF Reqs
  <2>. HIDE DEF q
  <2>6. ASSUME NEW y, y = q PROVE EnderReq(y)' /\ ~ ToReset(y)
    <3>1. ~ Ends(y)
      BY <1>a, <2>5, <2>6 DEF Ends
    <3>2. y.kind \in TxnKinds => y.obj \in Objs
      BY <1>1, <2>5, <2>6
    <3>3. \A i \in DOMAIN y.defers : y.defers[i].call = "closeUnlessActive"
      BY <2>4, <2>5, <2>6
    <3>4. ~ ToReset(y)
      BY <3>3, ResetStacks
    <3>5. y.pc = "wire"
      BY <2>5, <2>6
    <3>. QED  BY <3>1, <3>2, <3>3, <3>4, <3>5 DEF EnderReq, Ends
  <2>7. \A p \in Requests : ToReset(req[p]) => sess'[req[p].obj].txn = sess[req[p].obj].txn
    BY <1>2, <1>a
  <2>8. ASSUME NEW y, y = q PROVE EnderInv'
    BY <2>1, <2>6, <2>7, <2>8, EnderMove
  <2>. QED  BY <2>8
<1>3. CASE /\ R.kind \notin TxnKinds \/ R.kind = "statement"
           /\ Proceed(r, CloseLater(c)) /\ UNCHANGED <<sess, sessions>>
  BY <1>3, <1>a DEF Ends, TxnKinds
<1>4. CASE /\ R.kind = "start" /\ CanStartTransaction(sess[o])
           /\ sess' = [sess EXCEPT ![o] = StartTransaction(sess[o], R.server, c)]
           /\ Proceed(r, CloseLater(c)) /\ UNCHANGED sessions
  <2>1. ~ Ends(R) /\ o \in Objs /\ sess[o].txn = "none"
    BY <1>1, <1>4, Zenon DEF Ends, TxnKinds, CanStartTransaction
  <2>2. \A p \in Objs : p # o => sess'[p] = sess[p]
    BY <1>4 DEF TypeInv, TypeOK
  <2>. QED  BY <1>4, <1>a, <2>1, <2>2, Zenon
<1>5. CASE /\ R.kind = "end" /\ sess' = [sess EXCEPT ![o] = EndSession(sess[o])]
           /\ EndSessionEntry(o) /\ Proceed(r, CloseLater(c))
  <2>1. ~ Ends(R) /\ o \in Objs /\ sess[o] \in SessionRecords
    BY <1>1, <1>5, Zenon DEF Ends, TxnKinds
  <2>2. sess'[o] = EndSession(sess[o]) /\ \A p \in Objs : p # o => sess'[p] = sess[p]
    BY <1>5, <2>1 DEF TypeInv, TypeOK
  <2>3. EndSession(sess[o]).txn = sess[o].txn \/ sess[o].txn = "in_progress"
    BY <2>1 DEF EndSession, SessionRecords
  <2>. QED  BY <1>5, <1>a, <2>1, <2>2, <2>3, Zenon
<1>6. CASE /\ R.kind \in {"commit", "abort"} /\ CanEndTransaction(sess[o])
           /\ sess' = [sess EXCEPT ![o] = IF R.kind = "commit"
                                          THEN CommitTransaction(sess[o])
                                          ELSE AbortTransaction(sess[o])]
           /\ Proceed(r, CloseAndForget(c)) /\ UNCHANGED sessions
  <2>1. o \in Objs /\ Ends(R) /\ sess[o].txn = "in_progress"
    BY <1>1, <1>6 DEF TxnKinds, Ends, CanEndTransaction
  <2>2. /\ sess'[o].txn \in {"committed", "aborted"}
        /\ \A p \in Objs : p # o => sess'[p] = sess[p]
    BY <1>1, <1>6, <2>1 DEF CommitTransaction, AbortTransaction, SessionRecords, TypeInv, TypeOK
  <2>3. R.defers = <<>> /\ R.sent = 0
    BY <1>0, <2>1, Zenon DEF EnderReq
  <2>4. CloseAndForget(c) \o R.defers = CloseAndForget(c)
    BY <1>0, <2>3, DefersTyping
  <2>. DEFINE d == CloseAndForget(c)
              q == [R EXCEPT !.pc = "wire", !.defers = d]
  <2>5. Move(r, q)
    BY <1>6, <2>4 DEF Proceed
  <2>. HIDE DEF d
  <2>6. q.pc = "wire" /\ q.kind = R.kind /\ q.obj = o /\ q.defers = d /\ q.sent = R.sent
    BY <1>0 DEF Reqs
  <2>. HIDE DEF q
  <2>7. ASSUME NEW y, y = q PROVE EnderReq(y)'
    <3>1. ToReset(y)'
      BY <1>0, <2>6, <2>7 DEF d, ToReset
    <3>2. Ends(y)' /\ y.pc = "wire" /\ y.obj = o /\ y.sent = 0
      BY <2>1, <2>3, <2>6, <2>7 DEF Ends
    <3>. QED  BY <2>1, <2>2, <3>1, <3>2, Zenon DEF EnderReq
  <2>8. \A p \in Requests : ToReset(req[p]) =>
          sess'[req[p].obj].txn = sess[req[p].obj].txn /\ req[p].obj # o
    BY <1>2, <2>1, <2>2, Zenon
  <2>9. ASSUME NEW y, y = q PROVE EnderInv'
    BY <2>5, <2>6, <2>7, <2>8, <2>9, EnderMove, Zenon
  <2>. QED  BY <2>9
<1>. QED  BY <1>3, <1>4, <1>5, <1>6, Zenon DEF Transaction

\* Only the request that ended the transaction resets its state
LEMMA EnderRunDefer ==
  ASSUME TypeInv, EnderInv, NEW r \in Requests, RunDefer(r)
  PROVE  EnderInv'
<1>. DEFINE R == req[r]
            o == R.obj
            d == Head(R.defers)
            t == Tail(R.defers)
            q == [R EXCEPT !.defers = t]
<1>0. /\ R \in Reqs /\ EnderReq(R) /\ R.pc = "return" /\ R.defers # <<>>
      /\ Move(r, q) /\ R.defers \in Seq(DeferredCalls)
  BY DEF RunDefer, EnderInv, TypeInv, TypeOK, Reqs
<1>. HIDE DEF t
<1>1. q.pc = "return" /\ q.kind = R.kind /\ q.obj = o /\ q.defers = t /\ q.sent = R.sent
  BY <1>0 DEF Reqs
<1>. HIDE DEF q, d
<1>2. CASE ~ Ends(R)
  <2>1. /\ d = R.defers[1] /\ 1 \in DOMAIN R.defers
        /\ \A i \in DOMAIN t : \E j \in DOMAIN R.defers : t[i] = R.defers[j]
    BY <1>0, PopStack, Zenon DEF t, d
  <2>2. d.call = "closeUnlessActive"
    BY <1>0, <1>2, <2>1, Zenon DEF EnderReq
  <2>3. sess' = sess
    BY <2>2 DEF RunDefer, d
  <2>4. \A i \in DOMAIN t : t[i].call = "closeUnlessActive"
    BY <1>0, <1>2, <2>1, Zenon DEF EnderReq
  <2>5. ASSUME NEW y, y = q PROVE EnderInv'
    <3>1. ~ Ends(y) /\ y.pc = "return" /\ y.defers = t
      BY <1>1, <1>2, <2>5, Zenon DEF Ends
    <3>2. ~ ToReset(y)
      BY <2>4, <3>1, ResetStacks, Zenon
    <3>3. EnderReq(y)'
      BY <2>4, <3>1 DEF EnderReq, Ends
    <3>. QED  BY <1>0, <2>3, <2>5, <3>2, <3>3, EnderMove, Zenon
  <2>. QED  BY <2>5
<1>a. ASSUME Ends(R), t = <<>> \/ t = <<UnpinCall>>,
             \A p \in Requests \ {r} :
               ToReset(req[p]) => sess'[req[p].obj].txn = sess[req[p].obj].txn
      PROVE  EnderInv'
  <2>1. ASSUME NEW y, y = q PROVE EnderInv'
    <3>1. Ends(y)' /\ y.pc = "return" /\ y.defers = t
      BY <1>1, <1>a, <2>1 DEF Ends
    <3>2. EnderReq(y)'
      BY <1>a, <3>1, Zenon DEF EnderReq, UnpinCall
    <3>3. ~ ToReset(y)
      BY <1>a, <3>1, ResetStacks
    <3>. QED  BY <1>0, <1>a, <2>1, <3>2, <3>3, EnderMove, Zenon
  <2>. QED  BY <2>1
<1>3. ASSUME NEW c, R.defers = CloseAndForget(c), ToReset(R), Ends(R) PROVE EnderInv'
  <2>1. d = [call |-> "close", conn |-> c] /\ t = <<ResetCall, UnpinCall>>
    BY <1>3, ForgetStack, Zenon DEF d, t
  <2>2. sess' = sess
    BY <2>1 DEF RunDefer, d
  <2>3. /\ o \in Objs /\ sess[o].txn \in {"committed", "aborted"} /\ R.sent \in {0, 1}
    BY <1>0, <1>3, Resetting, Zenon
  <2>4. ASSUME NEW y, y = q PROVE EnderInv'
    <3>1. /\ Ends(y)' /\ y.pc = "return" /\ y.defers = t /\ y.obj = o /\ y.sent = R.sent
          /\ ToReset(y)'
      BY <1>1, <1>3, <2>1, <2>4, Zenon DEF Ends, ToReset, ResetCall, UnpinCall
    <3>2. EnderReq(y)'
      BY <2>2, <2>3, <3>1, Zenon DEF EnderReq
    <3>3. \A p \in Requests \ {r} : ToReset(req[p]) => req[p].obj # y.obj
      BY <1>3, <3>1, Zenon DEF EnderInv
    <3>. QED  BY <1>0, <2>2, <2>4, <3>2, <3>3, EnderMove, Zenon
  <2>. QED  BY <2>4
<1>4. CASE R.defers = <<ResetCall, UnpinCall>> /\ Ends(R)
  <2>1. d = ResetCall /\ t = <<UnpinCall>> /\ ToReset(R)
    BY <1>4, ForgetStack DEF d, t, ToReset
  <2>2. sess' = [sess EXCEPT ![o] = ResetTransactionState(sess[o])]
    BY <2>1 DEF RunDefer, d, ResetCall
  <2>3. \A p \in Objs : p # o => sess'[p] = sess[p]
    BY <2>2 DEF TypeInv, TypeOK
  <2>4. \A p \in Requests \ {r} : ToReset(req[p]) => req[p].obj # o /\ req[p].obj \in Objs
    BY <2>1, Resetting, Zenon DEF EnderInv
  <2>. QED  BY <1>4, <1>a, <2>1, <2>3, <2>4, Zenon
<1>5. CASE R.defers = <<UnpinCall>> /\ Ends(R)
  <2>1. d = UnpinCall /\ t = <<>>
    BY <1>5, ForgetStack DEF d, t
  <2>2. sess' = [sess EXCEPT ![o] = UnpinTransaction(sess[o])]
    BY <2>1 DEF RunDefer, d, UnpinCall
  <2>3. \A p \in Objs : sess'[p].txn = sess[p].txn
    BY <2>2 DEF TypeInv, TypeOK, UnpinTransaction, SessionRecords
  <2>4. \A p \in Requests \ {r} : ToReset(req[p]) => req[p].obj \in Objs
    BY Resetting DEF EnderInv
  <2>. QED  BY <1>5, <1>a, <2>1, <2>3, <2>4, Zenon
<1>. QED  BY <1>0, <1>2, <1>3, <1>4, <1>5, Zenon DEF EnderReq, ToReset

\* Every step of every request keeps at most one of them to reset each session
LEMMA EnderStep ==
  ASSUME TypeInv, EnderInv, [Next]_vars
  PROVE  EnderInv'
<1>r. ASSUME NEW r \in Requests,
             Arrive(r) \/ Progress(r) \/ SelectFails(r) \/ CheckoutFails(r)
      PROVE  EnderInv'
  <2>. DEFINE R == req[r]
  <2>0. R \in Reqs /\ EnderReq(R) /\ Placed(R)
    BY DEF EnderInv, TypeInv, TypeOK, PcOK
  <2>a. ASSUME NEW y, Move(r, y), y.defers = <<>>, y.sent = 0,
               y.pc \in {"lock", "select", "create"}, sess' = sess,
               y.pc = "select" /\ y.kind \in TxnKinds => y.obj \in Objs
        PROVE  EnderInv'
    <3>1. EnderReq(y)'
      BY <2>a DEF EnderReq, Ends
    <3>2. ~ ToReset(y)
      BY <2>a, ResetStacks
    <3>. QED  BY <2>a, <3>1, <3>2, EnderMove, Zenon
  <2>1. CASE Arrive(r)
    <3>1. PICK k, m, l, c : Move(r, [R EXCEPT !.pc = "lock", !.kind = k, !.mongo = m,
                                             !.lsid = l, !.cursor = c])
      BY <2>1, Zenon DEF Arrive
    <3>. DEFINE q == [R EXCEPT !.pc = "lock", !.kind = k, !.mongo = m,
                               !.lsid = l, !.cursor = c]
    <3>2. R = Idle /\ sess' = sess
      BY <2>0, <2>1, Zenon DEF Arrive, EnderReq
    <3>3. q.defers = <<>> /\ q.sent = 0 /\ q.pc = "lock"
      BY <3>2 DEF Idle
    <3>4. Move(r, q)
      BY <3>1
    <3>. HIDE DEF q
    <3>5. ASSUME NEW y, y = q PROVE EnderInv'
      BY <2>a, <3>2, <3>3, <3>4, <3>5
    <3>. QED  BY <3>5
  <2>2. CASE \/ Enter(r) \/ Select(r) \/ SelectFails(r) \/ CheckoutFails(r)
             \/ TransactionRefused(r) \/ WireOk(r) \/ WireFails(r) \/ Reply(r)
    <3>1. PICK q : Move(r, q) /\ Quietly(R, q) /\ sess' = sess
      BY <2>2, QuietSteps
    <3>2. /\ q.kind = R.kind /\ q.obj = R.obj /\ q.defers = R.defers
          /\ q.pc \in {"lookup", "select", "checkout", "reply", "return"}
          /\ Ends(q) = Ends(R) /\ (ToReset(q) <=> ToReset(R))
      BY <3>1, Zenon DEF Quietly, Ends, ToReset
    <3>3. EnderReq(q)'
      <4>1. q.pc = "lookup" => q.defers = <<>> /\ q.sent = 0
        BY <2>0, <3>1, <3>2, Zenon DEF Quietly, EnderReq
      <4>2. q.kind \in TxnKinds /\ q.pc \in {"select", "checkout", "txn", "wire", "reply"} =>
              q.obj \in Objs
        BY <2>0, <3>1, <3>2, Zenon DEF Quietly, EnderReq
      <4>3. ~ Ends(q) => \A i \in DOMAIN q.defers : q.defers[i].call = "closeUnlessActive"
        BY <2>0, <3>2, Zenon DEF EnderReq
      <4>4. ASSUME Ends(q), ~ ToReset(q)
            PROVE  \/ /\ q.defers = <<>> /\ q.pc \notin {"wire", "reply"}
                      /\ q.sent = 0 \/ q.pc = "return"
                   \/ q.defers = <<UnpinCall>> /\ q.pc = "return"
        BY <2>0, <3>1, <3>2, <4>4, Zenon DEF Quietly, EnderReq
      <4>5. ASSUME Ends(q), ToReset(q)
            PROVE  /\ q.obj \in Objs /\ sess[q.obj].txn \in {"committed", "aborted"}
                   /\ q.sent \in {0, 1}
        <5>1. /\ R.obj \in Objs /\ sess[R.obj].txn \in {"committed", "aborted"}
              /\ R.sent \in {0, 1} /\ (R.pc = "wire" => R.sent = 0)
          BY <2>0, <3>2, <4>5, ResetStacks, Zenon DEF EnderReq
        <5>. QED  BY <3>1, <3>2, <5>1 DEF Quietly
      <4>6. (Ends(q)' <=> Ends(q)) /\ (ToReset(q)' <=> ToReset(q))
        BY DEF Ends, ToReset, CloseAndForget, ResetCall, UnpinCall
      <4>. QED  BY <3>1, <3>2, <4>1, <4>2, <4>3, <4>4, <4>5, <4>6, Zenon DEF EnderReq, UnpinCall
    <3>4. ToReset(q) => \A p \in Requests \ {r} : ToReset(req[p]) => req[p].obj # q.obj
      BY <3>2, Zenon DEF EnderInv
    <3>. QED  BY <3>1, <3>3, <3>4, EnderMove, Zenon
  <2>3. CASE Lookup(r)
    <3>. DEFINE o == sessions[R.lsid]
                found == IF o = NoObj THEN FALSE ELSE sess[o].state # "ended"
                pc == IF found THEN "select" ELSE "create"
                ob == IF found THEN o ELSE NoObj
                q == [R EXCEPT !.pc = pc, !.obj = ob]
    <3>1. Move(r, q) /\ R.pc = "lookup" /\ sess' = sess
      BY <2>3 DEF Lookup
    <3>2. R.lsid \in Lsids /\ R.defers = <<>> /\ R.sent = 0
      BY <2>0, <3>1 DEF EnderReq, Placed
    <3>3. pc \in {"select", "create"} /\ (pc = "select" => ob \in Objs)
      BY <3>2, Zenon DEF TypeInv, TypeOK
    <3>. HIDE DEF pc, ob
    <3>4. q.pc = pc /\ q.obj = ob /\ q.defers = <<>> /\ q.sent = 0
      BY <2>0, <3>2 DEF Reqs
    <3>. HIDE DEF q
    <3>5. ASSUME NEW y, y = q PROVE EnderInv'
      BY <2>a, <3>1, <3>3, <3>4, <3>5, Zenon
    <3>. QED  BY <3>5
  <2>4. CASE Create(r)
    <3>1. PICK o \in Objs : /\ Unreferenced(o)
                            /\ sess' = [sess EXCEPT ![o] = NewSession(R.lsid)]
                            /\ Move(r, [R EXCEPT !.pc = "select", !.obj = o])
      BY <2>4, Zenon DEF Create
    <3>. DEFINE q == [R EXCEPT !.pc = "select", !.obj = o]
    <3>2. R.pc = "create" /\ R.defers = <<>> /\ R.sent = 0
      BY <2>0, <2>4 DEF Create, EnderReq
    <3>3. q.pc = "select" /\ q.obj = o /\ q.defers = <<>> /\ q.sent = 0
      BY <2>0, <3>2 DEF Reqs
    <3>4. Move(r, q)
      BY <3>1
    <3>. HIDE DEF q
    <3>5. \A p \in Objs : p = o \/ sess'[p] = sess[p]
      BY <3>1 DEF TypeInv, TypeOK
    <3>6. \A p \in Requests : ToReset(req[p]) => sess'[req[p].obj] = sess[req[p].obj]
      BY <3>1, <3>5, Resetting DEF Unreferenced, EnderInv
    <3>7. ASSUME NEW y, y = q PROVE EnderInv'
      <4>1. EnderReq(y)'
        BY <3>3, <3>7 DEF EnderReq, Ends
      <4>2. ~ ToReset(y)
        BY <3>3, <3>7, ResetStacks
      <4>. QED  BY <3>4, <3>6, <3>7, <4>1, <4>2, EnderMove, Zenon
    <3>. QED  BY <3>7
  <2>5. CASE Checkout(r)
    <3>1. PICK c : Move(r, [R EXCEPT !.pc = "txn", !.conn = c])
      BY <2>5, Zenon DEF Checkout
    <3>. DEFINE q == [R EXCEPT !.pc = "txn", !.conn = c]
    <3>2. R.pc = "checkout" /\ sess' = sess
      BY <2>5, Zenon DEF Checkout
    <3>3. /\ q.defers = R.defers /\ q.kind = R.kind /\ q.obj = R.obj /\ q.pc = "txn"
          /\ q.sent = R.sent
      BY <2>0 DEF Reqs
    <3>4. Move(r, q)
      BY <3>1
    <3>. HIDE DEF q
    <3>5. ASSUME NEW y, y = q PROVE EnderInv'
      <4>1. /\ y.defers = R.defers /\ y.kind = R.kind /\ y.obj = R.obj /\ y.pc = "txn"
            /\ y.sent = R.sent
        BY <3>3, <3>5
      <4>2. Ends(y)' = Ends(R) /\ (ToReset(y)' <=> ToReset(R)) /\ (ToReset(y) <=> ToReset(R))
        BY <4>1, Zenon DEF Ends, ToReset, CloseAndForget, ResetCall, UnpinCall
      <4>3. EnderReq(y)'
        BY <2>0, <3>2, <4>1, <4>2, Zenon DEF EnderReq
      <4>4. ToReset(y) => \A p \in Requests \ {r} : ToReset(req[p]) => req[p].obj # y.obj
        BY <4>1, <4>2, Zenon DEF EnderInv
      <4>. QED  BY <3>2, <3>4, <3>5, <4>3, <4>4, EnderMove, Zenon
    <3>. QED  BY <3>5
  <2>6. CASE Return(r)
    <3>1. Move(r, Idle) /\ sess' = sess
      BY <2>6 DEF Return
    <3>. QED  BY <3>1, EnderIdle, EnderMove, Zenon
  <2>. QED  BY <1>r, <2>1, <2>2, <2>3, <2>4, <2>5, <2>6, EnderTransaction, EnderRunDefer
            DEF Progress
<1>1. ASSUME req' = req, sess' = sess PROVE EnderInv'
  <2>1. ASSUME NEW p \in Requests PROVE EnderReq(req[p])'
    <3>1. req'[p] = req[p] /\ EnderReq(req[p])
      BY <1>1 DEF EnderInv
    <3>. QED  BY <1>1, <3>1, EnderKept
  <2>2. \A p \in Requests : ToReset(req[p])' <=> ToReset(req[p])
    BY <1>1, Zenon DEF ToReset, CloseAndForget, ResetCall, UnpinCall
  <2>. QED  BY <1>1, <2>1, <2>2 DEF EnderInv
<1>2. CASE UNCHANGED vars
  BY <1>1, <1>2 DEF vars
<1>3. ASSUME \/ CleanupInactiveSessions
             \/ \E m \in Mongos, l \in Lsids : TransactionExpires(m, l)
             \/ \E m \in Mongos : CloseCall(m) \/ CloseFinish(m)
      PROVE  EnderInv'
  BY <1>1, <1>3 DEF CleanupInactiveSessions, TransactionExpires, CloseCall, CloseFinish
<1>. QED  BY <1>r, <1>2, <1>3 DEF Next

\* Whether or not the requests of a session overlap, at most one of them ends
\* its transaction, and RoundTrip's retry loop sends that command at most once.
THEOREM OneEnderCorrect == Spec => []OneEnder
<1>1. Init => EnderInv
  <2>. SUFFICES ASSUME Init PROVE EnderInv
    OBVIOUS
  <2>1. \A r \in Requests : req[r] = Idle
    BY DEF Init
  <2>. QED  BY <2>1, EnderIdle DEF EnderInv
<1>2. TypeInv /\ EnderInv /\ [Next]_vars => EnderInv'
  BY EnderStep
<1>3. EnderInv => OneEnder
  <2>. SUFFICES ASSUME EnderInv PROVE OneEnder
    OBVIOUS
  <2>1. ASSUME NEW r \in Requests, Ending(r) PROVE ToReset(req[r])
    <3>. DEFINE R == req[r]
    <3>1. EnderReq(R) /\ \E i \in DOMAIN R.defers : R.defers[i].call = "reset"
      BY <2>1 DEF EnderInv, Ending
    <3>2. Ends(R) /\ R.defers # <<>>
      BY <3>1 DEF EnderReq
    <3>3. R.defers # <<UnpinCall>>
      <4>1. \A x : DOMAIN <<x>> = {1} /\ <<x>>[1] = x
        OBVIOUS
      <4>2. UnpinCall.call = "unpin"
        BY DEF UnpinCall
      <4>. QED  BY <3>1, <4>1, <4>2
    <3>. QED  BY <3>1, <3>2, <3>3, Zenon DEF EnderReq
  <2>2. \A r \in Requests : Ending(r) => req[r].sent \in {0, 1}
    BY <2>1, Resetting DEF EnderInv
  <2>. QED  BY <2>1, <2>2 DEF OneEnder, EnderInv
<1>. QED  BY <1>1, <1>2, <1>3, TypeInit, TypeStep, PTL DEF Spec
=============================================================================

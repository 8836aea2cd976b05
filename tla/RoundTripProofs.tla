-------------------------- MODULE RoundTripProofs ---------------------------
(***************************************************************************)
(* Who owns a connection.  For serial sessions IInv is an inductive        *)
(* invariant of RoundTrip, the safety properties follow from it, and a     *)
(* connection is lost in two known ways only.  Without transactions none   *)
(* is lost, serial sessions or not.                                        *)
(***************************************************************************)
EXTENDS RoundTripTypes

\* What a request knows survives a step that leaves its session alone and the
\* connection it has just checked out usable
LEMMA ReqFrame ==
  ASSUME NEW x,
         x.obj # NoObj => sess'[x.obj] = sess[x.obj],
         x.pc = "txn" /\ Usable(x.conn) => Usable(x.conn)',
         ReqInv(x)
  PROVE  ReqInv(x)'
<1>1. TxnOf(x)' = TxnOf(x) /\ (TxnOf(x) = "in_progress" => x.obj # NoObj)
  BY DEF TxnOf
<1>2. StackInv(x)'
  BY <1>1, ConstantsAssumption DEF ReqInv, StackInv, Ends
<1>3. PlaceInv(x)'
  <2>0. PlaceInv(x)
    BY DEF ReqInv
  <2>1. x.pc = "idle" => x = Idle
    BY <2>0 DEF PlaceInv
  <2>2. x.pc \in {"lock", "lookup", "create"} =>
          x.obj = NoObj /\ x.sent = 0 /\ x.defers = <<>>
    BY <2>0 DEF PlaceInv
  <2>3. x.obj # NoObj => x.kind \in TxnKinds /\ sess'[x.obj].lsid = x.lsid
    BY <2>0 DEF PlaceInv
  <2>4. x.kind \in TxnKinds /\ x.pc \in {"select", "checkout", "txn", "wire", "reply"} =>
          x.obj \in Objs
    BY <2>0 DEF PlaceInv
  <2>5. x.pc = "checkout" /\ TxnOf(x)' = "in_progress" => x.server = sess'[x.obj].server
    BY <1>1, <2>0 DEF PlaceInv
  <2>6. x.pc = "txn" =>
          /\ x.conn \in Conns
          /\ TxnOf(x)' = "in_progress" => x.conn = sess'[x.obj].conn
          /\ TxnOf(x)' \in {"in_progress", "none"} \/ ~ Ends(x) => x.server = x.conn[1]
          /\ TxnOf(x)' = "none" => Usable(x.conn)'
    BY <1>1, <2>0 DEF PlaceInv
  <2>7. x.pc \in {"wire", "reply"} =>
          /\ x.conn \in Conns /\ x.server = x.conn[1]
          /\ Ends(x) => x.defers = CloseAndForget(x.conn)
          /\ x.kind = "start" => TxnOf(x)' = "in_progress"
          /\ TxnOf(x)' = "in_progress" => x.conn = sess'[x.obj].conn
    BY <1>1, <2>0 DEF PlaceInv
  <2>8. Ends(x)' = Ends(x) /\ CloseAndForget(x.conn)' = CloseAndForget(x.conn)
        /\ Idle' = Idle
    BY DEF Ends, CloseAndForget, Idle
  <2>. QED  BY <2>1, <2>2, <2>3, <2>4, <2>5, <2>6, <2>7, <2>8 DEF PlaceInv
<1>4. SentInv(x)'
  BY <1>1 DEF ReqInv, SentInv, Ends
<1>. QED  BY <1>2, <1>3, <1>4 DEF ReqInv

\* Two requests in flight never have the same session
LEMMA ObjDistinct ==
  ASSUME TypeInv, IInv, NEW r \in Requests, NEW q \in Requests, r # q,
         req[r].obj # NoObj
  PROVE  req[q].obj # req[r].obj
<1>1. /\ req[r].kind \in TxnKinds /\ sess[req[r].obj].lsid = req[r].lsid
      /\ req[q].obj # NoObj => sess[req[q].obj].lsid = req[q].lsid
  BY DEF IInv, ReqInv, PlaceInv
<1>2. req[r].lsid \in Lsids
  BY <1>1 DEF TypeInv, PcOK, Placed
<1>. QED  BY <1>1, <1>2, ConstantsAssumption DEF IInv, Serial

\* A step that only changes the locals of one request, and gives it no
\* connection, keeps the invariant if the request's new record is sound
LEMMA LocalStep ==
  ASSUME TypeInv, IInv, NEW r \in Requests, NEW q, Move(r, q),
         UNCHANGED <<sess, sessions, out, mu>>,
         q.lsid = NoLsid \/ \A p \in Requests \ {r} : q.lsid # req[p].lsid,
         Ends(req[r]) /\ req[r].defers # <<>> =>
           q.obj = req[r].obj /\ Ends(q) /\ q.defers # <<>>,
         Holds(q) \subseteq Holds(req[r]),
         q.obj = req[r].obj \/ Holds(q) = {},
         ReqInv(q)
  PROVE  IInv'
<1>1. req' = [p \in Requests |-> IF p = r THEN q ELSE req[p]]
  BY Zenon DEF Move, TypeInv, TypeOK
<1>2. Serial'
  <2>1. \A p \in Requests \ {r} : req'[p] = req[p]
    BY <1>1
  <2>2. req'[r] = q
    BY <1>1
  <2>3. \A x, y \in Requests : x # y /\ req[x].lsid # NoLsid => req[x].lsid # req[y].lsid
    BY DEF IInv, Serial
  <2>4. \A p \in Requests \ {r} : q.lsid # NoLsid => q.lsid # req[p].lsid
    BY <2>3
  <2>. SUFFICES ASSUME NEW x \in Requests, NEW y \in Requests, x # y,
                       req'[x].lsid # NoLsid
                PROVE  req'[x].lsid # req'[y].lsid
    BY DEF Serial
  <2>5. CASE x = r
    BY <2>1, <2>2, <2>4, <2>5
  <2>6. CASE y = r
    BY <2>1, <2>2, <2>4, <2>6
  <2>7. CASE x # r /\ y # r
    BY <2>1, <2>3, <2>7
  <2>. QED  BY <2>5, <2>6, <2>7
<1>3. ASSUME NEW p \in Requests PROVE ReqInv(req[p])'
  <2>1. ReqInv(req'[p])
    BY <1>1 DEF IInv
  <2>2. ASSUME NEW x, ReqInv(x) PROVE ReqInv(x)'
    BY <2>2, ReqFrame DEF Usable
  <2>. QED  BY <2>1, <2>2
<1>4. ASSUME NEW o \in Objs PROVE ObjInv(o)'
  <2>1. ObjInv(o)
    BY DEF IInv
  <2>. QED  BY <1>1, <2>1 DEF ObjInv, Usable, Ends
<1>5. OwnInv'
  <2>1. \A p \in Requests : Holds(req'[p]) \subseteq Holds(req[p])
    BY <1>1
  <2>2. \A p, z \in Requests : p # z => Holds(req'[p]) \cap Holds(req'[z]) = {}
    BY <2>1, Zenon DEF IInv, OwnInv
  <2>3. \A p \in Requests, o \in Objs :
          sess[o].conn \in Holds(req'[p]) => req'[p].obj = o
    BY <1>1, <2>1 DEF IInv, OwnInv
  <2>. QED  BY <2>2, <2>3, Zenon DEF IInv, OwnInv, Holds, Deferred
<1>6. MapInv'
  BY DEF IInv, MapInv
<1>. QED  BY <1>2, <1>3, <1>4, <1>5, <1>6 DEF IInv

\* The case of a request that goes on within the handler with the same session
\* and the same deferred calls
LEMMA AdvanceStep ==
  ASSUME TypeInv, IInv, NEW r \in Requests, NEW q, Move(r, q),
         UNCHANGED <<sess, sessions, out, mu>>,
         req[r].pc \notin {"idle", "return"}, q.pc # "txn",
         q.kind = req[r].kind, q.lsid = req[r].lsid, q.obj = req[r].obj,
         q.defers = req[r].defers, PlaceInv(q), SentInv(q)
  PROVE  IInv'
<1>1. StackInv(q)
  BY DEF IInv, ReqInv, StackInv, Ends, TxnOf
<1>2. Holds(q) \subseteq Holds(req[r])
  BY DEF Holds, Deferred
<1>3. q.lsid = NoLsid \/ \A p \in Requests \ {r} : q.lsid # req[p].lsid
  BY DEF IInv, Serial
<1>. QED  BY <1>1, <1>2, <1>3, LocalStep DEF ReqInv, Ends

\* A request that is not in RoundTrip has nothing to give back
LEMMA IdleInv == ReqInv(Idle) /\ Holds(Idle) = {}
<1>1. /\ Idle.pc = "idle" /\ Idle.kind = "plain" /\ Idle.obj = NoObj
      /\ Idle.defers = <<>>
  BY DEF Idle
<1>2. Idle.kind \notin {"start", "commit", "abort"} /\ ~ Ends(Idle)
  BY <1>1 DEF Ends
<1>3. DOMAIN Idle.defers = {}
  BY <1>1
<1>. HIDE DEF Idle
<1>4. StackInv(Idle)
  BY <1>2, <1>3 DEF StackInv
<1>5. SentInv(Idle)
  BY <1>2 DEF SentInv
<1>6. PlaceInv(Idle)
  BY <1>1, <1>2 DEF PlaceInv, TxnKinds
<1>7. Holds(Idle) = {}
  BY <1>1, <1>3 DEF Holds, Deferred
<1>. QED  BY <1>4, <1>5, <1>6, <1>7 DEF ReqInv

\* The invariant holds when no request has arrived
LEMMA InvInit == Init => IInv
<1>. SUFFICES ASSUME Init PROVE IInv
  OBVIOUS
<1>1. ReqInv(Idle)
  BY IdleInv
<1>2. \A r \in Requests : req[r] = Idle /\ Holds(req[r]) = {}
  BY IdleInv DEF Init
<1>3. \A o \in Objs : sess[o].txn = "none" /\ sess[o].conn = NoConn
  BY DEF Init, NewSession
<1>4. Serial /\ MapInv
  BY <1>2 DEF Init, Serial, MapInv, Idle
<1>5. OwnInv
  BY <1>2, <1>3 DEF OwnInv
<1>. QED  BY <1>1, <1>2, <1>3, <1>4, <1>5 DEF IInv, ObjInv

\* The steps before the connection, and those that give up
LEMMA EarlySteps ==
  ASSUME TypeInv, IInv, SerialSessions, NEW r \in Requests,
         \/ Arrive(r) \/ Enter(r) \/ Lookup(r) \/ Select(r) \/ SelectFails(r)
         \/ CheckoutFails(r) \/ TransactionRefused(r) \/ Return(r)
  PROVE  IInv'
<1>. DEFINE R == req[r]
<1>0. /\ R \in Reqs /\ Placed(R) /\ StackInv(R) /\ PlaceInv(R) /\ SentInv(R)
  BY DEF IInv, ReqInv, TypeInv, TypeOK, PcOK
<1>1. CASE Arrive(r)
  <2>1. PICK k \in Kinds, m \in Mongos :
          \E l \in IF k \in TxnKinds THEN Lsids ELSE {NoLsid},
             c \in IF k = "getMore" THEN CursorIds ELSE {NoCursor} :
             /\ l # NoLsid => \A p \in Requests : req[p].lsid # l
             /\ Move(r, [R EXCEPT !.pc = "lock", !.kind = k, !.mongo = m,
                                  !.lsid = l, !.cursor = c])
    BY <1>1, ZenonT(30) DEF Arrive
  <2>2. PICK l \in IF k \in TxnKinds THEN Lsids ELSE {NoLsid},
             c \in IF k = "getMore" THEN CursorIds ELSE {NoCursor} :
             /\ l # NoLsid => \A p \in Requests : req[p].lsid # l
             /\ Move(r, [R EXCEPT !.pc = "lock", !.kind = k, !.mongo = m,
                                  !.lsid = l, !.cursor = c])
    BY <2>1, Zenon
  <2>. DEFINE q == [R EXCEPT !.pc = "lock", !.kind = k, !.mongo = m,
                             !.lsid = l, !.cursor = c]
  <2>3. R = Idle
    BY <1>0, <1>1, Zenon DEF Arrive, PlaceInv
  <2>4. /\ q.pc = "lock" /\ q.kind = k /\ q.lsid = l /\ q.obj = NoObj
        /\ q.defers = <<>> /\ q.sent = 0
    BY <2>3 DEF Idle
  <2>5. Move(r, q)
    BY <2>2
  <2>. HIDE DEF q
  <2>6. ReqInv(q) /\ Holds(q) = {}
    BY <2>4 DEF ReqInv, StackInv, PlaceInv, SentInv, Holds, Deferred
  <2>7. ~ Ends(R)
    BY <2>3 DEF Idle, Ends
  <2>. QED  BY <1>1, <2>2, <2>4, <2>5, <2>6, <2>7, LocalStep, Zenon DEF Arrive
<1>2. CASE Enter(r)
  <2>1. PICK pc \in {"lookup", "select", "return"} :
          Goto(r, pc) /\ (pc = "select" => R.kind \notin TxnKinds)
    BY <1>2, Zenon DEF Enter
  <2>. DEFINE q == [R EXCEPT !.pc = pc]
  <2>2. /\ q.pc = pc /\ q.kind = R.kind /\ q.lsid = R.lsid /\ q.obj = R.obj
        /\ q.defers = R.defers /\ q.sent = R.sent
    BY <1>0 DEF Reqs
  <2>3. Move(r, q) /\ R.pc = "lock"
    BY <1>2, <2>1 DEF Goto, Enter
  <2>. HIDE DEF q
  <2>4. PlaceInv(q)
    BY <1>0, <2>1, <2>2, <2>3, Zenon DEF PlaceInv
  <2>5. SentInv(q)
    BY <1>0, <2>1, <2>2, <2>3, Zenon DEF SentInv, PlaceInv, TxnKinds
  <2>. QED  BY <1>2, <2>1, <2>2, <2>3, <2>4, <2>5, AdvanceStep, Zenon DEF Enter
<1>3. CASE Lookup(r)
  <2>. DEFINE o == sessions[R.lsid]
              found == IF o = NoObj THEN FALSE ELSE sess[o].state # "ended"
              pc == IF found THEN "select" ELSE "create"
              ob == IF found THEN o ELSE NoObj
              q == [R EXCEPT !.pc = pc, !.obj = ob]
  <2>1. R.pc = "lookup" /\ Move(r, q)
    BY <1>3 DEF Lookup
  <2>2. /\ R.kind \in TxnKinds /\ R.lsid \in Lsids
        /\ R.obj = NoObj /\ R.sent = 0 /\ R.defers = <<>>
    BY <1>0, <2>1 DEF Placed, PlaceInv
  <2>3. /\ pc \in {"select", "create"}
        /\ pc = "select" => ob \in Objs /\ sess[ob].lsid = R.lsid
        /\ pc = "create" => ob = NoObj
    BY <2>2, ConstantsAssumption, Zenon DEF IInv, MapInv, TypeInv, TypeOK
  <2>. HIDE DEF pc, ob
  <2>4. /\ q.pc = pc /\ q.kind = R.kind /\ q.lsid = R.lsid /\ q.obj = ob
        /\ q.defers = R.defers /\ q.sent = R.sent
    BY <1>0 DEF Reqs
  <2>. HIDE DEF q
  <2>5. StackInv(q) /\ SentInv(q) /\ Holds(q) = {}
    <3>1. q.defers = <<>> /\ q.pc # "txn" /\ q.pc # "wire" /\ q.sent = 0
      BY <2>2, <2>3, <2>4
    <3>2. DOMAIN q.defers = {}
      BY <3>1
    <3>3. StackInv(q)
      BY <3>1, <3>2 DEF StackInv
    <3>4. SentInv(q)
      BY <3>1 DEF SentInv
    <3>5. Holds(q) = {}
      BY <3>1, <3>2 DEF Holds, Deferred
    <3>. QED  BY <3>3, <3>4, <3>5
  <2>6. PlaceInv(q)
    BY <2>2, <2>3, <2>4 DEF PlaceInv
  <2>7. q.lsid = NoLsid \/ \A p \in Requests \ {r} : q.lsid # req[p].lsid
    BY <2>4 DEF IInv, Serial
  <2>. QED  BY <1>3, <2>1, <2>2, <2>5, <2>6, <2>7, LocalStep, Zenon DEF Lookup, ReqInv
<1>4. CASE Select(r)
  <2>1. PICK srv : /\ Selected(r, srv)
                   /\ R.obj # NoObj /\ HasPinnedServer(sess[R.obj]) =>
                        srv = sess[R.obj].server
    BY <1>4, Zenon DEF Select
  <2>. DEFINE q == [R EXCEPT !.pc = "checkout", !.server = srv]
  <2>2. R.pc = "select" /\ Move(r, q)
    BY <1>4, <2>1, Zenon DEF Select, Selected
  <2>3. /\ q.pc = "checkout" /\ q.kind = R.kind /\ q.lsid = R.lsid /\ q.obj = R.obj
        /\ q.defers = R.defers /\ q.sent = R.sent /\ q.server = srv
    BY <1>0 DEF Reqs
  <2>. HIDE DEF q
  <2>4. TxnOf(q) = "in_progress" => q.server = sess[q.obj].server
    <3>. SUFFICES ASSUME TxnOf(q) = "in_progress" PROVE q.server = sess[q.obj].server
      OBVIOUS
    <3>1. R.obj \in Objs /\ sess[R.obj].txn = "in_progress"
      BY <1>0, <2>2, <2>3, Zenon DEF TxnOf, PlaceInv
    <3>2. sess[R.obj].server \in Servers
      BY <3>1, Zenon DEF IInv, ObjInv, Conns
    <3>. QED  BY <2>1, <2>3, <3>1, <3>2, ConstantsAssumption, Zenon DEF HasPinnedServer
  <2>5. PlaceInv(q)
    BY <1>0, <2>2, <2>3, <2>4, Zenon DEF PlaceInv
  <2>6. SentInv(q)
    BY <1>0, <2>2, <2>3, Zenon DEF SentInv, Ends, TxnOf
  <2>. QED  BY <1>4, <2>2, <2>3, <2>5, <2>6, AdvanceStep, Zenon DEF Select
<1>g. ASSUME Goto(r, "return"), R.pc \in {"select", "txn"},
             UNCHANGED <<sess, sessions, out, mu>>
      PROVE  IInv'
  <2>. DEFINE q == [R EXCEPT !.pc = "return"]
  <2>1. Move(r, q)
    BY <1>g DEF Goto
  <2>2. /\ q.pc = "return" /\ q.kind = R.kind /\ q.lsid = R.lsid /\ q.obj = R.obj
        /\ q.defers = R.defers /\ q.sent = R.sent
    BY <1>0 DEF Reqs
  <2>. HIDE DEF q
  <2>3. PlaceInv(q) /\ SentInv(q)
    BY <1>0, <2>2, Zenon DEF PlaceInv, SentInv
  <2>. QED  BY <1>g, <2>1, <2>2, <2>3, AdvanceStep, Zenon
<1>t. ASSUME Move(r, Retried(R)), R.pc \in {"select", "checkout"},
             UNCHANGED <<sess, sessions, out, mu>>
      PROVE  IInv'
  <2>. DEFINE q == Retried(R)
  <2>1. /\ q.pc \in {"select", "return"} /\ q.kind = R.kind /\ q.lsid = R.lsid
        /\ q.obj = R.obj /\ q.defers = R.defers /\ q.sent = R.sent
    BY <1>0 DEF Retried, Reqs
  <2>. HIDE DEF q
  <2>2. PlaceInv(q)
    BY <1>0, <1>t, <2>1, Zenon DEF PlaceInv
  <2>3. SentInv(q)
    BY <1>0, <1>t, <2>1, Zenon DEF SentInv, Ends, TxnOf
  <2>. QED  BY <1>t, <2>1, <2>2, <2>3, AdvanceStep, Zenon DEF q
<1>5. CASE SelectFails(r)
  BY <1>5, <1>g, <1>t, Zenon DEF SelectFails
<1>6. CASE CheckoutFails(r)
  BY <1>6, <1>t, Zenon DEF CheckoutFails
<1>7. CASE TransactionRefused(r)
  BY <1>7, <1>g, Zenon DEF TransactionRefused
<1>8. CASE Return(r)
  <2>1. ReqInv(Idle) /\ Idle.lsid = NoLsid /\ Holds(Idle) = {}
    BY IdleInv DEF Idle
  <2>. QED  BY <1>8, <2>1, LocalStep, Zenon DEF Return
<1>. QED  BY <1>1, <1>2, <1>3, <1>4, <1>5, <1>6, <1>7, <1>8

\* The exchange with the server
LEMMA WireSteps ==
  ASSUME TypeInv, IInv, NEW r \in Requests, WireOk(r) \/ WireFails(r) \/ Reply(r)
  PROVE  IInv'
<1>. DEFINE R == req[r]
<1>0. /\ R \in Reqs /\ Placed(R) /\ StackInv(R) /\ PlaceInv(R) /\ SentInv(R)
  BY DEF IInv, ReqInv, TypeInv, TypeOK, PcOK
<1>a. ASSUME NEW q, Move(r, q), R.pc = "wire", UNCHANGED <<sess, sessions, out, mu>>,
             q.pc \in {"select", "reply", "return"}, q.kind = R.kind,
             q.lsid = R.lsid, q.obj = R.obj, q.defers = R.defers,
             q.sent \in {R.sent, R.sent + 1},
             q.pc = "reply" => q.conn = R.conn /\ q.server = R.server
      PROVE  IInv'
  <2>1. PlaceInv(q)
    BY <1>0, <1>a, Zenon DEF PlaceInv, Ends, TxnOf
  <2>2. Ends(R) => R.defers # <<>>
    BY <1>0, <1>a, ForgetStack, Zenon DEF PlaceInv
  <2>3. SentInv(q)
    <3>. SUFFICES ASSUME q.kind \in {"start", "commit", "abort"}
                  PROVE  /\ q.sent \in {0, 1}
                         /\ q.pc = "wire" => q.sent = 0
                         /\ q.pc \in {"select", "checkout", "txn"} /\ q.sent = 1 =>
                              IF Ends(q) THEN q.defers # <<>> ELSE TxnOf(q) = "in_progress"
      BY DEF SentInv
    <3>1. R.sent = 0
      BY <1>0, <1>a, Zenon DEF SentInv
    <3>2. q.sent \in {0, 1} /\ q.pc # "wire"
      BY <1>a, <3>1
    <3>3. Ends(q) => q.defers # <<>>
      BY <1>a, <2>2 DEF Ends
    <3>4. ~ Ends(q) => R.kind = "start"
      BY <1>a DEF Ends
    <3>5. ~ Ends(q) => TxnOf(q) = "in_progress"
      BY <1>0, <1>a, <3>4, Zenon DEF PlaceInv, TxnOf
    <3>. QED  BY <3>2, <3>3, <3>5
  <2>. QED  BY <1>a, <2>1, <2>3, AdvanceStep
<1>1. CASE WireOk(r)
  <2>1. PICK k \in CursorIds \cup {NoCursor} :
          Move(r, [R EXCEPT !.pc = IF R.kind = "unack" THEN "return" ELSE "reply",
                            !.sent = @ + 1, !.reply = k])
    BY <1>1, Zenon DEF WireOk
  <2>. DEFINE pc == IF R.kind = "unack" THEN "return" ELSE "reply"
              n == R.sent + 1
              q == [R EXCEPT !.pc = pc, !.sent = n, !.reply = k]
  <2>2. Move(r, q) /\ pc \in {"return", "reply"} /\ R.pc = "wire"
    BY <1>1, <2>1, Zenon DEF WireOk
  <2>. HIDE DEF pc
  <2>3. /\ q.pc = pc /\ q.kind = R.kind /\ q.lsid = R.lsid /\ q.obj = R.obj
        /\ q.defers = R.defers /\ q.conn = R.conn /\ q.server = R.server /\ q.sent = n
    BY <1>0 DEF Reqs
  <2>. HIDE DEF q
  <2>. QED  BY <1>1, <1>a, <2>2, <2>3, Zenon DEF WireOk
<1>2. CASE WireFails(r)
  <2>. DEFINE n == R.sent + 1
              s == [R EXCEPT !.sent = n]
              z == [s EXCEPT !.pc = "return"]
              g == [R EXCEPT !.pc = "return"]
  <2>1. R.pc = "wire" /\ (Move(r, Retried(s)) \/ Move(r, z) \/ Move(r, g))
    BY <1>2 DEF WireFails, Goto
  <2>2. /\ z.pc = "return" /\ z.kind = R.kind /\ z.lsid = R.lsid /\ z.obj = R.obj
        /\ z.defers = R.defers /\ z.sent = n
    BY <1>0 DEF Reqs
  <2>3. /\ g.pc = "return" /\ g.kind = R.kind /\ g.lsid = R.lsid /\ g.obj = R.obj
        /\ g.defers = R.defers /\ g.sent = R.sent
    BY <1>0 DEF Reqs
  <2>4. /\ Retried(s).pc \in {"select", "return"} /\ Retried(s).kind = R.kind
        /\ Retried(s).lsid = R.lsid /\ Retried(s).obj = R.obj
        /\ Retried(s).defers = R.defers /\ Retried(s).sent = n
    BY <1>0 DEF Reqs, Retried
  <2>. HIDE DEF s, z, g
  <2>5. CASE Move(r, Retried(s))
    BY <1>2, <1>a, <2>1, <2>4, <2>5 DEF WireFails
  <2>6. CASE Move(r, z)
    BY <1>2, <1>a, <2>1, <2>2, <2>6 DEF WireFails
  <2>7. CASE Move(r, g)
    BY <1>2, <1>a, <2>1, <2>3, <2>7 DEF WireFails
  <2>. QED  BY <2>1, <2>5, <2>6, <2>7, Zenon
<1>3. CASE Reply(r)
  <2>. DEFINE q == [R EXCEPT !.pc = "return"]
  <2>1. Move(r, q) /\ R.pc = "reply"
    BY <1>3 DEF Reply, Goto
  <2>2. /\ q.pc = "return" /\ q.kind = R.kind /\ q.lsid = R.lsid /\ q.obj = R.obj
        /\ q.defers = R.defers /\ q.sent = R.sent
    BY <1>0 DEF Reqs
  <2>. HIDE DEF q
  <2>3. PlaceInv(q) /\ SentInv(q)
    BY <1>0, <2>2, Zenon DEF PlaceInv, SentInv
  <2>. QED  BY <1>3, <2>1, <2>2, <2>3, AdvanceStep, Zenon DEF Reply
<1>. QED  BY <1>1, <1>2, <1>3

\* A step in which a request changes its own session, or gives connections of
\* its own back, keeps the invariant if the request and its session stay sound
LEMMA SessionStep ==
  ASSUME TypeInv, IInv, NEW r \in Requests, NEW q, Move(r, q),
         q.obj = req[r].obj, q.lsid = req[r].lsid, UNCHANGED mu,
         \A o \in Objs : o # req[r].obj => sess'[o] = sess[o],
         \A p \in Requests \ {r} : \A c \in Holds(req[p]) : Usable(c) => Usable(c)',
         \A o \in Objs : o # req[r].obj /\ ObjInv(o) /\ sess[o].txn = "in_progress"
                         => Usable(sess[o].conn)',
         Holds(q) \subseteq Holds(req[r]),
         \A o \in Objs : o = req[r].obj =>
           /\ sess'[o].conn \in Holds(req[r]) \cup {NoConn, sess[o].conn}
           /\ ObjInv(o)',
         ReqInv(q)', MapInv'
  PROVE  IInv'
<1>. DEFINE R == req[r]
<1>1. req' = [p \in Requests |-> IF p = r THEN q ELSE req[p]]
  BY Zenon DEF Move, TypeInv, TypeOK
<1>2. Serial'
  <2>1. \A p \in Requests \ {r} : req'[p] = req[p]
    BY <1>1, Zenon
  <2>2. req'[r] = q
    BY <1>1
  <2>3. \A x, y \in Requests : x # y /\ req[x].lsid # NoLsid => req[x].lsid # req[y].lsid
    BY Zenon DEF IInv, Serial
  <2>4. \A p \in Requests \ {r} : q.lsid # NoLsid => q.lsid # req[p].lsid
    BY <2>3, Zenon
  <2>. SUFFICES ASSUME NEW x \in Requests, NEW y \in Requests, x # y,
                       req'[x].lsid # NoLsid
                PROVE  req'[x].lsid # req'[y].lsid
    BY DEF Serial
  <2>5. CASE x = r
    BY <2>1, <2>2, <2>4, <2>5, Zenon
  <2>6. CASE y = r
    BY <2>1, <2>2, <2>4, <2>6, Zenon
  <2>7. CASE x # r /\ y # r
    BY <2>1, <2>3, <2>7
  <2>. QED  BY <2>5, <2>6, <2>7, Zenon
<1>3. ASSUME NEW p \in Requests PROVE ReqInv(req[p])'
  <2>1. CASE p = r
    BY <1>1, <2>1
  <2>2. CASE p # r
    <3>1. req'[p] = req[p] /\ ReqInv(req[p])
      BY <1>1, <2>2, Zenon DEF IInv
    <3>2. req[p].obj # NoObj => req[p].obj # R.obj /\ req[p].obj \in Objs
      BY <2>2, ObjDistinct, Zenon DEF TypeInv, TypeOK, Reqs
    <3>3. req[p].obj # NoObj => sess'[req[p].obj] = sess[req[p].obj]
      BY <3>2, Zenon
    <3>4. req[p].pc = "txn" => req[p].conn \in Holds(req[p])
      BY Zenon DEF Holds
    <3>5. req[p].pc = "txn" /\ Usable(req[p].conn) =>
            (req[p].conn \in out' \/ mu'[req[p].conn[1][1]] = "closed")
      BY <2>2, <3>4, Zenon DEF Usable
    <3>6. ASSUME NEW x, x = req[p] PROVE ReqInv(x)'
      BY <3>1, <3>3, <3>5, <3>6, ReqFrame, Zenon DEF Usable
    <3>. QED  BY <3>1, <3>6
  <2>. QED  BY <2>1, <2>2
<1>4. ASSUME NEW o \in Objs PROVE ObjInv(o)'
  <2>1. CASE o = R.obj
    BY <2>1, Zenon
  <2>2. CASE o # R.obj
    <3>1. ObjInv(o) /\ sess'[o] = sess[o]
      BY <2>2, Zenon DEF IInv
    <3>2. sess[o].txn = "in_progress" => Usable(sess[o].conn)'
      BY <2>2, <3>1
    <3>3. \A p \in Requests : req[p].obj = o => req'[p] = req[p]
      BY <1>1, <2>2, Zenon
    <3>. QED  BY <3>1, <3>2, <3>3, Zenon DEF ObjInv, Ends, Usable
  <2>. QED  BY <2>1, <2>2, Zenon
<1>5. OwnInv'
  <2>1. \A p \in Requests : Holds(req'[p]) \subseteq Holds(req[p])
    BY <1>1, Zenon
  <2>2. \A p, z \in Requests : p # z => Holds(req'[p]) \cap Holds(req'[z]) = {}
    BY <2>1, Zenon DEF IInv, OwnInv
  <2>3. \A p \in Requests : NoConn \notin Holds(req[p])
    BY ConstantsAssumption, Zenon DEF Holds, Deferred, IInv, ReqInv, PlaceInv
  <2>4. ASSUME NEW p \in Requests, NEW o \in Objs, sess'[o].conn \in Holds(req'[p])
        PROVE  req'[p].obj = o
    <3>1. req'[p].obj = req[p].obj
      BY <1>1, Zenon
    <3>2. CASE o # R.obj
      BY <2>1, <2>4, <3>1, <3>2 DEF IInv, OwnInv
    <3>3. CASE o = R.obj
      <4>1. sess'[o].conn \in Holds(req[p])
        BY <2>1, <2>4, Zenon
      <4>2. sess'[o].conn \in Holds(R) \/ sess'[o].conn = sess[o].conn
        BY <2>3, <3>3, <4>1, Zenon
      <4>3. CASE sess'[o].conn = sess[o].conn
        BY <3>1, <4>1, <4>3, Zenon DEF IInv, OwnInv
      <4>4. CASE sess'[o].conn \in Holds(R)
        BY <3>1, <3>3, <4>1, <4>4, Zenon DEF IInv, OwnInv
      <4>. QED  BY <4>2, <4>3, <4>4, Zenon
    <3>. QED  BY <3>2, <3>3, Zenon
  <2>5. ASSUME NEW o \in Objs, NEW p \in Objs, o # p, sess'[o].conn # NoConn
        PROVE  sess'[o].conn # sess'[p].conn
    <3>1. sess[o].conn # NoConn => sess[o].conn # sess[p].conn
      BY <2>5, Zenon DEF IInv, OwnInv
    <3>2. sess[p].conn # NoConn => sess[p].conn # sess[o].conn
      BY <2>5, Zenon DEF IInv, OwnInv
    <3>3. /\ sess[o].conn \in Holds(R) => R.obj = o
          /\ sess[p].conn \in Holds(R) => R.obj = p
      BY Zenon DEF IInv, OwnInv
    <3>4. CASE o = R.obj
      <4>1. sess'[p] = sess[p]
        BY <2>5, <3>4, Zenon
      <4>2. sess'[o].conn \in Holds(R) \/ sess'[o].conn = sess[o].conn
        BY <2>5, <3>4, Zenon
      <4>. QED  BY <2>5, <3>1, <3>3, <3>4, <4>1, <4>2, Zenon
    <3>5. CASE p = R.obj
      <4>1. sess'[o] = sess[o]
        BY <2>5, <3>5, Zenon
      <4>2. sess'[p].conn \in Holds(R) \cup {NoConn} \/ sess'[p].conn = sess[p].conn
        BY <3>5, Zenon
      <4>. QED  BY <2>5, <3>1, <3>3, <3>5, <4>1, <4>2, Zenon
    <3>6. CASE o # R.obj /\ p # R.obj
      BY <2>5, <3>1, <3>6, Zenon
    <3>. QED  BY <3>4, <3>5, <3>6, Zenon
  <2>6. \A p \in Requests : Holds(req[p])' = Holds(req'[p])
    BY Zenon DEF Holds, Deferred
  <2>. QED  BY <2>2, <2>4, <2>5, <2>6, Zenon DEF OwnInv
<1>. QED  BY <1>2, <1>3, <1>4, <1>5, Zenon DEF IInv

\* A new session object is in nobody's hands
LEMMA CreateStep ==
  ASSUME TypeInv, IInv, NEW r \in Requests, Create(r)
  PROVE  IInv'
<1>. DEFINE R == req[r]
<1>0. /\ R \in Reqs /\ Placed(R) /\ PlaceInv(R) /\ R.pc = "create"
  BY DEF Create, IInv, ReqInv, TypeInv, TypeOK, PcOK
<1>1. PICK o \in Objs :
        /\ Unreferenced(o)
        /\ sess' = [sess EXCEPT ![o] = NewSession(R.lsid)]
        /\ sessions' = [sessions EXCEPT ![R.lsid] = o]
        /\ Move(r, [R EXCEPT !.pc = "select", !.obj = o])
  BY Zenon DEF Create
<1>. DEFINE q == [R EXCEPT !.pc = "select", !.obj = o]
<1>2. /\ R.kind \in TxnKinds /\ R.lsid \in Lsids /\ R.obj = NoObj
      /\ R.sent = 0 /\ R.defers = <<>>
  BY <1>0, Zenon DEF Placed, PlaceInv
<1>3. /\ q.pc = "select" /\ q.kind = R.kind /\ q.lsid = R.lsid /\ q.obj = o
      /\ q.defers = <<>> /\ q.sent = 0
  BY <1>0, <1>2 DEF Reqs
<1>4. req' = [p \in Requests |-> IF p = r THEN q ELSE req[p]]
  BY <1>1, Zenon DEF Move, TypeInv, TypeOK
<1>. HIDE DEF q
<1>5. /\ sess'[o].txn = "none" /\ sess'[o].conn = NoConn /\ sess'[o].lsid = R.lsid
      /\ \A p \in Objs : p # o => sess'[p] = sess[p]
  BY <1>1 DEF NewSession, TypeInv, TypeOK
<1>6. \A p \in Requests : req[p].obj # o
  BY <1>1 DEF Unreferenced
<1>7. \A l \in Lsids : sessions[l] # o
  BY <1>1 DEF Unreferenced
<1>8. UNCHANGED <<out, mu>>
  BY DEF Create
<1>9. Holds(q) = {}
  BY <1>3 DEF Holds, Deferred
<1>10. Serial'
  BY <1>3, <1>4 DEF IInv, Serial
<1>11. ASSUME NEW p \in Requests PROVE ReqInv(req[p])'
  <2>1. CASE p = r
    <3>1. o # NoObj
      BY ConstantsAssumption
    <3>2. ASSUME NEW x, x = q PROVE StackInv(x)' /\ PlaceInv(x)' /\ SentInv(x)'
      BY <1>2, <1>3, <1>5, <3>1, <3>2 DEF StackInv, PlaceInv, SentInv
    <3>. QED  BY <1>4, <2>1, <3>2 DEF ReqInv
  <2>2. CASE p # r
    <3>1. req'[p] = req[p] /\ ReqInv(req[p])
      BY <1>4, <2>2 DEF IInv
    <3>2. req[p].obj \in Objs \cup {NoObj}
      BY DEF TypeInv, TypeOK, Reqs
    <3>3. ASSUME NEW x, x = req[p] PROVE ReqInv(x)'
      BY <1>5, <1>6, <1>8, <3>1, <3>2, <3>3, ReqFrame, Zenon DEF Usable
    <3>. QED  BY <3>1, <3>3, Zenon
  <2>. QED  BY <2>1, <2>2
<1>12. ASSUME NEW p \in Objs PROVE ObjInv(p)'
  <2>1. CASE p = o
    BY <1>5, <2>1, Zenon DEF ObjInv
  <2>2. CASE p # o
    <3>1. ObjInv(p) /\ sess'[p] = sess[p]
      BY <1>5, <2>2, Zenon DEF IInv
    <3>2. \A z \in Requests : req[z].obj = p => req'[z] = req[z]
      BY <1>2, <1>4, ConstantsAssumption, Zenon
    <3>. QED  BY <1>8, <3>1, <3>2, Zenon DEF ObjInv, Ends, Usable
  <2>. QED  BY <2>1, <2>2
<1>13. OwnInv'
  <2>1. \A p \in Requests : NoConn \notin Holds(req[p])
    BY ConstantsAssumption, Zenon DEF Holds, Deferred, IInv, ReqInv, PlaceInv
  <2>2. \A p \in Requests : Holds(req'[p]) = IF p = r THEN {} ELSE Holds(req[p])
    BY <1>4, <1>9
  <2>3. \A p, z \in Requests : p # z => Holds(req'[p]) \cap Holds(req'[z]) = {}
    BY <2>2, Zenon DEF IInv, OwnInv
  <2>4. \A p \in Requests, z \in Objs :
          sess'[z].conn \in Holds(req'[p]) => req'[p].obj = z
    BY <1>4, <1>5, <2>1, <2>2, Zenon DEF IInv, OwnInv
  <2>5. \A z, p \in Objs : z # p /\ sess'[z].conn # NoConn => sess'[z].conn # sess'[p].conn
    BY <1>5, Zenon DEF IInv, OwnInv
  <2>6. \A p \in Requests : Holds(req[p])' = Holds(req'[p])
    BY Zenon DEF Holds, Deferred
  <2>. QED  BY <2>3, <2>4, <2>5, <2>6, Zenon DEF OwnInv
<1>14. MapInv'
  <2>. SUFFICES ASSUME NEW l \in Lsids, sessions'[l] # NoObj
                PROVE  sess'[sessions'[l]].lsid = l
    BY DEF MapInv
  <2>1. CASE l = R.lsid
    BY <1>1, <1>5, <2>1 DEF TypeInv, TypeOK
  <2>2. CASE l # R.lsid
    <3>1. sessions'[l] = sessions[l] /\ sessions[l] \in Objs \cup {NoObj}
      BY <1>1, <2>2 DEF TypeInv, TypeOK
    <3>. QED  BY <1>5, <1>7, <3>1, Zenon DEF IInv, MapInv
  <2>. QED  BY <2>1, <2>2, Zenon
<1>. QED  BY <1>10, <1>11, <1>12, <1>13, <1>14, Zenon DEF IInv

\* A request gets the connection pinned to its session, or a fresh one
LEMMA CheckoutStep ==
  ASSUME TypeInv, IInv, NEW r \in Requests, Checkout(r)
  PROVE  IInv'
<1>. DEFINE R == req[r]
<1>0. /\ R \in Reqs /\ Placed(R) /\ StackInv(R) /\ PlaceInv(R) /\ SentInv(R)
      /\ R.pc = "checkout" /\ UNCHANGED <<sess, sessions, mu>>
  BY Zenon DEF Checkout, IInv, ReqInv, TypeInv, TypeOK, PcOK
<1>a. ASSUME NEW c \in Conns, Move(r, [R EXCEPT !.pc = "txn", !.conn = c]),
             out \subseteq out',
             \A p \in Requests \ {r} : c \notin Holds(req[p]),
             \A o \in Objs : sess[o].conn = c => R.obj = o,
             TxnOf(R) = "in_progress" => c = sess[R.obj].conn /\ R.server = c[1],
             TxnOf(R) = "none" \/ ~ Ends(R) => R.server = c[1],
             TxnOf(R) = "none" => c \in out'
      PROVE  IInv'
  <2>. DEFINE q == [R EXCEPT !.pc = "txn", !.conn = c]
  <2>1. /\ q.pc = "txn" /\ q.kind = R.kind /\ q.lsid = R.lsid /\ q.obj = R.obj
        /\ q.defers = R.defers /\ q.sent = R.sent /\ q.conn = c /\ q.server = R.server
    BY <1>0 DEF Reqs
  <2>2. req' = [p \in Requests |-> IF p = r THEN q ELSE req[p]]
    BY <1>a, Zenon DEF Move, TypeInv, TypeOK
  <2>. HIDE DEF q
  <2>3. Serial'
    BY <2>1, <2>2 DEF IInv, Serial
  <2>4. ASSUME NEW p \in Requests PROVE ReqInv(req[p])'
    <3>1. CASE p = r
      <4>1. ASSUME NEW x, x = q PROVE StackInv(x)' /\ SentInv(x)'
        BY <1>0, <2>1, <4>1, Zenon DEF StackInv, SentInv, Ends, TxnOf
      <4>2. ASSUME NEW x, x = q PROVE PlaceInv(x)'
        <5>1. TxnOf(x)' = TxnOf(R) /\ (TxnOf(R) = "in_progress" => R.obj # NoObj)
          BY <1>0, <2>1, <4>2, Zenon DEF TxnOf
        <5>2. TxnOf(R) = "none" => Usable(x.conn)'
          BY <1>a, <2>1, <4>2 DEF Usable
        <5>. QED  BY <1>0, <1>a, <2>1, <4>2, <5>1, <5>2 DEF PlaceInv, Ends
      <4>. QED  BY <2>2, <3>1, <4>1, <4>2 DEF ReqInv
    <3>2. CASE p # r
      <4>1. req'[p] = req[p] /\ ReqInv(req[p])
        BY <2>2, <3>2 DEF IInv
      <4>2. ASSUME NEW x, ReqInv(x) PROVE ReqInv(x)'
        BY <1>0, <1>a, <4>2, ReqFrame DEF Usable
      <4>. QED  BY <4>1, <4>2
    <3>. QED  BY <3>1, <3>2
  <2>5. ASSUME NEW o \in Objs PROVE ObjInv(o)'
    <3>1. ObjInv(o)
      BY DEF IInv
    <3>. QED  BY <1>0, <1>a, <2>1, <2>2, <3>1 DEF ObjInv, Ends, Usable
  <2>6. OwnInv'
    <3>1. Holds(q) \subseteq Holds(R) \cup {c}
      BY <1>0, <2>1, Zenon DEF Holds, Deferred
    <3>2. \A p \in Requests : Holds(req'[p]) \subseteq
                               IF p = r THEN Holds(req[p]) \cup {c} ELSE Holds(req[p])
      BY <2>2, <3>1
    <3>3. \A p, z \in Requests : p # z => Holds(req'[p]) \cap Holds(req'[z]) = {}
      BY <1>a, <3>2 DEF IInv, OwnInv
    <3>4. \A p \in Requests, o \in Objs :
            sess[o].conn \in Holds(req'[p]) => req'[p].obj = o
      BY <1>a, <2>1, <2>2, <3>2 DEF IInv, OwnInv
    <3>5. \A p \in Requests : Holds(req[p])' = Holds(req'[p])
      BY DEF Holds, Deferred
    <3>. QED  BY <1>0, <3>3, <3>4, <3>5, Zenon DEF IInv, OwnInv
  <2>7. MapInv'
    BY <1>0, Zenon DEF IInv, MapInv
  <2>. QED  BY <2>3, <2>4, <2>5, <2>6, <2>7 DEF IInv
<1>1. CASE /\ R.obj # NoObj /\ HasPinnedConnection(sess[R.obj])
           /\ Move(r, [R EXCEPT !.pc = "txn", !.conn = sess[R.obj].conn])
           /\ UNCHANGED out
  <2>. DEFINE o == R.obj
              c == sess[o].conn
  <2>1. o \in Objs /\ sess[o] \in SessionRecords /\ ObjInv(o)
    BY <1>0, <1>1 DEF Reqs, TypeInv, TypeOK, IInv
  <2>2. c \in Conns
    BY <1>1, <2>1 DEF HasPinnedConnection, SessionRecords
  <2>3. \A p \in Requests \ {r} : c \notin Holds(req[p])
    BY <1>1, <2>1, ObjDistinct, Zenon DEF IInv, OwnInv
  <2>4. \A p \in Objs : sess[p].conn = c => o = p
    BY <2>1, <2>2, ConstantsAssumption, Zenon DEF IInv, OwnInv
  <2>5. TxnOf(R) = sess[o].txn /\ TxnOf(R) # "none"
    BY <1>1 DEF TxnOf, HasPinnedConnection
  <2>6. TxnOf(R) = "in_progress" => c = sess[R.obj].conn /\ R.server = c[1]
    BY <1>0, <2>1, <2>5, Zenon DEF PlaceInv, ObjInv
  <2>7. ~ Ends(R) => TxnOf(R) = "in_progress"
    <3>. SUFFICES ASSUME ~ Ends(R), sess[o].txn # "in_progress" PROVE FALSE
      BY <2>5
    <3>1. sess[o].txn \in {"committed", "aborted"} /\ c # NoConn
      BY <1>1 DEF HasPinnedConnection
    <3>2. PICK p \in Requests : req[p].obj = o /\ Ends(req[p])
      BY <2>1, <3>1, Zenon DEF ObjInv
    <3>. QED  BY <1>1, <3>2, ObjDistinct
  <2>. QED  BY <1>1, <1>a, <2>2, <2>3, <2>4, <2>5, <2>6, <2>7, Zenon
<1>2. CASE /\ R.obj # NoObj => ~ HasPinnedConnection(sess[R.obj])
           /\ \E h \in Handles :
                LET c == <<R.server, h>> IN
                  /\ Fresh(c)
                  /\ Move(r, [R EXCEPT !.pc = "txn", !.conn = c])
                  /\ out' = out \cup {c}
  <2>1. PICK h \in Handles : /\ Fresh(<<R.server, h>>)
                             /\ Move(r, [R EXCEPT !.pc = "txn", !.conn = <<R.server, h>>])
                             /\ out' = out \cup {<<R.server, h>>}
    BY <1>2, Zenon
  <2>. DEFINE c == <<R.server, h>>
  <2>2. R.server \in Servers /\ c \in Conns /\ c[1] = R.server
    BY <1>0, Zenon DEF Placed, Conns
  <2>. HIDE DEF c
  <2>3. Fresh(c) /\ Move(r, [R EXCEPT !.pc = "txn", !.conn = c]) /\ out' = out \cup {c}
    BY <2>1 DEF c
  <2>4. \A p \in Requests \ {r} : c \notin Holds(req[p])
    BY <2>3 DEF Fresh, Holds
  <2>5. \A o \in Objs : sess[o].conn # c
    BY <2>3 DEF Fresh
  <2>6. TxnOf(R) # "in_progress"
    <3>. SUFFICES ASSUME R.obj # NoObj, sess[R.obj].txn = "in_progress" PROVE FALSE
      BY Zenon DEF TxnOf
    <3>1. R.obj \in Objs
      BY <1>0, Zenon DEF Reqs
    <3>2. sess[R.obj].conn \in Conns
      BY <3>1, Zenon DEF IInv, ObjInv
    <3>. QED  BY <1>2, <3>2, ConstantsAssumption DEF HasPinnedConnection
  <2>. QED  BY <1>a, <2>2, <2>3, <2>4, <2>5, <2>6, Zenon
<1>. QED  BY <1>1, <1>2, Zenon DEF Checkout

\* The session accepts the command: it starts, ends or continues a transaction
LEMMA TransactionStep ==
  ASSUME TypeInv, IInv, NEW r \in Requests, Transaction(r)
  PROVE  IInv'
<1>. DEFINE R == req[r]
            o == R.obj
            c == R.conn
<1>0. /\ R \in Reqs /\ Placed(R) /\ StackInv(R) /\ PlaceInv(R) /\ SentInv(R)
      /\ R.pc = "txn" /\ UNCHANGED <<out, mu>>
  BY Zenon DEF Transaction, IInv, ReqInv, TypeInv, TypeOK, PcOK
<1>1. /\ c \in Conns /\ R.defers \in Seq(DeferredCalls)
      /\ R.kind \in TxnKinds => o \in Objs /\ o # NoObj
  BY <1>0, ConstantsAssumption, Zenon DEF PlaceInv, Reqs
<1>2. c \in Holds(R)
  BY <1>0, Zenon DEF Holds
<1>3. o \in Objs => ObjInv(o) /\ sess[o] \in SessionRecords
  BY DEF IInv, TypeInv, TypeOK
<1>4. o \in Objs /\ ~ Ends(R) /\ sess[o].txn \in {"committed", "aborted"}
        => sess[o].conn = NoConn
  BY <1>3, ObjDistinct, ConstantsAssumption, Zenon DEF ObjInv
<1>5. o \in Objs => TxnOf(R) = sess[o].txn
  BY ConstantsAssumption, Zenon DEF TxnOf
<1>a. ASSUME ~ Ends(R), Proceed(r, CloseLater(c)), MapInv',
             \A p \in Objs : p # o => sess'[p] = sess[p],
             \A p \in Objs : p = o =>
               /\ sess'[p].lsid = sess[p].lsid
               /\ sess'[p].conn \in {c, NoConn, sess[p].conn}
               /\ ObjInv(p)'
               /\ sess'[p].txn = "in_progress" => sess'[p].conn = c
               /\ R.kind = "start" => sess'[p].txn = "in_progress" /\ R.sent = 0
      PROVE  IInv'
  <2>. DEFINE d == CloseLater(c) \o R.defers
              q == [R EXCEPT !.pc = "wire", !.defers = d]
  <2>1. Move(r, q)
    BY <1>a DEF Proceed
  <2>2. \A i \in DOMAIN d : d[i] = [call |-> "closeUnlessActive", conn |-> c]
                            \/ \E j \in DOMAIN R.defers : d[i] = R.defers[j]
    <3>1. [call |-> "closeUnlessActive", conn |-> c] \in DeferredCalls
      BY <1>1 DEF DeferredCalls
    <3>. QED  BY <1>1, <3>1, PushStack DEF CloseLater
  <2>. HIDE DEF d
  <2>3. /\ q.pc = "wire" /\ q.kind = R.kind /\ q.lsid = R.lsid /\ q.obj = o
        /\ q.defers = d /\ q.sent = R.sent /\ q.conn = c /\ q.server = R.server
    BY <1>0 DEF Reqs
  <2>. HIDE DEF q
  <2>4. Holds(q) \subseteq Holds(R)
    <3>. SUFFICES ASSUME NEW z \in Holds(q) PROVE z \in Holds(R)
      OBVIOUS
    <3>1. z # NoConn /\ \E i \in DOMAIN d : z = d[i].conn
      BY <2>3, Zenon DEF Holds, Deferred
    <3>2. PICK i \in DOMAIN d : z = d[i].conn
      BY <3>1, Zenon
    <3>3. CASE d[i] = [call |-> "closeUnlessActive", conn |-> c]
      BY <1>2, <3>2, <3>3
    <3>4. CASE \E j \in DOMAIN R.defers : d[i] = R.defers[j]
      BY <3>1, <3>2, <3>4, Zenon DEF Holds, Deferred
    <3>. QED  BY <2>2, <3>3, <3>4, Zenon
  <2>5. o # NoObj => o \in Objs
    BY <1>0, Zenon DEF Reqs
  <2>6. ASSUME NEW x, x = q PROVE ReqInv(x)'
    <3>1. StackInv(x)'
      <4>1. ~ Ends(x) /\ x.defers = d
        BY <1>a, <2>3, <2>6, Zenon DEF Ends
      <4>2. \A j \in DOMAIN R.defers : /\ R.defers[j].call = "closeUnlessActive"
                                        /\ R.defers[j].conn \in Conns
        BY <1>0, <1>a, Zenon DEF StackInv
      <4>3. \A i \in DOMAIN d : d[i].call = "closeUnlessActive" /\ d[i].conn \in Conns
        <5>. SUFFICES ASSUME NEW i \in DOMAIN d
                      PROVE  d[i].call = "closeUnlessActive" /\ d[i].conn \in Conns
          OBVIOUS
        <5>1. CASE d[i] = [call |-> "closeUnlessActive", conn |-> c]
          BY <1>1, <5>1
        <5>2. CASE \E j \in DOMAIN R.defers : d[i] = R.defers[j]
          BY <4>2, <5>2, Zenon
        <5>. QED  BY <2>2, <5>1, <5>2, Zenon
      <4>. QED  BY <4>1, <4>3, Zenon DEF StackInv, Ends
    <3>2. TxnOf(x)' = IF o = NoObj THEN "none" ELSE sess'[o].txn
      BY <2>3, <2>6, Zenon DEF TxnOf
    <3>3. PlaceInv(x)'
      <4>1. R.server = c[1] /\ ~ Ends(x)
        BY <1>0, <1>a, <2>3, <2>6, Zenon DEF PlaceInv, Ends
      <4>2. o # NoObj => R.kind \in TxnKinds /\ sess'[o].lsid = R.lsid
        BY <1>0, <1>a, <2>5, Zenon DEF PlaceInv
      <4>3. TxnOf(x)' = "in_progress" => c = sess'[o].conn
        BY <1>a, <2>5, <3>2, Zenon
      <4>4. R.kind = "start" => TxnOf(x)' = "in_progress"
        BY <1>1, <1>a, <3>2, Zenon DEF TxnKinds
      <4>5. /\ x.pc = "wire" /\ x.kind = R.kind /\ x.lsid = R.lsid /\ x.obj = o
            /\ x.conn = c /\ x.server = R.server
        BY <2>3, <2>6, Zenon
      <4>. QED  BY <1>1, <4>1, <4>2, <4>3, <4>4, <4>5, Zenon DEF PlaceInv, Ends
    <3>4. SentInv(x)'
      BY <1>0, <1>1, <1>a, <2>3, <2>6, Zenon DEF SentInv, Ends, TxnKinds
    <3>. QED  BY <3>1, <3>3, <3>4 DEF ReqInv
  <2>7. \A p \in Objs : p # o /\ ObjInv(p) /\ sess[p].txn = "in_progress"
                         => Usable(sess[p].conn)'
    BY <1>0, <1>a, Zenon DEF ObjInv, Usable
  <2>8. \A p \in Requests \ {r} : \A b \in Holds(req[p]) : Usable(b) => Usable(b)'
    BY <1>0, Zenon DEF Usable
  <2>9. ASSUME NEW x, x = q PROVE IInv'
    BY <1>0, <1>2, <1>a, <2>1, <2>3, <2>4, <2>6, <2>7, <2>8, <2>9, SessionStep, Zenon
  <2>. QED  BY <2>9
<1>6. CASE /\ R.kind \notin TxnKinds \/ R.kind = "statement"
           /\ Proceed(r, CloseLater(c)) /\ UNCHANGED <<sess, sessions>>
  <2>1. ~ Ends(R) /\ R.kind # "start"
    BY <1>6 DEF Ends, TxnKinds
  <2>2. MapInv'
    BY <1>6, Zenon DEF IInv, MapInv
  <2>3. \A p \in Objs : p = o => ObjInv(p)' /\ (sess[p].txn = "in_progress" => sess[p].conn = c)
    BY <1>0, <1>3, <1>4, <1>5, <1>6, <2>1, ZenonT(30) DEF ObjInv, Usable, PlaceInv
  <2>. QED  BY <1>6, <1>a, <2>1, <2>2, <2>3, Zenon
<1>7. CASE /\ R.kind = "start" /\ CanStartTransaction(sess[o])
           /\ sess' = [sess EXCEPT ![o] = StartTransaction(sess[o], R.server, c)]
           /\ Proceed(r, CloseLater(c)) /\ UNCHANGED sessions
  <2>1. ~ Ends(R) /\ o \in Objs /\ sess[o].txn = "none"
    BY <1>1, <1>7, Zenon DEF Ends, TxnKinds, CanStartTransaction
  <2>2. /\ sess'[o].txn = "in_progress" /\ sess'[o].server = R.server
        /\ sess'[o].conn = c /\ sess'[o].lsid = sess[o].lsid
        /\ \A p \in Objs : p # o => sess'[p] = sess[p]
    BY <1>3, <1>7, <2>1 DEF StartTransaction, SessionRecords, TypeInv, TypeOK
  <2>3. R.server = c[1] /\ Usable(c) /\ R.sent = 0
    BY <1>0, <1>5, <1>7, <2>1, Zenon DEF PlaceInv, SentInv, Ends
  <2>4. ASSUME NEW p \in Objs, p = o PROVE ObjInv(p)'
    BY <1>0, <1>1, <2>2, <2>3, <2>4, Zenon DEF ObjInv, Usable
  <2>5. MapInv'
    <3>1. \A p \in Objs : sess'[p].lsid = sess[p].lsid
      BY <2>2, Zenon
    <3>. QED  BY <1>7, <3>1 DEF IInv, MapInv, TypeInv, TypeOK
  <2>. QED  BY <1>7, <1>a, <2>1, <2>2, <2>3, <2>4, <2>5, ZenonT(30)
<1>8. CASE /\ R.kind = "end" /\ sess' = [sess EXCEPT ![o] = EndSession(sess[o])]
           /\ EndSessionEntry(o) /\ Proceed(r, CloseLater(c))
  <2>1. ~ Ends(R) /\ o \in Objs /\ R.kind # "start"
    BY <1>1, <1>8, Zenon DEF Ends, TxnKinds
  <2>. DEFINE s == EndSession(sess[o])
  <2>2. /\ s.lsid = sess[o].lsid
        /\ \/ s.txn = sess[o].txn /\ s.conn = sess[o].conn /\ s.server = sess[o].server
           \/ s.txn = "aborted" /\ s.conn = NoConn
    BY <1>3, <2>1, Zenon DEF EndSession, SessionRecords
  <2>3. sess'[o] = s /\ \A p \in Objs : p # o => sess'[p] = sess[p]
    BY <1>8, <2>1, Zenon DEF TypeInv, TypeOK
  <2>. HIDE DEF s
  <2>4. sess[o].txn = "in_progress" => sess[o].conn = c
    BY <1>0, <1>5, <2>1, Zenon DEF PlaceInv
  <2>5. ASSUME NEW p \in Objs, p = o PROVE ObjInv(p)'
    BY <1>0, <1>3, <1>4, <2>1, <2>2, <2>3, <2>5, Zenon DEF ObjInv, Usable
  <2>6. MapInv'
    <3>1. \A p \in Objs : sess'[p].lsid = sess[p].lsid
      BY <2>2, <2>3, Zenon
    <3>2. \A l \in Lsids : sessions'[l] \in {sessions[l], NoObj}
      BY <1>8, Zenon DEF EndSessionEntry, TypeInv, TypeOK
    <3>. QED  BY <3>1, <3>2, Zenon DEF IInv, MapInv, TypeInv, TypeOK
  <2>. QED  BY <1>8, <1>a, <2>1, <2>2, <2>3, <2>4, <2>5, <2>6, Zenon
<1>9. CASE /\ R.kind \in {"commit", "abort"} /\ CanEndTransaction(sess[o])
           /\ sess' = [sess EXCEPT ![o] = IF R.kind = "commit"
                                          THEN CommitTransaction(sess[o])
                                          ELSE AbortTransaction(sess[o])]
           /\ Proceed(r, CloseAndForget(c)) /\ UNCHANGED sessions
  <2>1. Ends(R) /\ o \in Objs /\ o # NoObj /\ sess[o].txn = "in_progress"
    BY <1>1, <1>9, Zenon DEF Ends, TxnKinds, CanEndTransaction
  <2>2. /\ sess'[o].txn \in {"committed", "aborted"} /\ sess'[o].conn = sess[o].conn
        /\ sess'[o].lsid = sess[o].lsid
        /\ \A p \in Objs : p # o => sess'[p] = sess[p]
    BY <1>3, <1>9, <2>1 DEF CommitTransaction, AbortTransaction, SessionRecords, TypeInv, TypeOK
  <2>3. sess[o].conn = c /\ R.server = c[1]
    BY <1>0, <1>5, <2>1, Zenon DEF PlaceInv
  <2>4. R.defers = <<>>
    BY <1>0, <1>5, <2>1, Zenon DEF StackInv
  <2>5. CloseAndForget(c) \o R.defers = CloseAndForget(c)
    BY <1>1, <2>4, DefersTyping
  <2>. DEFINE d == CloseAndForget(c)
              q == [R EXCEPT !.pc = "wire", !.defers = d]
  <2>6. Move(r, q)
    BY <1>9, <2>5 DEF Proceed
  <2>7. {d[i].conn : i \in DOMAIN d} \subseteq {c, NoConn} /\ d # <<>>
    <3>1. \A x, y, z : DOMAIN <<x, y, z>> = 1 .. 3
      OBVIOUS
    <3>. QED  BY <3>1, ForgetStack DEF CloseAndForget
  <2>. HIDE DEF d
  <2>8. /\ q.pc = "wire" /\ q.kind = R.kind /\ q.lsid = R.lsid /\ q.obj = o
        /\ q.defers = d /\ q.sent = R.sent /\ q.conn = c /\ q.server = R.server
    BY <1>0 DEF Reqs
  <2>. HIDE DEF q
  <2>9. Holds(q) \subseteq Holds(R)
    BY <1>2, <2>7, <2>8, Zenon DEF Holds, Deferred
  <2>10. ASSUME NEW x, x = q PROVE ReqInv(x)'
    <3>1. TxnOf(x)' = sess'[o].txn
      BY <2>1, <2>8, <2>10, Zenon DEF TxnOf
    <3>2. x.defers = CloseAndForget(c) /\ x.obj = o /\ x.kind = R.kind
      BY <2>8, <2>10, Zenon DEF d
    <3>3. StackInv(x)'
      BY <1>1, <2>1, <2>2, <2>3, <3>1, <3>2, Zenon DEF StackInv, Ends
    <3>4. PlaceInv(x)'
      BY <1>0, <1>1, <1>9, <2>1, <2>2, <2>3, <2>8, <2>10, <3>1, <3>2, ZenonT(30) DEF PlaceInv, Ends
    <3>5. SentInv(x)'
      BY <1>0, <2>1, <2>4, <2>8, <2>10, Zenon DEF SentInv, Ends
    <3>. QED  BY <3>3, <3>4, <3>5 DEF ReqInv
  <2>11. ASSUME NEW p \in Objs, p = o PROVE ObjInv(p)'
    <3>1. req'[r] = q
      BY <2>6 DEF Move, TypeInv, TypeOK
    <3>2. req'[r].obj = p /\ Ends(req[r])' /\ req'[r].defers # <<>>
      BY <2>1, <2>7, <2>8, <2>11, <3>1, Zenon DEF Ends
    <3>. QED  BY <2>2, <2>11, <3>2, Zenon DEF ObjInv
  <2>12. MapInv'
    <3>1. \A p \in Objs : sess'[p].lsid = sess[p].lsid
      BY <2>2, Zenon
    <3>. QED  BY <1>9, <3>1, Zenon DEF IInv, MapInv, TypeInv, TypeOK
  <2>13. \A p \in Objs : p # o /\ ObjInv(p) /\ sess[p].txn = "in_progress"
                          => Usable(sess[p].conn)'
    BY <1>0, <2>2, Zenon DEF ObjInv, Usable
  <2>14. \A p \in Requests \ {r} : \A b \in Holds(req[p]) : Usable(b) => Usable(b)'
    BY <1>0, Zenon DEF Usable
  <2>15. ASSUME NEW x, x = q PROVE IInv'
    BY <1>0, <2>2, <2>6, <2>8, <2>9, <2>10, <2>11, <2>12, <2>13, <2>14, <2>15, SessionStep, Zenon
  <2>. QED  BY <2>15
<1>. QED  BY <1>6, <1>7, <1>8, <1>9, Zenon DEF Transaction

\* A deferred call closes only a connection of its own request, and never one
\* that a transaction in progress has pinned
LEMMA RunDeferStep ==
  ASSUME TypeInv, IInv, NEW r \in Requests, RunDefer(r)
  PROVE  IInv'
<1>. DEFINE R == req[r]
            o == R.obj
            d == Head(R.defers)
            t == Tail(R.defers)
            q == [R EXCEPT !.defers = t]
<1>0. /\ R \in Reqs /\ Placed(R) /\ StackInv(R) /\ PlaceInv(R) /\ SentInv(R)
      /\ R.pc = "return" /\ R.defers # <<>> /\ Move(r, q)
      /\ UNCHANGED <<sessions, mu>>
  BY DEF RunDefer, IInv, ReqInv, TypeInv, TypeOK, PcOK
<1>1. R.defers \in Seq(DeferredCalls) /\ (o # NoObj => o \in Objs)
  BY <1>0 DEF Reqs
<1>2. /\ 1 \in DOMAIN R.defers /\ d = R.defers[1]
      /\ \A i \in DOMAIN t : \E j \in DOMAIN R.defers : t[i] = R.defers[j]
  BY <1>0, <1>1, PopStack
<1>3. req'[r] = q
  BY <1>0 DEF Move, TypeInv, TypeOK
<1>. HIDE DEF t
<1>4. /\ q.pc = "return" /\ q.kind = R.kind /\ q.lsid = R.lsid /\ q.obj = o
      /\ q.defers = t /\ q.sent = R.sent
  BY <1>0 DEF Reqs
<1>. HIDE DEF q, d
<1>5. Holds(q) \subseteq Holds(R)
  BY <1>0, <1>2, <1>4 DEF Holds, Deferred
<1>6. d.conn \in Conns => d.conn \in Holds(R)
  BY <1>2, ConstantsAssumption, Zenon DEF Holds, Deferred
<1>7. o \in Objs => ObjInv(o) /\ sess[o] \in SessionRecords /\ o # NoObj
  BY ConstantsAssumption, Zenon DEF IInv, TypeInv, TypeOK
<1>a. ASSUME out' = out \/ (out' = out \ {d.conn} /\ d.conn \in Conns),
             \A p \in Objs : p # o => sess'[p] = sess[p],
             \A p \in Objs : p = o => /\ sess'[p].conn \in {NoConn, sess[p].conn}
                                     /\ sess'[p].lsid = sess[p].lsid
                                     /\ ObjInv(p)',
             \A x : x = q => StackInv(x)'
      PROVE  IInv'
  <2>1. \A p \in Requests \ {r} : \A b \in Holds(req[p]) : Usable(b) => Usable(b)'
    BY <1>0, <1>6, <1>a, Zenon DEF Usable, IInv, OwnInv
  <2>2. \A p \in Objs : p # o /\ ObjInv(p) /\ sess[p].txn = "in_progress"
                         => Usable(sess[p].conn)'
    <3>. SUFFICES ASSUME NEW p \in Objs, p # o, ObjInv(p), sess[p].txn = "in_progress"
                  PROVE  Usable(sess[p].conn)'
      OBVIOUS
    <3>1. sess[p].conn # d.conn \/ d.conn \notin Conns
      BY <1>6, Zenon DEF IInv, OwnInv
    <3>2. sess'[p] = sess[p] /\ Usable(sess[p].conn)
      BY <1>a, Zenon DEF ObjInv
    <3>. QED  BY <1>0, <1>a, <3>1, <3>2, Zenon DEF Usable
  <2>3. ASSUME NEW x, x = q PROVE ReqInv(x)'
    <3>1. PlaceInv(x)'
      BY <1>0, <1>1, <1>4, <1>a, <2>3, Zenon DEF PlaceInv
    <3>2. SentInv(x)'
      BY <1>0, <1>4, <2>3, Zenon DEF SentInv
    <3>. QED  BY <1>a, <2>3, <3>1, <3>2, Zenon DEF ReqInv
  <2>4. MapInv'
    <3>1. \A p \in Objs : sess'[p].lsid = sess[p].lsid
      BY <1>a, Zenon
    <3>. QED  BY <1>0, <3>1, Zenon DEF IInv, MapInv, TypeInv, TypeOK
  <2>5. ASSUME NEW x, x = q PROVE IInv'
    BY <1>0, <1>4, <1>5, <1>a, <2>1, <2>2, <2>3, <2>4, <2>5, SessionStep, Zenon
  <2>. QED  BY <2>5
<1>8. CASE ~ Ends(R)
  <2>1. d.call = "closeUnlessActive" /\ d.conn \in Conns
    BY <1>0, <1>2, <1>8, Zenon DEF StackInv
  <2>2. sess' = sess /\ out' = IF o # NoObj /\ IsTransactionActive(sess[o])
                              THEN out ELSE out \ {d.conn}
    BY <2>1, Zenon DEF RunDefer, d
  <2>3. ASSUME NEW x, x = q PROVE StackInv(x)'
    <3>1. ~ Ends(x) /\ x.defers = t
      BY <1>4, <1>8, <2>3, Zenon DEF Ends
    <3>2. \A j \in DOMAIN R.defers : /\ R.defers[j].call = "closeUnlessActive"
                                      /\ R.defers[j].conn \in Conns
      BY <1>0, <1>8, Zenon DEF StackInv
    <3>3. \A i \in DOMAIN t : t[i].call = "closeUnlessActive" /\ t[i].conn \in Conns
      BY <1>2, <3>2
    <3>. QED  BY <3>1, <3>3, Zenon DEF StackInv, Ends
  <2>4. ASSUME NEW p \in Objs, p = o PROVE ObjInv(p)'
    <3>1. sess[p].txn \in {"committed", "aborted"} => sess[p].conn = NoConn
      BY <1>7, <1>8, <2>4, ObjDistinct, Zenon DEF ObjInv
    <3>2. sess[p].txn = "in_progress" => out' = out
      BY <1>7, <2>2, <2>4, Zenon DEF IsTransactionActive
    <3>. QED  BY <1>0, <1>7, <2>2, <2>4, <3>1, <3>2, Zenon DEF ObjInv, Usable
  <2>. QED  BY <1>a, <2>1, <2>2, <2>3, <2>4, Zenon
<1>9. CASE Ends(R)
  <2>0. Ends(q) /\ o \in Objs
    BY <1>0, <1>4, <1>9, Zenon DEF Ends, StackInv
  <2>1. ASSUME NEW c \in Conns, R.defers = CloseAndForget(c), sess[o].conn = c,
               TxnOf(R) \in {"committed", "aborted"}
        PROVE  IInv'
    <3>1. d = [call |-> "close", conn |-> c] /\ t = <<ResetCall, UnpinCall>>
      BY <2>1, ForgetStack, Zenon DEF d, t
    <3>2. sess' = sess /\ out' = out \ {d.conn} /\ d.conn \in Conns
      BY <2>1, <3>1 DEF RunDefer, d
    <3>3. ASSUME NEW x, x = q PROVE StackInv(x)'
      BY <1>4, <2>0, <2>1, <3>1, <3>2, <3>3, Zenon DEF StackInv, Ends, TxnOf
    <3>4. sess[o].txn \in {"committed", "aborted"}
      BY <1>7, <2>0, <2>1, Zenon DEF TxnOf
    <3>5. ASSUME NEW p \in Objs, p = o PROVE ObjInv(p)'
      <4>1. req'[r].obj = p /\ Ends(req[r])' /\ req'[r].defers # <<>>
        BY <1>3, <1>4, <2>0, <3>1, <3>5, ForgetStack, Zenon DEF Ends
      <4>. QED  BY <3>2, <3>4, <3>5, <4>1, Zenon DEF ObjInv
    <3>. QED  BY <1>a, <3>2, <3>3, <3>5, Zenon
  <2>2. CASE R.defers = <<ResetCall, UnpinCall>>
    <3>1. d = ResetCall /\ t = <<UnpinCall>>
      BY <2>2, ForgetStack DEF d, t
    <3>2. sess' = [sess EXCEPT ![o] = ResetTransactionState(sess[o])] /\ out' = out
      BY <3>1 DEF RunDefer, d, ResetCall
    <3>3. /\ sess'[o].txn = "none" /\ sess'[o].conn = NoConn /\ sess'[o].lsid = sess[o].lsid
          /\ \A p \in Objs : p # o => sess'[p] = sess[p]
      BY <1>7, <2>0, <3>2 DEF ResetTransactionState, SessionRecords, TypeInv, TypeOK
    <3>4. ASSUME NEW x, x = q PROVE StackInv(x)'
      BY <1>4, <1>7, <2>0, <3>1, <3>3, <3>4, Zenon DEF StackInv, Ends, TxnOf
    <3>5. ASSUME NEW p \in Objs, p = o PROVE ObjInv(p)'
      BY <3>3, <3>5, Zenon DEF ObjInv
    <3>6. out' = out
      BY <3>2
    <3>. QED  BY <1>a, <3>3, <3>4, <3>5, <3>6, Zenon
  <2>3. CASE R.defers = <<UnpinCall>> /\ TxnOf(R) = "none"
    <3>1. d = UnpinCall /\ t = <<>>
      BY <2>3, ForgetStack, Zenon DEF d, t
    <3>2. sess' = [sess EXCEPT ![o] = UnpinTransaction(sess[o])] /\ out' = out
      BY <3>1 DEF RunDefer, d, UnpinCall
    <3>3. /\ sess'[o].txn = sess[o].txn /\ sess'[o].conn = NoConn
          /\ sess'[o].lsid = sess[o].lsid
          /\ \A p \in Objs : p # o => sess'[p] = sess[p]
      BY <1>7, <2>0, <3>2 DEF UnpinTransaction, SessionRecords, TypeInv, TypeOK
    <3>4. ASSUME NEW x, x = q PROVE StackInv(x)'
      BY <1>4, <2>0, <3>1, <3>4, Zenon DEF StackInv, Ends
    <3>5. sess[o].txn = "none"
      BY <1>7, <2>0, <2>3, Zenon DEF TxnOf
    <3>6. ASSUME NEW p \in Objs, p = o PROVE ObjInv(p)'
      BY <3>3, <3>5, <3>6, Zenon DEF ObjInv
    <3>7. out' = out
      BY <3>2
    <3>. QED  BY <1>a, <3>3, <3>4, <3>6, <3>7, Zenon
  <2>. QED  BY <1>0, <1>9, <2>1, <2>2, <2>3, Zenon DEF StackInv
<1>. QED  BY <1>8, <1>9

\* The steps around the handler take no connection from a usable state: Close
\* marks the client closed as it disconnects
LEMMA SharedSteps ==
  ASSUME TypeInv, IInv,
         \/ CleanupInactiveSessions
         \/ \E m \in Mongos, l \in Lsids : TransactionExpires(m, l)
         \/ \E m \in Mongos : CloseCall(m) \/ CloseFinish(m)
  PROVE  IInv'
<1>1. UNCHANGED <<req, sess>>
  BY DEF CleanupInactiveSessions, TransactionExpires, CloseCall, CloseFinish
<1>2. \A l \in Lsids : sessions'[l] \in {sessions[l], NoObj}
  BY Zenon DEF CleanupInactiveSessions, TransactionExpires, CloseCall, CloseFinish, TypeInv, TypeOK
<1>3. ASSUME NEW c \in Conns, Usable(c) PROVE Usable(c)'
  <2>1. c[1][1] \in Mongos
    BY DEF Conns, Servers
  <2>2. CASE UNCHANGED <<out, mu>>
    BY <1>3, <2>2 DEF Usable
  <2>3. ASSUME NEW m \in Mongos, CloseCall(m) PROVE Usable(c)'
    BY <1>3, <2>1, <2>3, Zenon DEF Usable, CloseCall, TypeInv, TypeOK
  <2>4. ASSUME NEW m \in Mongos, CloseFinish(m) PROVE Usable(c)'
    BY <1>3, <2>1, <2>4, Zenon DEF Usable, CloseFinish, TypeInv, TypeOK
  <2>. QED  BY <2>2, <2>3, <2>4 DEF CleanupInactiveSessions, TransactionExpires
<1>4. ASSUME NEW r \in Requests PROVE ReqInv(req[r])'
  <2>1. ReqInv(req[r]) /\ (req[r].pc = "txn" => req[r].conn \in Conns)
    BY Zenon DEF IInv, ReqInv, PlaceInv
  <2>2. ASSUME NEW x, ReqInv(x), x.pc = "txn" => x.conn \in Conns PROVE ReqInv(x)'
    <3>1. x.pc = "txn" /\ Usable(x.conn) => Usable(x.conn)'
      BY <1>3, <2>2
    <3>. QED  BY <1>1, <2>2, <3>1, ReqFrame, Zenon
  <2>. QED  BY <1>1, <2>1, <2>2, Zenon
<1>5. ASSUME NEW o \in Objs PROVE ObjInv(o)'
  <2>1. ObjInv(o)
    BY DEF IInv
  <2>2. sess[o].txn = "in_progress" => Usable(sess[o].conn)'
    <3>. SUFFICES ASSUME NEW c \in Conns, c = sess[o].conn, Usable(c)
                  PROVE  Usable(c)'
      BY <1>1, <2>1, Zenon DEF ObjInv, Usable
    <3>. QED  BY <1>3
  <2>. QED  BY <1>1, <2>1, <2>2, Zenon DEF ObjInv, Ends
<1>6. Serial' /\ OwnInv'
  <2>1. \A r \in Requests : Holds(req[r])' = Holds(req[r])
    BY <1>1, Zenon DEF Holds, Deferred
  <2>. QED  BY <1>1, <2>1, Zenon DEF IInv, Serial, OwnInv
<1>7. MapInv'
  BY <1>1, <1>2 DEF IInv, MapInv
<1>. QED  BY <1>4, <1>5, <1>6, <1>7, Zenon DEF IInv

\* Every step keeps the invariant when sessions are serial
LEMMA InvStep == SerialSessions /\ TypeInv /\ IInv /\ [Next]_vars => IInv'
<1>. SUFFICES ASSUME SerialSessions, TypeInv, IInv, [Next]_vars PROVE IInv'
  OBVIOUS
<1>1. ASSUME NEW r \in Requests,
             Arrive(r) \/ Progress(r) \/ SelectFails(r) \/ CheckoutFails(r)
      PROVE  IInv'
  BY <1>1, EarlySteps, CreateStep, CheckoutStep, TransactionStep, WireSteps, RunDeferStep
     DEF Progress
<1>2. CASE UNCHANGED vars
  <2>1. \A r \in Requests : ReqInv(req[r])'
    <3>1. ASSUME NEW x, ReqInv(x) PROVE ReqInv(x)'
      BY <1>2, <3>1, ReqFrame DEF vars, Usable
    <3>2. \A r \in Requests : ReqInv(req[r]) /\ req'[r] = req[r]
      BY <1>2 DEF vars, IInv
    <3>. QED  BY <3>1, <3>2
  <2>2. \A o \in Objs : ObjInv(o)'
    BY <1>2, Zenon DEF vars, IInv, ObjInv, Usable, Ends
  <2>3. Serial' /\ OwnInv' /\ MapInv'
    <3>1. \A r \in Requests : Holds(req[r])' = Holds(req[r])
      BY <1>2 DEF vars, Holds, Deferred
    <3>. QED  BY <1>2, <3>1, Zenon DEF vars, IInv, Serial, OwnInv, MapInv
  <2>. QED  BY <2>1, <2>2, <2>3 DEF IInv
<1>. QED  BY <1>1, <1>2, SharedSteps DEF Next

\* The inductive invariant holds throughout when sessions are serial
THEOREM Invariance == SerialSessions /\ Spec => [](TypeInv /\ IInv)
<1>. SUFFICES ASSUME SerialSessions PROVE Spec => [](TypeInv /\ IInv)
  OBVIOUS
<1>1. Init => TypeInv /\ IInv
  BY TypeInit, InvInit
<1>2. TypeInv /\ IInv /\ [Next]_vars => TypeInv' /\ IInv'
  BY TypeStep, InvStep
<1>. QED  BY <1>1, <1>2, PTL DEF Spec

\* No two requests or transactions share a connection, and a pinned one is used
\* only by its session's requests: RoundTrip's checkout, its pins and its
\* deferred closers never disagree about who owns a connection.
THEOREM ExclusiveUseCorrect == SerialSessions /\ Spec => []ExclusiveUse
<1>1. TypeInv /\ IInv => ExclusiveUse
  <2>. SUFFICES ASSUME IInv PROVE ExclusiveUse
    OBVIOUS
  <2>1. \A o \in Objs : Pins(o) \subseteq {sess[o].conn} /\ NoConn \notin Pins(o)
    BY ConstantsAssumption, Zenon DEF Pins, InTransaction, IInv, ObjInv
  <2>. QED  BY <2>1 DEF ExclusiveUse, IInv, OwnInv
<1>. QED  BY <1>1, Invariance, PTL

\* A transaction in progress keeps its connection out of the driver's pool until
\* its client ends it or the whole Mongo client is closed.
THEOREM PinnedStaysCheckedOutCorrect == SerialSessions /\ Spec => []PinnedStaysCheckedOut
<1>1. TypeInv /\ IInv => PinnedStaysCheckedOut
  BY Zenon DEF PinnedStaysCheckedOut, Pins, InTransaction, IInv, ObjInv, Usable
<1>. QED  BY <1>1, Invariance, PTL

\* Every command of a transaction goes out on the connection its start pinned,
\* and its errors are processed by the server of that connection.
THEOREM SentOnPinnedConnectionCorrect == SerialSessions /\ Spec => []SentOnPinnedConnection
<1>1. TypeInv /\ IInv => SentOnPinnedConnection
  <2>. SUFFICES ASSUME TypeInv, IInv, NEW r \in Requests, req[r].pc \in {"wire", "reply"}
                PROVE  /\ req[r].server = req[r].conn[1]
                       /\ \/ Ends(req[r])
                          \/ req[r].kind \in {"start", "statement"} /\ InTransaction(req[r].obj)
                          => req[r].conn = sess[req[r].obj].conn
    BY Zenon DEF SentOnPinnedConnection, Ends
  <2>1. StackInv(req[r]) /\ PlaceInv(req[r])
    BY DEF IInv, ReqInv
  <2>2. req[r].server = req[r].conn[1]
    BY <2>1, Zenon DEF PlaceInv
  <2>3. CASE Ends(req[r])
    <3>1. req[r].defers = CloseAndForget(req[r].conn)
      BY <2>1, <2>3, Zenon DEF PlaceInv
    <3>2. PICK c \in Conns : /\ CloseAndForget(req[r].conn) = CloseAndForget(c)
                             /\ sess[req[r].obj].conn = c
      BY <2>1, <2>3, <3>1, ForgetStack, Zenon DEF StackInv
    <3>3. Head(CloseAndForget(req[r].conn)).conn = Head(CloseAndForget(c)).conn
      BY <3>2
    <3>4. req[r].conn = c
      BY <3>3, ForgetStack
    <3>. QED  BY <2>2, <3>2, <3>4, Zenon
  <2>4. CASE InTransaction(req[r].obj) /\ req[r].kind \in {"start", "statement"}
    <3>1. req[r].obj # NoObj
      BY <2>1, <2>4, ConstantsAssumption, Zenon DEF PlaceInv, TxnKinds
    <3>. QED  BY <2>1, <2>2, <2>4, <3>1, Zenon DEF PlaceInv, InTransaction, TxnOf
  <2>. QED  BY <2>2, <2>3, <2>4, Zenon
<1>. QED  BY <1>1, Invariance, PTL

\* The retry loop never sends a command that starts or ends a transaction twice.
THEOREM BoundarySentOnceCorrect == SerialSessions /\ Spec => []BoundarySentOnce
<1>1. TypeInv /\ IInv => BoundarySentOnce
  <2>1. IInv => \A r \in Requests : SentInv(req[r])
    BY DEF IInv, ReqInv
  <2>2. \A n \in {0, 1} : n <= 1
    OBVIOUS
  <2>. QED  BY <2>1, <2>2 DEF BoundarySentOnce, SentInv
<1>. QED  BY <1>1, Invariance, PTL

-----------------------------------------------------------------------------
(* Connections that are lost *)

\* Deferring the close of a connection adds it to those a request will close
LEMMA PushDeferred ==
  ASSUME NEW c \in Conns, NEW R \in Reqs, NEW q, q.defers = CloseLater(c) \o R.defers
  PROVE  Deferred(q) = Deferred(R) \cup {c}
<1>. DEFINE x == [call |-> "closeUnlessActive", conn |-> c]
            t == R.defers
            d == <<x>> \o t
<1>1. x \in DeferredCalls /\ t \in Seq(DeferredCalls) /\ x.conn = c
  BY DEF DeferredCalls, Reqs
<1>2. /\ Len(t) \in Nat /\ DOMAIN t = 1 .. Len(t) /\ DOMAIN d = 1 .. (1 + Len(t))
      /\ d[1] = x /\ \A j \in DOMAIN t : d[j + 1] = t[j]
  <2>. HIDE DEF x
  <2>. QED  BY <1>1
<1>3. \A i \in DOMAIN d : d[i] = x \/ \E j \in DOMAIN t : d[i] = t[j]
  BY <1>1, PushStack
<1>4. q.defers = d
  BY DEF CloseLater
<1>5. c # NoConn
  BY ConstantsAssumption
<1>. HIDE DEF d, t, x
<1>6. 1 \in DOMAIN d /\ \A j \in DOMAIN t : j + 1 \in DOMAIN d
  BY <1>2
<1>7. {d[i].conn : i \in DOMAIN d} = {t[j].conn : j \in DOMAIN t} \cup {c}
  <2>1. \A i \in DOMAIN d : d[i].conn \in {t[j].conn : j \in DOMAIN t} \cup {c}
    BY <1>1, <1>3
  <2>2. c \in {d[i].conn : i \in DOMAIN d}
    BY <1>1, <1>2, <1>6
  <2>3. \A j \in DOMAIN t : t[j].conn \in {d[i].conn : i \in DOMAIN d}
    <3>. SUFFICES ASSUME NEW j \in DOMAIN t PROVE t[j].conn \in {d[i].conn : i \in DOMAIN d}
      OBVIOUS
    <3>1. j + 1 \in DOMAIN d /\ d[j + 1] = t[j]
      BY <1>2, <1>6
    <3>. QED  BY <3>1, Zenon
  <2>. QED  BY <2>1, <2>2, <2>3, Zenon
<1>. QED  BY <1>4, <1>5, <1>7 DEF Deferred, t

\* Running a deferred call takes at most its own connection from them
LEMMA PopDeferred ==
  ASSUME NEW R \in Reqs, R.defers # <<>>, NEW q, q.defers = Tail(R.defers)
  PROVE  /\ Deferred(q) \subseteq Deferred(R)
         /\ Deferred(R) \subseteq Deferred(q) \cup {Head(R.defers).conn}
<1>. DEFINE t == R.defers
            u == Tail(t)
<1>1. t \in Seq(DeferredCalls)
  BY DEF Reqs
<1>. HIDE DEF t
<1>2. /\ t # <<>> /\ q.defers = u /\ Head(R.defers) = Head(t) /\ R.defers = t
  BY DEF t
<1>3. \A i \in DOMAIN u : \E j \in DOMAIN t : u[i] = t[j]
  BY <1>1, <1>2, PopStack
<1>4. \A j \in DOMAIN t : t[j] = Head(t) \/ \E i \in DOMAIN u : t[j] = u[i]
  <2>1. /\ Len(t) \in Nat /\ Len(t) >= 1 /\ DOMAIN t = 1 .. Len(t) /\ Head(t) = t[1]
        /\ DOMAIN u = 1 .. (Len(t) - 1)
    BY <1>1, <1>2
  <2>2. \A i \in DOMAIN u : u[i] = t[i + 1]
    BY <1>1, <1>2, <2>1
  <2>. SUFFICES ASSUME NEW j \in DOMAIN t, j # 1
                PROVE  \E i \in DOMAIN u : t[j] = u[i]
    BY <2>1, Zenon
  <2>3. j - 1 \in DOMAIN u /\ (j - 1) + 1 = j
    BY <2>1
  <2>. HIDE DEF u
  <2>. QED  BY <2>2, <2>3
<1>. HIDE DEF u
<1>5. \A j \in DOMAIN t : t[j].conn \in {u[i].conn : i \in DOMAIN u} \cup {Head(t).conn}
  BY <1>4, Zenon
<1>6. \A i \in DOMAIN u : u[i].conn \in {t[j].conn : j \in DOMAIN t}
  BY <1>3, Zenon
<1>7. /\ Deferred(q) = {u[i].conn : i \in DOMAIN u} \ {NoConn}
      /\ Deferred(R) = {t[j].conn : j \in DOMAIN t} \ {NoConn}
  BY <1>2, Zenon DEF Deferred
<1>. QED  BY <1>2, <1>5, <1>6, <1>7

\* A request without a session only defers closers that close, and every
\* connection out of the driver's pools is in the hands of such a request
PlainRequest(q) ==
  /\ q.kind \notin TxnKinds /\ q.obj = NoObj
  /\ \A i \in DOMAIN q.defers : q.defers[i].call = "closeUnlessActive"
  /\ q.pc = "txn" => q.conn \in Conns

AllHeld == /\ \A r \in Requests : PlainRequest(req[r])
           /\ \A c \in out : \E r \in Requests : c \in Holds(req[r])

\* A request that keeps, or gives back, what it holds keeps everything held
LEMMA PlainMove ==
  ASSUME TypeInv, AllHeld, NEW r \in Requests, NEW q, Move(r, q), PlainRequest(q),
         \A c \in out' : \/ c \in Holds(q)
                         \/ c \in out /\ c \notin Holds(req[r])
  PROVE  AllHeld'
<1>1. req' = [p \in Requests |-> IF p = r THEN q ELSE req[p]]
  BY Zenon DEF Move, TypeInv, TypeOK
<1>2. \A p \in Requests : PlainRequest(req'[p])
  BY <1>1 DEF AllHeld
<1>3. \A p \in Requests : PlainRequest(req[p])' <=> PlainRequest(req'[p])
  BY Zenon DEF PlainRequest
<1>4. \A p \in Requests : Holds(req[p])' = Holds(req'[p])
  BY Zenon DEF Holds, Deferred
<1>5. \A c \in out' : \E p \in Requests : c \in Holds(req'[p])
  BY <1>1 DEF AllHeld
<1>. QED  BY <1>2, <1>3, <1>4, <1>5, Zenon DEF AllHeld

\* Before and after the checkout of a connection only the place changes
LEMMA PlainLocal ==
  ASSUME TypeInv, AllHeld, NEW r \in Requests, NEW q, Move(r, q), out' = out,
         req[r].pc # "txn", q.pc # "txn", q.kind \notin TxnKinds, q.obj = NoObj,
         q.defers = req[r].defers
  PROVE  AllHeld'
<1>1. PlainRequest(q)
  BY Zenon DEF AllHeld, PlainRequest
<1>2. Holds(q) = Holds(req[r])
  BY Zenon DEF Holds, Deferred
<1>. QED  BY <1>1, <1>2, PlainMove, Zenon

\* Every step keeps every connection in somebody's hands
LEMMA PlainStep ==
  ASSUME Kinds \cap TxnKinds = {}, TypeInv, AllHeld, [Next]_vars
  PROVE  AllHeld'
<1>r. ASSUME NEW r \in Requests,
             Arrive(r) \/ Progress(r) \/ SelectFails(r) \/ CheckoutFails(r)
      PROVE  AllHeld'
  <2>. DEFINE R == req[r]
  <2>0. R \in Reqs /\ Placed(R) /\ PlainRequest(R) /\ req \in [Requests -> Reqs]
    BY DEF TypeInv, TypeOK, PcOK, AllHeld
  <2>1. R.kind \notin TxnKinds /\ R.obj = NoObj
    BY <2>0, Zenon DEF PlainRequest
  <2>2. CASE Arrive(r)
    <3>1. PICK k, m, l, c :
            /\ k \in Kinds
            /\ Move(r, [R EXCEPT !.pc = "lock", !.kind = k, !.mongo = m,
                                 !.lsid = l, !.cursor = c])
      BY <2>2, ZenonT(30) DEF Arrive
    <3>. DEFINE q == [R EXCEPT !.pc = "lock", !.kind = k, !.mongo = m,
                               !.lsid = l, !.cursor = c]
    <3>2. q.pc = "lock" /\ q.kind = k /\ q.obj = R.obj /\ q.defers = R.defers
      BY <2>0, Zenon DEF Reqs
    <3>3. R.pc # "txn" /\ out' = out
      BY <2>2 DEF Arrive
    <3>4. Move(r, q) /\ k \notin TxnKinds
      BY <3>1
    <3>. HIDE DEF q
    <3>. QED  BY <2>1, <3>2, <3>3, <3>4, PlainLocal, Zenon
  <2>3. ~ Lookup(r) /\ ~ Create(r) /\ ~ TransactionRefused(r)
    BY <2>0, <2>1, ZenonT(30) DEF Lookup, Create, TransactionRefused, Placed, TxnKinds
  <2>4. CASE \/ Enter(r) \/ Select(r) \/ SelectFails(r) \/ CheckoutFails(r)
             \/ WireOk(r) \/ WireFails(r) \/ Reply(r)
    <3>1. PICK q : Move(r, q) /\ Quietly(R, q) /\ out' = out
      BY <2>4, QuietSteps
    <3>2. R.pc # "txn"
      BY <2>4, ZenonT(30) DEF Enter, Select, SelectFails, CheckoutFails, WireOk, WireFails, Reply
    <3>. QED  BY <2>1, <3>1, <3>2, PlainLocal, Zenon DEF Quietly
  <2>5. CASE Checkout(r)
    <3>1. PICK h \in Handles : /\ Move(r, [R EXCEPT !.pc = "txn", !.conn = <<R.server, h>>])
                               /\ out' = out \cup {<<R.server, h>>}
      BY <2>1, <2>5, ZenonT(30) DEF Checkout
    <3>. DEFINE c == <<R.server, h>>
                q == [R EXCEPT !.pc = "txn", !.conn = c]
    <3>2. R.pc = "checkout"
      BY <2>5, ZenonT(30) DEF Checkout
    <3>3. c \in Conns
      BY <2>0, <3>2, Zenon DEF Placed, Conns
    <3>4. Move(r, q) /\ out' = out \cup {c}
      BY <3>1
    <3>. HIDE DEF c
    <3>5. /\ q.pc = "txn" /\ q.kind = R.kind /\ q.obj = R.obj /\ q.defers = R.defers
          /\ q.conn = c
      BY <2>0 DEF Reqs
    <3>. HIDE DEF q
    <3>6. Holds(q) = Holds(R) \cup {c}
      BY <3>2, <3>5 DEF Holds, Deferred
    <3>7. PlainRequest(q)
      BY <2>0, <3>3, <3>5, Zenon DEF PlainRequest
    <3>. QED  BY <3>4, <3>6, <3>7, PlainMove
  <2>6. CASE Transaction(r)
    <3>. DEFINE c == R.conn
                d == CloseLater(c) \o R.defers
                q == [R EXCEPT !.pc = "wire", !.defers = d]
    <3>1. R.pc = "txn" /\ out' = out /\ Proceed(r, CloseLater(c))
      BY <2>1, <2>6, Zenon DEF Transaction, TxnKinds
    <3>2. c \in Conns
      BY <2>0, <3>1, Zenon DEF PlainRequest
    <3>3. Move(r, q)
      BY <3>1 DEF Proceed
    <3>4. \A i \in DOMAIN d : d[i].call = "closeUnlessActive"
      <4>. SUFFICES ASSUME NEW i \in DOMAIN d PROVE d[i].call = "closeUnlessActive"
        BY Zenon
      <4>. DEFINE x == [call |-> "closeUnlessActive", conn |-> c]
      <4>1. x \in DeferredCalls /\ R.defers \in Seq(DeferredCalls) /\ d = <<x>> \o R.defers
        BY <2>0, <3>2, Zenon DEF DeferredCalls, Reqs, CloseLater
      <4>2. x.call = "closeUnlessActive"
        BY Zenon
      <4>. HIDE DEF x, d
      <4>3. d[i] = x \/ \E j \in DOMAIN R.defers : d[i] = R.defers[j]
        BY <4>1, PushStack
      <4>. QED  BY <2>0, <4>2, <4>3, Zenon DEF PlainRequest
    <3>. HIDE DEF d
    <3>5. q.pc = "wire" /\ q.kind = R.kind /\ q.obj = R.obj /\ q.defers = d
      BY <2>0 DEF Reqs
    <3>. HIDE DEF q
    <3>6. Deferred(q) = Deferred(R) \cup {c}
      BY <2>0, <3>2, <3>5, PushDeferred, ZenonT(30) DEF d
    <3>7. Holds(q) = Holds(R)
      BY <3>1, <3>5, <3>6, Zenon DEF Holds
    <3>8. PlainRequest(q)
      BY <2>1, <3>4, <3>5 DEF PlainRequest
    <3>. QED  BY <3>1, <3>3, <3>7, <3>8, PlainMove, Zenon
  <2>7. CASE RunDefer(r)
    <3>. DEFINE t == Tail(R.defers)
                q == [R EXCEPT !.defers = t]
    <3>1. R.pc = "return" /\ R.defers # <<>> /\ Move(r, q)
      BY <2>7 DEF RunDefer
    <3>2. R.defers \in Seq(DeferredCalls)
      BY <2>0, Zenon DEF Reqs
    <3>3. /\ 1 \in DOMAIN R.defers /\ Head(R.defers) = R.defers[1]
          /\ \A i \in DOMAIN t : \E j \in DOMAIN R.defers : t[i] = R.defers[j]
      BY <3>1, <3>2, PopStack
    <3>4. Head(R.defers).call = "closeUnlessActive"
      BY <2>0, <3>3, Zenon DEF PlainRequest
    <3>5. out' = out \ {Head(R.defers).conn}
      BY <2>1, <2>7, <3>4 DEF RunDefer
    <3>6. q.pc = "return" /\ q.kind = R.kind /\ q.obj = R.obj /\ q.defers = t
      BY <2>0, <3>1 DEF Reqs
    <3>. HIDE DEF q
    <3>7. Deferred(R) \subseteq Deferred(q) \cup {Head(R.defers).conn}
      BY <2>0, <3>1, <3>6, PopDeferred, Zenon
    <3>8. Holds(q) = Deferred(q) /\ Holds(R) = Deferred(R)
      BY <3>1, <3>6, Zenon DEF Holds
    <3>. HIDE DEF t
    <3>9. PlainRequest(q)
      BY <2>0, <2>1, <3>3, <3>6, Zenon DEF PlainRequest
    <3>. QED  BY <3>1, <3>5, <3>7, <3>8, <3>9, PlainMove, Zenon
  <2>8. CASE Return(r)
    <3>1. R.pc = "return" /\ R.defers = <<>> /\ Move(r, Idle) /\ out' = out
      BY <2>8, Zenon DEF Return
    <3>2. Idle.pc = "idle" /\ Idle.kind \notin TxnKinds /\ Idle.obj = NoObj /\ Idle.defers = <<>>
      BY Zenon DEF Idle, TxnKinds
    <3>. QED  BY <3>1, <3>2, PlainLocal, Zenon
  <2>. QED  BY <1>r, <2>2, <2>3, <2>4, <2>5, <2>6, <2>7, <2>8 DEF Progress
<1>1. ASSUME req' = req, out' \subseteq out PROVE AllHeld'
  BY <1>1 DEF AllHeld, PlainRequest, Holds, Deferred
<1>2. CASE UNCHANGED vars
  BY <1>1, <1>2 DEF vars
<1>3. ASSUME \/ CleanupInactiveSessions
             \/ \E m \in Mongos, l \in Lsids : TransactionExpires(m, l)
             \/ \E m \in Mongos : CloseCall(m) \/ CloseFinish(m)
      PROVE  AllHeld'
  BY <1>1, <1>3, Zenon DEF CleanupInactiveSessions, TransactionExpires, CloseCall, CloseFinish
<1>. QED  BY <1>r, <1>2, <1>3 DEF Next

\* Requests without transaction fields never leak a connection, whatever is
\* retried or fails and however the requests interleave: every early return of
\* RoundTrip that has a connection is after the defer that gives it back.
THEOREM NoConnectionLeakCorrect ==
  ASSUME Kinds \cap TxnKinds = {}
  PROVE  Spec => []NoConnectionLeak
<1>1. Init => AllHeld
  <2>1. /\ Idle.kind = "plain" /\ Idle.obj = NoObj /\ Idle.pc = "idle"
        /\ Idle.defers = <<>> /\ DOMAIN Idle.defers = {}
    BY DEF Idle
  <2>2. PlainRequest(Idle)
    BY <2>1, Zenon DEF PlainRequest, TxnKinds
  <2>. QED  BY <2>2, Zenon DEF Init, AllHeld
<1>2. TypeInv /\ AllHeld /\ [Next]_vars => AllHeld'
  BY PlainStep
<1>3. AllHeld => NoConnectionLeak
  BY DEF AllHeld, NoConnectionLeak, Owned
<1>. QED  BY <1>1, <1>2, <1>3, TypeInit, TypeStep, PTL DEF Spec

\* While a request's session is in a transaction, the request is to close no
\* connection but the pinned one.  So a closer that finds the transaction
\* active, and leaves its connection out, leaves it to the pin.
SpareInv(q) ==
  /\ TxnOf(q) = "in_progress" => Deferred(q) \subseteq {sess[q.obj].conn}
  /\ q.kind = "start" /\ TxnOf(q) # "in_progress" => q.defers = <<>>

NothingSpare == \A r \in Requests : SpareInv(req[r])

\* A step that loses a connection loses it in one of the two known ways
LosesNothing ==
  \A c \in out : Owned(c) /\ c \in out' /\ ~ Owned(c)' =>
    \/ \E r \in Requests : /\ req[r].pc = "txn" /\ req[r].conn = c
                           /\ req'[r].pc = "return"
    \/ \E o \in Objs : c \in Pins(o) /\ \A l \in Lsids : sessions'[l] # o

\* The other requests, and the sessions nobody has a hold of, need no care
LEMMA SpareMove ==
  ASSUME TypeInv, IInv, NothingSpare, NEW r \in Requests, NEW q, Move(r, q), SpareInv(q)',
         \A p \in Requests \ {r} : req[p].obj # NoObj => sess'[req[p].obj] = sess[req[p].obj],
         \A c \in Holds(req[r]) \cap out' :
           \/ c \in Holds(q)
           \/ /\ q.obj \in Objs /\ sess'[q.obj].txn = "in_progress"
              /\ sess'[q.obj].conn = c
           \/ req[r].pc = "txn" /\ req[r].conn = c /\ q.pc = "return",
         \A o \in Objs : Live(o) /\ sess[o].txn = "in_progress" =>
           \/ sess'[o].txn = "in_progress" /\ sess'[o].conn = sess[o].conn
           \/ sess[o].conn \in Holds(q)
  PROVE  NothingSpare' /\ LosesNothing
<1>1. req' = [p \in Requests |-> IF p = r THEN q ELSE req[p]]
  BY Zenon DEF Move, TypeInv, TypeOK
<1>2. NothingSpare'
  <2>. SUFFICES ASSUME NEW p \in Requests PROVE SpareInv(req[p])'
    BY Zenon DEF NothingSpare
  <2>1. CASE p = r
    BY <1>1, <2>1, Zenon
  <2>2. CASE p # r
    <3>1. req'[p] = req[p] /\ SpareInv(req[p])
      BY <1>1, <2>2, Zenon DEF NothingSpare
    <3>2. ASSUME NEW x, SpareInv(x), x.obj # NoObj => sess'[x.obj] = sess[x.obj]
          PROVE  SpareInv(x)'
      BY <3>2, Zenon DEF SpareInv, TxnOf, Deferred
    <3>. QED  BY <2>2, <3>1, <3>2, Zenon
  <2>. QED  BY <2>1, <2>2, Zenon
<1>3. \A p \in Requests : Holds(req[p])' = Holds(req'[p])
  BY Zenon DEF Holds, Deferred
<1>4. ASSUME NEW c \in out, Owned(c), c \in out', ~ Owned(c)'
      PROVE  \/ req[r].pc = "txn" /\ req[r].conn = c /\ req'[r].pc = "return"
             \/ \E o \in Objs : c \in Pins(o) /\ \A l \in Lsids : sessions'[l] # o
  <2>1. \A p \in Requests : c \notin Holds(req'[p])
    BY <1>3, <1>4, Zenon DEF Owned
  <2>2. \A o \in Objs : ~ (c \in Pins(o)')
    BY <1>4, Zenon DEF Owned
  <2>3. c \notin Holds(q) /\ \A p \in Requests \ {r} : c \notin Holds(req[p])
    BY <1>1, <2>1, Zenon
  <2>4. CASE c \in Holds(req[r])
    <3>1. ASSUME q.obj \in Objs, sess'[q.obj].txn = "in_progress", sess'[q.obj].conn = c
          PROVE  FALSE
      <4>1. req'[r].obj = q.obj
        BY <1>1, Zenon
      <4>2. Live(q.obj)'
        BY <4>1, Zenon DEF Live, Unreferenced
      <4>3. c \in Pins(q.obj)'
        BY <3>1, <4>2, Zenon DEF Pins, InTransaction
      <4>. QED  BY <2>2, <3>1, <4>3, Zenon
    <3>2. req'[r].pc = q.pc
      BY <1>1, Zenon
    <3>. QED  BY <1>4, <2>3, <2>4, <3>1, <3>2, Zenon
  <2>5. CASE c \notin Holds(req[r])
    <3>1. PICK o \in Objs : c \in Pins(o)
      BY <1>4, <2>3, <2>5, Zenon DEF Owned
    <3>2. Live(o) /\ sess[o].txn = "in_progress" /\ sess[o].conn = c
      BY <3>1, Zenon DEF Pins, InTransaction
    <3>3. sess'[o].txn = "in_progress" /\ sess'[o].conn = c
      BY <2>3, <3>2, Zenon
    <3>4. Unreferenced(o)'
      BY <2>2, <3>3, Zenon DEF Pins, InTransaction, Live
    <3>. QED  BY <3>1, <3>4, Zenon DEF Unreferenced
  <2>. QED  BY <2>4, <2>5, Zenon
<1>. QED  BY <1>2, <1>4, Zenon DEF LosesNothing

\* A step that changes no session and takes no connection away from a request,
\* unless the session has refused it
LEMMA SpareLocal ==
  ASSUME TypeInv, IInv, NothingSpare, NEW r \in Requests, NEW q, Move(r, q), sess' = sess,
         \/ q.kind = req[r].kind /\ q.obj = req[r].obj
         \/ q.defers = <<>>,
         q.defers = req[r].defers,
         req[r].pc = "txn" => q.pc = "return"
  PROVE  NothingSpare' /\ LosesNothing
<1>1. SpareInv(q)'
  <2>1. CASE q.defers = <<>>
    BY <2>1 DEF SpareInv, Deferred
  <2>2. CASE q.kind = req[r].kind /\ q.obj = req[r].obj
    <3>1. SpareInv(req[r])
      BY Zenon DEF NothingSpare
    <3>2. TxnOf(q)' = TxnOf(req[r])
      BY <2>2, Zenon DEF TxnOf
    <3>3. Deferred(q)' = Deferred(req[r])
      BY Zenon DEF Deferred
    <3>. QED  BY <2>2, <3>1, <3>2, <3>3, Zenon DEF SpareInv
  <2>. QED  BY <2>1, <2>2, Zenon
<1>2. Deferred(req[r]) \subseteq Holds(q)
  BY Zenon DEF Holds, Deferred
<1>3. \A c \in Holds(req[r]) :
        c \in Holds(q) \/ (req[r].pc = "txn" /\ req[r].conn = c /\ q.pc = "return")
  <2>1. \A c \in Holds(req[r]) : c \in Deferred(req[r]) \/ (req[r].pc = "txn" /\ req[r].conn = c)
    BY Zenon DEF Holds
  <2>. QED  BY <1>2, <2>1, Zenon
<1>4. \A o \in Objs : sess'[o] = sess[o]
  OBVIOUS
<1>. QED  BY <1>1, <1>3, <1>4, SpareMove, Zenon

\* The session accepts a command: what it unpins is deferred
LEMMA SpareTransaction ==
  ASSUME TypeInv, IInv, NothingSpare, NEW r \in Requests, Transaction(r)
  PROVE  NothingSpare' /\ LosesNothing
<1>. DEFINE R == req[r]
            o == R.obj
            c == R.conn
<1>0. /\ R \in Reqs /\ StackInv(R) /\ PlaceInv(R) /\ SpareInv(R) /\ R.pc = "txn"
      /\ R.defers \in Seq(DeferredCalls) /\ (o # NoObj => o \in Objs)
  BY Zenon DEF Transaction, IInv, ReqInv, TypeInv, TypeOK, Reqs, NothingSpare
<1>1. /\ c \in Conns /\ c # NoConn /\ Holds(R) = Deferred(R) \cup {c}
      /\ R.kind \in TxnKinds => o \in Objs /\ o # NoObj
  BY <1>0, ConstantsAssumption, Zenon DEF PlaceInv, Holds
<1>2. o \in Objs => TxnOf(R) = sess[o].txn /\ sess[o] \in SessionRecords
  BY ConstantsAssumption, Zenon DEF TxnOf, TypeInv, TypeOK
<1>3. o \in Objs /\ sess[o].txn = "in_progress" => sess[o].conn = c
  BY <1>0, <1>2, Zenon DEF PlaceInv
<1>4. \A p \in Requests \ {r} : req[p].obj # NoObj => req[p].obj # o /\ req[p].obj \in Objs
  <2>1. ASSUME NEW p \in Requests \ {r}, req[p].obj # NoObj PROVE req[p].obj # o
    BY <2>1, ObjDistinct
  <2>2. \A p \in Requests : req[p].obj \in Objs \cup {NoObj}
    BY Zenon DEF TypeInv, TypeOK, Reqs
  <2>. QED  BY <2>1, <2>2
<1>a. ASSUME NEW q, Move(r, q), q.obj = o, q.kind = R.kind, q.pc = "wire",
             Deferred(q) = Deferred(R) \cup {c},
             \A p \in Objs : p # o => sess'[p] = sess[p],
             o \in Objs /\ sess'[o].txn = "in_progress" =>
               /\ sess'[o].conn = c
               /\ Deferred(R) \subseteq {c},
             R.kind = "start" => sess'[o].txn = "in_progress"
      PROVE  NothingSpare' /\ LosesNothing
  <2>1. Holds(q) = Holds(R)
    BY <1>1, <1>a, Zenon DEF Holds
  <2>2. o # NoObj => TxnOf(q)' = sess'[o].txn
    BY <1>a, Zenon DEF TxnOf
  <2>3. TxnOf(q)' = "in_progress" => o # NoObj
    BY <1>a, Zenon DEF TxnOf
  <2>4. SpareInv(q)'
    <3>1. ASSUME TxnOf(q)' = "in_progress" PROVE Deferred(q) \subseteq {sess'[o].conn}
      BY <1>0, <1>a, <2>2, <2>3, <3>1, Zenon
    <3>2. R.kind = "start" => TxnOf(q)' = "in_progress"
      BY <1>1, <1>a, <2>2, Zenon DEF TxnKinds
    <3>3. Deferred(q)' = Deferred(q)
      BY Zenon DEF Deferred
    <3>. QED  BY <1>a, <3>1, <3>2, <3>3, Zenon DEF SpareInv
  <2>5. \A p \in Objs : sess[p].txn = "in_progress" =>
           sess'[p] = sess[p] \/ sess[p].conn \in Holds(q)
    BY <1>1, <1>3, <1>a, <2>1, Zenon
  <2>6. \A p \in Requests \ {r} : req[p].obj # NoObj => sess'[req[p].obj] = sess[req[p].obj]
    BY <1>4, <1>a, Zenon
  <2>. QED  BY <1>a, <2>1, <2>4, <2>5, <2>6, SpareMove, Zenon
<1>b. ASSUME Proceed(r, CloseLater(c)),
             \A p \in Objs : p # o => sess'[p] = sess[p],
             o \in Objs /\ sess'[o].txn = "in_progress" =>
               /\ sess'[o].conn = c
               /\ Deferred(R) \subseteq {c},
             R.kind = "start" => sess'[o].txn = "in_progress"
      PROVE  NothingSpare' /\ LosesNothing
  <2>. DEFINE d == CloseLater(c) \o R.defers
              q == [R EXCEPT !.pc = "wire", !.defers = d]
  <2>1. Move(r, q)
    BY <1>b DEF Proceed
  <2>2. q.obj = o /\ q.kind = R.kind /\ q.pc = "wire" /\ q.defers = d
    BY <1>0, ZenonT(30) DEF Reqs
  <2>. HIDE DEF q
  <2>3. Deferred(q) = Deferred(R) \cup {c}
    BY <1>0, <1>1, <2>2, PushDeferred, ZenonT(30)
  <2>4. ASSUME NEW x, x = q PROVE NothingSpare' /\ LosesNothing
    BY <1>a, <1>b, <2>1, <2>2, <2>3, <2>4, Zenon
  <2>. QED  BY <2>4
<1>5. CASE /\ R.kind \notin TxnKinds \/ R.kind = "statement"
           /\ Proceed(r, CloseLater(c)) /\ UNCHANGED <<sess, sessions>>
  <2>1. R.kind # "start"
    BY <1>5, Zenon DEF TxnKinds
  <2>2. o \in Objs /\ sess[o].txn = "in_progress" => Deferred(R) \subseteq {c}
    BY <1>0, <1>2, <1>3, Zenon DEF SpareInv
  <2>. QED  BY <1>3, <1>5, <1>b, <2>1, <2>2, Zenon
<1>6. CASE /\ R.kind = "start" /\ CanStartTransaction(sess[o])
           /\ sess' = [sess EXCEPT ![o] = StartTransaction(sess[o], R.server, c)]
           /\ Proceed(r, CloseLater(c)) /\ UNCHANGED sessions
  <2>1. o \in Objs /\ sess[o].txn = "none"
    BY <1>1, <1>6, Zenon DEF TxnKinds, CanStartTransaction
  <2>2. /\ sess'[o].txn = "in_progress" /\ sess'[o].conn = c
        /\ \A p \in Objs : p # o => sess'[p] = sess[p]
    BY <1>2, <1>6, <2>1 DEF StartTransaction, SessionRecords, TypeInv, TypeOK
  <2>3. R.defers = <<>>
    BY <1>0, <1>2, <1>6, <2>1, Zenon DEF SpareInv
  <2>4. Deferred(R) = {}
    BY <2>3 DEF Deferred
  <2>. QED  BY <1>6, <1>b, <2>2, <2>4, Zenon
<1>7. CASE /\ R.kind = "end" /\ sess' = [sess EXCEPT ![o] = EndSession(sess[o])]
           /\ EndSessionEntry(o) /\ Proceed(r, CloseLater(c))
  <2>1. o \in Objs
    BY <1>1, <1>7, Zenon DEF TxnKinds
  <2>2. /\ sess'[o] = EndSession(sess[o])
        /\ \A p \in Objs : p # o => sess'[p] = sess[p]
    BY <1>7, <2>1, Zenon DEF TypeInv, TypeOK
  <2>3. \/ EndSession(sess[o]).txn # "in_progress"
        \/ EndSession(sess[o]) = sess[o]
    BY <1>2, <2>1, Zenon DEF EndSession, SessionRecords
  <2>4. sess[o].txn = "in_progress" => Deferred(R) \subseteq {c} /\ sess[o].conn = c
    BY <1>0, <1>2, <1>3, <2>1, Zenon DEF SpareInv
  <2>5. R.kind # "start"
    BY <1>7, Zenon
  <2>. QED  BY <1>7, <1>b, <2>2, <2>3, <2>4, <2>5, Zenon
<1>8. CASE /\ R.kind \in {"commit", "abort"} /\ CanEndTransaction(sess[o])
           /\ sess' = [sess EXCEPT ![o] = IF R.kind = "commit"
                                          THEN CommitTransaction(sess[o])
                                          ELSE AbortTransaction(sess[o])]
           /\ Proceed(r, CloseAndForget(c)) /\ UNCHANGED sessions
  <2>1. o \in Objs /\ Ends(R) /\ sess[o].txn = "in_progress"
    BY <1>1, <1>8, Zenon DEF TxnKinds, Ends, CanEndTransaction
  <2>2. /\ sess'[o].txn # "in_progress"
        /\ \A p \in Objs : p # o => sess'[p] = sess[p]
    BY <1>2, <1>8, <2>1
       DEF CommitTransaction, AbortTransaction, SessionRecords, TypeInv, TypeOK
  <2>3. R.defers = <<>>
    BY <1>0, <1>2, <2>1, Zenon DEF StackInv
  <2>4. CloseAndForget(c) \o R.defers = CloseAndForget(c)
    BY <1>1, <2>3, DefersTyping
  <2>. DEFINE d == CloseAndForget(c)
              q == [R EXCEPT !.pc = "wire", !.defers = d]
  <2>5. Move(r, q)
    BY <1>8, <2>4 DEF Proceed
  <2>6. {d[i].conn : i \in DOMAIN d} = {c, NoConn}
    <3>1. \A x, y, z : DOMAIN <<x, y, z>> = 1 .. 3
      OBVIOUS
    <3>2. /\ DOMAIN d = 1 .. 3 /\ d[1].conn = c /\ d[2].conn = NoConn /\ d[3].conn = NoConn
      BY <3>1 DEF CloseAndForget
    <3>. HIDE DEF d
    <3>. QED  BY <3>2
  <2>. HIDE DEF d
  <2>7. q.obj = o /\ q.kind = R.kind /\ q.pc = "wire" /\ q.defers = d
    BY <1>0 DEF Reqs
  <2>. HIDE DEF q
  <2>8. Deferred(q) = {c} /\ Deferred(R) = {}
    <3>1. Deferred(q) = {d[i].conn : i \in DOMAIN d} \ {NoConn}
      BY <2>7 DEF Deferred
    <3>2. Deferred(q) = {c}
      BY <1>1, <2>6, <3>1, Zenon
    <3>3. Deferred(R) = {}
      BY <2>3 DEF Deferred
    <3>. QED  BY <3>2, <3>3
  <2>9. R.kind # "start"
    BY <1>8, Zenon
  <2>10. ASSUME NEW x, x = q PROVE NothingSpare' /\ LosesNothing
    BY <1>a, <2>2, <2>5, <2>7, <2>8, <2>9, <2>10, Zenon
  <2>. QED  BY <2>10
<1>. QED  BY <1>5, <1>6, <1>7, <1>8, Zenon DEF Transaction

\* A closer that leaves its connection out leaves it to the transaction
LEMMA SpareRunDefer ==
  ASSUME TypeInv, IInv, NothingSpare, NEW r \in Requests, RunDefer(r)
  PROVE  NothingSpare' /\ LosesNothing
<1>. DEFINE R == req[r]
            o == R.obj
            d == Head(R.defers)
            q == [R EXCEPT !.defers = Tail(R.defers)]
<1>0. /\ R \in Reqs /\ StackInv(R) /\ SpareInv(R) /\ R.pc = "return" /\ R.defers # <<>>
      /\ Move(r, q) /\ R.defers \in Seq(DeferredCalls) /\ (o # NoObj => o \in Objs)
  BY DEF RunDefer, IInv, ReqInv, TypeInv, TypeOK, Reqs, NothingSpare
<1>1. /\ q.pc = "return" /\ q.kind = R.kind /\ q.obj = o /\ q.defers = Tail(R.defers)
  BY <1>0 DEF Reqs
<1>. HIDE DEF q
<1>2. Deferred(q) \subseteq Deferred(R) /\ Deferred(R) \subseteq Deferred(q) \cup {d.conn}
  BY <1>0, <1>1, PopDeferred, Zenon
<1>3. Holds(q) = Deferred(q) /\ Holds(R) = Deferred(R) /\ NoConn \notin Deferred(R)
  BY <1>0, <1>1, Zenon DEF Holds, Deferred
<1>4. o \in Objs => o # NoObj /\ TxnOf(R) = sess[o].txn /\ sess[o] \in SessionRecords
  BY ConstantsAssumption, Zenon DEF TxnOf, TypeInv, TypeOK
<1>5. \A p \in Requests \ {r} : req[p].obj # NoObj => req[p].obj # o /\ req[p].obj \in Objs
  <2>1. ASSUME NEW p \in Requests \ {r}, req[p].obj # NoObj PROVE req[p].obj # o
    BY <2>1, ObjDistinct
  <2>2. \A p \in Requests : req[p].obj \in Objs \cup {NoObj}
    BY DEF TypeInv, TypeOK, Reqs
  <2>. QED  BY <2>1, <2>2
<1>6. CASE ~ Ends(R)
  <2>1. d.call = "closeUnlessActive"
    BY <1>0, <1>6, PopStack, Zenon DEF StackInv
  <2>2. /\ sess' = sess
        /\ (o # NoObj /\ IsTransactionActive(sess[o])) \/ out' = out \ {d.conn}
    BY <2>1, Zenon DEF RunDefer
  <2>3. ASSUME NEW x, x = q PROVE SpareInv(x)'
    <3>1. TxnOf(x)' = TxnOf(R) /\ Deferred(x)' = Deferred(q)
      BY <1>1, <2>2, <2>3, ZenonT(30) DEF TxnOf, Deferred
    <3>. QED  BY <1>0, <1>1, <1>2, <2>2, <2>3, <3>1, Zenon DEF SpareInv
  <2>4. ASSUME NEW c \in Holds(R) \cap out'
        PROVE  c \in Holds(q) \/ (o \in Objs /\ sess'[o].txn = "in_progress" /\ sess'[o].conn = c)
    <3>. SUFFICES ASSUME c \notin Deferred(q)
                  PROVE  o \in Objs /\ sess'[o].txn = "in_progress" /\ sess'[o].conn = c
      BY <1>3, Zenon
    <3>1. c = d.conn /\ c \in Deferred(R)
      BY <1>2, <1>3, Zenon
    <3>2. o # NoObj /\ sess[o].txn = "in_progress"
      BY <2>2, <2>4, <3>1, Zenon DEF IsTransactionActive
    <3>3. o \in Objs /\ Deferred(R) \subseteq {sess[o].conn}
      BY <1>0, <1>4, <3>2, Zenon DEF SpareInv
    <3>. QED  BY <2>2, <3>1, <3>2, <3>3, Zenon
  <2>5. ASSUME NEW x, x = q PROVE NothingSpare' /\ LosesNothing
    <3>1. SpareInv(x)'
      BY <2>3, <2>5
    <3>2. Move(r, x) /\ x.obj = o /\ Holds(x) = Holds(q)
      BY <1>0, <1>1, <2>5, Zenon
    <3>. QED  BY <2>2, <2>4, <3>1, <3>2, SpareMove, Zenon
  <2>. QED  BY <2>5
<1>7. CASE Ends(R)
  <2>1. o \in Objs /\ R.kind # "start"
    BY <1>0, <1>7, Zenon DEF StackInv, Ends
  <2>2. /\ \A p \in Objs : p # o => sess'[p] = sess[p]
        /\ sess[o].txn # "in_progress" /\ sess'[o].txn # "in_progress"
        /\ d.conn = NoConn \/ out' = out \ {d.conn}
    <3>1. ASSUME NEW c, R.defers = CloseAndForget(c), TxnOf(R) \in {"committed", "aborted"}
          PROVE  /\ \A p \in Objs : p # o => sess'[p] = sess[p]
                 /\ sess[o].txn # "in_progress" /\ sess'[o].txn # "in_progress"
                 /\ d.conn = NoConn \/ out' = out \ {d.conn}
      BY <1>4, <2>1, <3>1, ForgetStack DEF RunDefer
    <3>2. CASE R.defers = <<ResetCall, UnpinCall>> /\ TxnOf(R) \in {"committed", "aborted"}
      <4>1. d = ResetCall
        BY <3>2, ForgetStack, Zenon
      <4>2. sess' = [sess EXCEPT ![o] = ResetTransactionState(sess[o])] /\ d.conn = NoConn
        BY <4>1 DEF RunDefer, ResetCall
      <4>. QED  BY <1>4, <2>1, <3>2, <4>2
                DEF ResetTransactionState, SessionRecords, TypeInv, TypeOK
    <3>3. CASE R.defers = <<UnpinCall>> /\ TxnOf(R) = "none"
      <4>1. d = UnpinCall
        BY <3>3, ForgetStack, Zenon
      <4>2. sess' = [sess EXCEPT ![o] = UnpinTransaction(sess[o])] /\ d.conn = NoConn
        BY <4>1 DEF RunDefer, UnpinCall
      <4>. QED  BY <1>4, <2>1, <3>3, <4>2 DEF UnpinTransaction, SessionRecords, TypeInv, TypeOK
    <3>. QED  BY <1>0, <1>7, <3>1, <3>2, <3>3, Zenon DEF StackInv
  <2>3. ASSUME NEW x, x = q PROVE NothingSpare' /\ LosesNothing
    <3>1. TxnOf(x)' # "in_progress"
      BY <1>1, <2>2, <2>3, Zenon DEF TxnOf
    <3>2. SpareInv(x)'
      BY <1>1, <2>1, <2>3, <3>1, Zenon DEF SpareInv
    <3>3. \A c \in Holds(R) \cap out' : c \in Holds(x)
      BY <1>2, <1>3, <2>2, <2>3, Zenon
    <3>4. \A p \in Objs : sess[p].txn = "in_progress" => sess'[p] = sess[p]
      BY <2>2, Zenon
    <3>5. \A p \in Requests \ {r} : req[p].obj # NoObj => sess'[req[p].obj] = sess[req[p].obj]
      BY <1>5, <2>2, Zenon
    <3>. QED  BY <1>0, <2>3, <3>2, <3>3, <3>4, <3>5, SpareMove, Zenon
  <2>. QED  BY <2>3
<1>. QED  BY <1>6, <1>7

\* Every step keeps NothingSpare and loses a connection only in the known ways
LEMMA SpareStep ==
  ASSUME TypeInv, IInv, NothingSpare, [Next]_vars
  PROVE  NothingSpare' /\ (Next => LosesNothing)
<1>r. ASSUME NEW r \in Requests,
             Arrive(r) \/ Progress(r) \/ SelectFails(r) \/ CheckoutFails(r)
      PROVE  NothingSpare' /\ LosesNothing
  <2>. DEFINE R == req[r]
  <2>0. R \in Reqs /\ PlaceInv(R)
    BY DEF IInv, ReqInv, TypeInv, TypeOK
  <2>1. CASE Arrive(r)
    <3>1. PICK k, m, l, c : Move(r, [R EXCEPT !.pc = "lock", !.kind = k, !.mongo = m,
                                             !.lsid = l, !.cursor = c])
      BY <2>1, ZenonT(30) DEF Arrive
    <3>. DEFINE q == [R EXCEPT !.pc = "lock", !.kind = k, !.mongo = m,
                               !.lsid = l, !.cursor = c]
    <3>2. R = Idle /\ sess' = sess
      BY <2>0, <2>1, Zenon DEF Arrive, PlaceInv
    <3>3. q.defers = <<>> /\ R.defers = <<>> /\ R.pc # "txn"
      BY <3>2 DEF Idle
    <3>4. Move(r, q)
      BY <3>1
    <3>. HIDE DEF q
    <3>5. ASSUME NEW x, x = q PROVE NothingSpare' /\ LosesNothing
      BY <3>2, <3>3, <3>4, <3>5, SpareLocal
    <3>. QED  BY <3>5
  <2>2. CASE \/ Enter(r) \/ Select(r) \/ SelectFails(r) \/ CheckoutFails(r)
             \/ TransactionRefused(r) \/ WireOk(r) \/ WireFails(r) \/ Reply(r)
    <3>1. PICK q : Move(r, q) /\ Quietly(R, q) /\ sess' = sess
      BY <2>2, QuietSteps
    <3>. QED  BY <3>1, SpareLocal, Zenon DEF Quietly
  <2>3. CASE Lookup(r)
    <3>1. PICK pc, ob : Move(r, [R EXCEPT !.pc = pc, !.obj = ob])
      BY <2>3, Zenon DEF Lookup
    <3>. DEFINE q == [R EXCEPT !.pc = pc, !.obj = ob]
    <3>2. R.pc = "lookup" /\ sess' = sess /\ R.defers = <<>>
      BY <2>0, <2>3 DEF Lookup, PlaceInv
    <3>3. q.defers = R.defers
      BY <2>0 DEF Reqs
    <3>4. Move(r, q)
      BY <3>1
    <3>. HIDE DEF q
    <3>5. ASSUME NEW x, x = q PROVE NothingSpare' /\ LosesNothing
      BY <3>2, <3>3, <3>4, <3>5, SpareLocal, Zenon
    <3>. QED  BY <3>5
  <2>4. CASE Create(r)
    <3>1. PICK o \in Objs : /\ Unreferenced(o)
                            /\ sess' = [sess EXCEPT ![o] = NewSession(R.lsid)]
                            /\ Move(r, [R EXCEPT !.pc = "select", !.obj = o])
      BY <2>4, Zenon DEF Create
    <3>. DEFINE q == [R EXCEPT !.pc = "select", !.obj = o]
    <3>2. R.pc = "create" /\ R.defers = <<>>
      BY <2>0, <2>4 DEF Create, PlaceInv
    <3>3. q.defers = <<>>
      BY <2>0, <3>2 DEF Reqs
    <3>4. Move(r, q)
      BY <3>1
    <3>. HIDE DEF q
    <3>5. Holds(R) = {}
      BY <3>2 DEF Holds, Deferred
    <3>6. \A p \in Objs : p = o \/ sess'[p] = sess[p]
      BY <3>1 DEF TypeInv, TypeOK
    <3>7. \A p \in Objs : Live(p) => sess'[p] = sess[p]
      BY <3>1, <3>6 DEF Live
    <3>8. \A p \in Requests : req[p].obj # NoObj => sess'[req[p].obj] = sess[req[p].obj]
      BY <3>1, <3>6 DEF Unreferenced, TypeInv, TypeOK, Reqs
    <3>9. ASSUME NEW x, x = q PROVE NothingSpare' /\ LosesNothing
      <4>1. SpareInv(x)'
        BY <3>3, <3>9 DEF SpareInv, Deferred
      <4>. QED  BY <3>4, <3>5, <3>7, <3>8, <3>9, <4>1, SpareMove, Zenon
    <3>. QED  BY <3>9
  <2>5. CASE Checkout(r)
    <3>1. PICK c : Move(r, [R EXCEPT !.pc = "txn", !.conn = c])
      BY <2>5, ZenonT(30) DEF Checkout
    <3>. DEFINE q == [R EXCEPT !.pc = "txn", !.conn = c]
    <3>2. R.pc = "checkout" /\ sess' = sess
      BY <2>5, ZenonT(30) DEF Checkout
    <3>3. q.defers = R.defers /\ q.kind = R.kind /\ q.obj = R.obj
      BY <2>0 DEF Reqs
    <3>4. Move(r, q)
      BY <3>1
    <3>. HIDE DEF q
    <3>5. ASSUME NEW x, x = q PROVE NothingSpare' /\ LosesNothing
      BY <3>2, <3>3, <3>4, <3>5, SpareLocal, Zenon
    <3>. QED  BY <3>5
  <2>6. CASE Return(r)
    <3>1. R.pc = "return" /\ R.defers = <<>> /\ Move(r, Idle) /\ sess' = sess
      BY <2>6, Zenon DEF Return
    <3>2. Idle.defers = <<>>
      BY Zenon DEF Idle
    <3>. QED  BY <3>1, <3>2, SpareLocal, Zenon
  <2>. QED  BY <1>r, <2>1, <2>2, <2>3, <2>4, <2>5, <2>6, SpareTransaction, SpareRunDefer
            DEF Progress
<1>1. ASSUME req' = req, sess' = sess
      PROVE  NothingSpare' /\ LosesNothing
  <2>1. ASSUME NEW r \in Requests PROVE SpareInv(req[r])'
    <3>1. req'[r] = req[r] /\ SpareInv(req[r])
      BY <1>1 DEF NothingSpare
    <3>2. TxnOf(req[r])' = TxnOf(req[r]) /\ Deferred(req[r])' = Deferred(req[r])
      BY <1>1, Zenon DEF TxnOf, Deferred
    <3>. QED  BY <1>1, <3>1, <3>2, Zenon DEF SpareInv
  <2>2. \A r \in Requests : Holds(req[r])' = Holds(req[r])
    BY <1>1 DEF Holds, Deferred
  <2>3. ASSUME NEW c \in out, Owned(c), ~ Owned(c)'
        PROVE  \E o \in Objs : c \in Pins(o) /\ \A l \in Lsids : sessions'[l] # o
    <3>1. PICK o \in Objs : c \in Pins(o)
      BY <2>2, <2>3 DEF Owned
    <3>2. ~ (c \in Pins(o)')
      BY <2>3 DEF Owned
    <3>3. Unreferenced(o)'
      BY <1>1, <3>1, <3>2, Zenon DEF Pins, InTransaction, Live
    <3>. QED  BY <3>1, <3>3 DEF Unreferenced
  <2>. QED  BY <2>1, <2>3, Zenon DEF NothingSpare, LosesNothing
<1>2. CASE UNCHANGED vars
  BY <1>1, <1>2 DEF vars
<1>3. ASSUME \/ CleanupInactiveSessions
             \/ \E m \in Mongos, l \in Lsids : TransactionExpires(m, l)
             \/ \E m \in Mongos : CloseCall(m) \/ CloseFinish(m)
      PROVE  NothingSpare' /\ LosesNothing
  BY <1>1, <1>3, Zenon DEF CleanupInactiveSessions, TransactionExpires, CloseCall, CloseFinish
<1>. QED  BY <1>r, <1>2, <1>3, Zenon DEF Next

\* With one request of a session at a time, RoundTrip loses a connection in two
\* ways only: the session refuses the command that has just checked it out, or
\* the session manager drops a session in the middle of its transaction.  Every
\* other early return, retry and deferred close leaves each connection to a
\* request or to a transaction a client can still end.
THEOREM LeaksOnlyByRefusalOrCleanupCorrect ==
  SerialSessions /\ Spec => LeaksOnlyByRefusalOrCleanup
<1>. SUFFICES ASSUME SerialSessions PROVE Spec => LeaksOnlyByRefusalOrCleanup
  OBVIOUS
<1>1. Init => NothingSpare
  BY DEF Init, NothingSpare, SpareInv, Idle, TxnOf
<1>2. TypeInv /\ IInv /\ NothingSpare /\ [Next]_vars => NothingSpare' /\ [LosesNothing]_vars
  BY SpareStep
<1>3. Spec => [](TypeInv /\ IInv)
  BY Invariance
<1>4. Spec => [][LosesNothing]_vars
  BY <1>1, <1>2, <1>3, PTL DEF Spec
<1>. QED  BY <1>4, PTL DEF LeaksOnlyByRefusalOrCleanup, LosesNothing
=============================================================================

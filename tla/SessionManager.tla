--------------------------- MODULE SessionManager ---------------------------
(***************************************************************************)
(* The transaction state machine of one logical session, as the methods of *)
(* mongo/session_manager.go apply it.  A session is a record; each method  *)
(* is a guard (its early returns) and the record it leaves behind.         *)
(* CurrentTxnNumber, ClientID and CreatedAt are not kept: no branch reads  *)
(* them.  LastActivity is not kept either: any time may pass between two   *)
(* steps, so any session may be found inactive by a cleanup.               *)
(***************************************************************************)
EXTENDS Naturals

CONSTANTS NoServer,   \* a nil driver.Server
          NoConn      \* a nil driver.Connection

SessionStates == {"active", "ended"}

TransactionStates == {"none", "in_progress", "committed", "aborted"}

\* &Session{...} as RoundTrip builds it for an lsid it has not seen
NewSession(l) == [lsid |-> l, state |-> "active", txn |-> "none",
                  server |-> NoServer, conn |-> NoConn]

\* The session keeps no pin and no transaction
ResetTransactionState(s) ==
  [s EXCEPT !.txn = "none", !.server = NoServer, !.conn = NoConn]

UnpinTransaction(s) == [s EXCEPT !.server = NoServer, !.conn = NoConn]

MutCanStartTransaction(s) == s.state = "active"

CanStartTransaction(s) == s.state = "active" /\ s.txn = "none"

StartTransaction(s, srv, c) ==
  [s EXCEPT !.txn = "in_progress", !.server = srv, !.conn = c]

MutCanEndTransaction(s) == s.txn # "none"

\* CommitTransaction and AbortTransaction accept the same sessions
CanEndTransaction(s) == s.txn = "in_progress"

CommitTransaction(s) == [s EXCEPT !.txn = "committed"]

AbortTransaction(s) == [s EXCEPT !.txn = "aborted"]

\* A session already ended is left as it is; a transaction in progress is
\* aborted and loses its pins, the pinned connection is not closed here
EndSession(s) ==
  IF s.state = "ended" THEN s
  ELSE IF s.txn = "in_progress"
       THEN [s EXCEPT !.state = "ended", !.txn = "aborted",
                      !.server = NoServer, !.conn = NoConn]
       ELSE [s EXCEPT !.state = "ended"]

MutHasPinnedServer(s) == FALSE

HasPinnedServer(s) == s.txn = "in_progress" /\ s.server # NoServer

HasPinnedConnection(s) ==
  s.txn \in {"in_progress", "committed", "aborted"} /\ s.conn # NoConn

MutIsTransactionActive(s) == FALSE

MutActiveUnlessNone(s) == s.txn # "none"

IsTransactionActive(s) == s.txn = "in_progress"
=============================================================================

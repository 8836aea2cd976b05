---------------------------- MODULE SessionLocks ----------------------------
(***************************************************************************)
(* The mutexes of mongo/session_manager.go: SessionManager.mutex around    *)
(* the map and Session.mutex around each session.  The module RoundTrip    *)
(* takes every method as one step; here a method that holds one mutex      *)
(* while it waits for the other is taken apart.  A critical section that   *)
(* waits for nothing is one step, guarded by the mutex being free; what it *)
(* does to the transaction is left out.                                    *)
(***************************************************************************)

CONSTANTS Requests,  \* goroutines in RoundTrip
          Monitors,  \* cacheMonitor, one per Mongo client
          Sessions,  \* *Session objects
          Calls,     \* the calls requests make, of AllCalls
          Free, NoSession

\* "update" is a method that takes only the session's mutex
AllCalls == {"get", "insert", "update", "end"}

VARIABLES sessions,  \* SessionManager.sessions
          inserted,  \* the sessions that have been in the map
          ended,     \* those with State = SessionStateEnded
          mapLock,   \* who holds SessionManager.mutex
          lock,      \* session -> who holds Session.mutex
          at         \* goroutine -> where it is; for a monitor the sessions
                     \* it has not looked at and those it will remove

vars == <<sessions, inserted, ended, mapLock, lock, at>>

Idle == [pc |-> "idle", s |-> NoSession]
Asleep == [pc |-> "idle", todo |-> {}, remove |-> {}]

Init ==
  /\ sessions = {} /\ inserted = {} /\ ended = {}
  /\ mapLock = Free
  /\ lock = [s \in Sessions |-> Free]
  /\ at = [g \in Requests \cup Monitors |-> IF g \in Requests THEN Idle ELSE Asleep]

Returns(g) == at' = [at EXCEPT ![g] = Idle]

\* A request calls a method, of a session it has found or has just made
Call(g) ==
  /\ at[g].pc = "idle"
  /\ \E c \in Calls, s \in Sessions :
       /\ (c = "insert") <=> (s \notin inserted)
       /\ \A h \in Requests : at[h] # [pc |-> "insert", s |-> s]
       /\ at' = [at EXCEPT ![g] = [pc |-> c, s |-> s]]
  /\ UNCHANGED <<sessions, inserted, ended, mapLock, lock>>

\* GetSession: the map under one mutex, then the activity under the other
GetSession(g) ==
  /\ at[g].pc = "get" /\ mapLock = Free
  /\ \/ at[g].s \in sessions \ ended /\ at' = [at EXCEPT ![g].pc = "update"]
     \/ at[g].s \notin sessions \ ended /\ Returns(g)
  /\ UNCHANGED <<sessions, inserted, ended, mapLock, lock>>

\* StartTransaction, CommitTransaction, GetPinnedServer and the like
UpdateSession(g) ==
  /\ at[g].pc = "update" /\ lock[at[g].s] = Free
  /\ Returns(g)
  /\ UNCHANGED <<sessions, inserted, ended, mapLock, lock>>

InsertSession(g) ==
  /\ at[g].pc = "insert" /\ mapLock = Free
  /\ sessions' = sessions \cup {at[g].s}
  /\ inserted' = inserted \cup {at[g].s}
  /\ Returns(g)
  /\ UNCHANGED <<ended, mapLock, lock>>

\* EndSession locks the session ...
EndSession(g) ==
  /\ at[g].pc = "end" /\ lock[at[g].s] = Free
  /\ \/ at[g].s \in ended /\ Returns(g) /\ UNCHANGED <<ended, lock>>
     \/ /\ at[g].s \notin ended
        /\ ended' = ended \cup {at[g].s}
        /\ lock' = [lock EXCEPT ![at[g].s] = g]
        /\ at' = [at EXCEPT ![g].pc = "delete"]
  /\ UNCHANGED <<sessions, inserted, mapLock>>

\* ... and still holds it when it locks the map
DeleteSession(g) ==
  /\ at[g].pc = "delete" /\ mapLock = Free
  /\ sessions' = sessions \ {at[g].s}
  /\ lock' = [lock EXCEPT ![at[g].s] = Free]
  /\ Returns(g)
  /\ UNCHANGED <<inserted, ended, mapLock>>

\* CleanupInactiveSessions locks the map ...
CleanupStarts(k) ==
  /\ at[k].pc = "idle" /\ mapLock = Free
  /\ mapLock' = k
  /\ at' = [at EXCEPT ![k] = [pc |-> "clean", todo |-> sessions, remove |-> {}]]
  /\ UNCHANGED <<sessions, inserted, ended, lock>>

\* ... and holds it while it locks one session after the other, to see which
\* have ended or have been inactive for too long
CleanupLooks(k) ==
  /\ at[k].pc = "clean"
  /\ \E s \in at[k].todo, inactive \in BOOLEAN :
       /\ lock[s] = Free
       /\ at' = [at EXCEPT ![k].todo = @ \ {s},
                           ![k].remove = IF s \in ended \/ inactive THEN @ \cup {s} ELSE @]
  /\ UNCHANGED <<sessions, inserted, ended, mapLock, lock>>

CleanupEnds(k) ==
  /\ at[k].pc = "clean" /\ at[k].todo = {}
  /\ sessions' = sessions \ at[k].remove
  /\ mapLock' = Free
  /\ at' = [at EXCEPT ![k] = Asleep]
  /\ UNCHANGED <<inserted, ended, lock>>

Step(g) ==
  \/ GetSession(g) \/ UpdateSession(g) \/ InsertSession(g)
  \/ EndSession(g) \/ DeleteSession(g)

Cleanup(k) == CleanupStarts(k) \/ CleanupLooks(k) \/ CleanupEnds(k)

Next ==
  \/ \E g \in Requests : Call(g) \/ Step(g)
  \/ \E k \in Monitors : Cleanup(k)

Spec == Init /\ [][Next]_vars

\* A goroutine runs, and a mutex that is free again and again is obtained:
\* sync.Mutex hands over to the longest waiter.  Nobody has to call.
FairSpec ==
  /\ Spec
  /\ \A g \in Requests : SF_vars(Step(g))
  /\ \A k \in Monitors : SF_vars(CleanupLooks(k)) /\ WF_vars(CleanupEnds(k))

-----------------------------------------------------------------------------
(* Properties *)

\* Every call of the session manager returns: no request and no cleanup waits
\* for a mutex for ever.
EveryCallReturns ==
  \A g \in Requests \cup Monitors : (at[g].pc # "idle") ~> (at[g].pc = "idle")
=============================================================================

---------------------------- MODULE MCRoundTrip ----------------------------
(* Instances of RoundTrip for TLC. *)
EXTENDS RoundTrip, TLC

\* Requests, sessions, session objects, addresses, handles and cursors are
\* interchangeable; no liveness run uses this
Symmetry == Permutations(Requests) \cup Permutations(Lsids)
              \cup Permutations(Objs) \cup Permutations(Addrs)
              \cup Permutations(Handles) \cup Permutations(CursorIds)
=============================================================================

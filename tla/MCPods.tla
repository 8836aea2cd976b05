------------------------------- MODULE MCPods -------------------------------
(* An instance of Pods for TLC. *)
EXTENDS Pods, TLC

CONSTANTS p1, p2, m1, m2, z1

\* A session's transactions, or a cursor: outside transactions neither has
\* any effect on the other
MCWorkloads == {Lsids, Cursors}

\* Each pod has a client made at start-up, and the first one made later
MCPodOf == (m1 :> p1) @@ (z1 :> p1) @@ (m2 :> p2)
=============================================================================

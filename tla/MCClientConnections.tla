------------------------ MODULE MCClientConnections ------------------------
(* Instances of ClientConnections for TLC. *)
EXTENDS ClientConnections, TLC

\* One wildcard route serves every database
WildcardRoute == [d \in Dbs |-> CHOOSE r \in Routes : TRUE]

Symmetry == Permutations(Clients) \cup Permutations(Slots) \cup Permutations(Txns)
=============================================================================

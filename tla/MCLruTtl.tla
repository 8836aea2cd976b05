------------------------------ MODULE MCLruTtl ------------------------------
(* Instances of LruTtl for TLC. *)
EXTENDS LruTtl, TLC

Symmetry == Permutations(Keys) \cup Permutations(Values)
=============================================================================

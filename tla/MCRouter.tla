------------------------------ MODULE MCRouter ------------------------------
(* An instance of Router for TLC. *)
EXTENDS Router, TLC

\* One pattern of every type, a name in capitals, two patterns that are the
\* same in lower case
MCPatterns ==
  { <<"*">>, <<"APP">>, <<"app", "_", "*">>, <<"*", "_", "db">>, <<"*", "app", "*">>,
    <<"app", "*", "db">>, <<"APP", "*", "DB">> }

MCNames == { <<"app">>, <<"app", "_", "DB">> }

Symmetry == Permutations(Callers)
=============================================================================

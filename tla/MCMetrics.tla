------------------------------ MODULE MCMetrics ------------------------------
(* An instance of Metrics for TLC. *)
EXTENDS Metrics

MCWorkloads == {{"batches"}, {"gauge"}}
=============================================================================

------------------------------- MODULE Metrics -------------------------------
(***************************************************************************)
(* The metrics of the proxy: the batched client, and the background gauge  *)
(* it passes through without batching.  The two share no state, so TLC may *)
(* take behaviours that use one of them at a time.                         *)
(***************************************************************************)
EXTENDS BatchedMetrics, BackgroundGauge

CONSTANT Workloads  \* the sets of parts that a behaviour may use

VARIABLE using      \* the one this behaviour uses

vars == <<batchVars, gaugeVars, using>>

TypeOK == BatchTypeOK /\ GaugeTypeOK /\ using \in Workloads

Init == BatchInit /\ GaugeInit /\ using \in Workloads

Batches(A) == "batches" \in using /\ A /\ UNCHANGED <<gaugeVars, using>>

\* BatchedMetricsClient.BackgroundGauge: the gauge of the unbatched client
Gauges(A) == "gauge" \in using /\ A /\ UNCHANGED <<batchVars, using>>

Next == Batches(BatchNext) \/ Gauges(GaugeNext)

Spec == Init /\ [][Next]_vars

\* The flush loop's ticker and the gauge's goroutine keep running; who holds the
\* mutex gets on with its flush; Go's mutex lets no goroutine wait for ever; a
\* select does not pass over a ready channel for ever.
Fairness ==
  /\ WF_vars(Batches(Deliver \/ Reset \/ Unlock))
  /\ SF_vars(Batches(LoopTicks))
  /\ SF_vars(Batches(LoopEnds))
  /\ WF_vars(Batches(CloseWaits))
  /\ SF_vars(Batches(CloseFlushes))
  /\ WF_vars(Gauges(TakeInc))
  /\ WF_vars(Gauges(GaugeTick))

FairSpec == Spec /\ Fairness
=============================================================================

---------------------------- MODULE BatchedMetrics ----------------------------
(***************************************************************************)
(* The batched metrics client (util/batched_metrics.go).  Timing, Incr,    *)
(* Gauge and Distribution append an operation to the batch of their kind;  *)
(* a batch goes to Prometheus when it is full, when the flush loop ticks,  *)
(* and when the client is closed.  A flush passes on one operation after   *)
(* the other and then empties the batch, with the mutex held throughout.   *)
(***************************************************************************)
EXTENDS Naturals, Sequences

CONSTANTS BatchSize,   \* batchSize
          MaxRecords   \* bound: operations recorded

ASSUME BatchAssumption == BatchSize \in Nat \ {0} /\ MaxRecords \in Nat

\* In the order of flushAllBatches
AllBatches == <<"timing", "counter", "gauge", "distribution">>
Kinds == {"timing", "counter", "gauge", "distribution"}

VARIABLES batch,      \* kind -> length of its batch
          holder,     \* who has the mutex
          todo,       \* kinds the holder has still to flush
          left,       \* operations of Head(todo) not passed on yet
          canceled,   \* ctx is done
          loop,       \* the flush loop
          closer,     \* the call of Close or Shutdown
          recorded,   \* history: kind -> operations recorded
          delivered,  \* history: kind -> operations passed on
          atClose     \* history: recorded when Close was called

batchVars == <<batch, holder, todo, left, canceled, loop, closer,
               recorded, delivered, atClose>>

Holders == {"nobody", "recorder", "loop", "closer"}
Suffixes == {<<k>> : k \in Kinds}
              \cup {<<>>, <<"gauge", "distribution">>, <<"counter", "gauge", "distribution">>,
                    AllBatches}

BatchTypeOK ==
  /\ batch \in [Kinds -> 0 .. BatchSize]
  /\ holder \in Holders /\ todo \in Suffixes /\ left \in Nat
  /\ canceled \in BOOLEAN /\ loop \in {"running", "done"}
  /\ closer \in {"idle", "waiting", "flushing", "closed", "shutdown", "shut"}
  /\ recorded \in [Kinds -> Nat] /\ delivered \in [Kinds -> Nat]
  /\ atClose \in [Kinds -> Nat]

BatchInit ==
  /\ batch = [k \in Kinds |-> 0]
  /\ holder = "nobody" /\ todo = <<>> /\ left = 0
  /\ canceled = FALSE /\ loop = "running" /\ closer = "idle"
  /\ recorded = [k \in Kinds |-> 0] /\ delivered = [k \in Kinds |-> 0]
  /\ atClose = [k \in Kinds |-> 0]

Total == recorded["timing"] + recorded["counter"] + recorded["gauge"] + recorded["distribution"]

\* The holder is about to flush the batches of s, whose lengths are those of b
Flushing(s, b) ==
  /\ todo' = s
  /\ left' = IF s = <<>> THEN 0 ELSE b[Head(s)]

MutIsFull(n) == n > BatchSize

IsFull(n) == n >= BatchSize

MutRecord(k) ==
  /\ Total < MaxRecords
  /\ recorded' = [recorded EXCEPT ![k] = @ + 1]
  /\ batch' = [batch EXCEPT ![k] = @ + 1]
  /\ \/ /\ holder = "nobody"
        /\ holder' = "recorder"
        /\ Flushing(IF IsFull(batch'[k]) THEN <<k>> ELSE <<>>, batch')
     \/ /\ holder # "nobody" /\ ~ IsFull(batch[k] + 1)
        /\ UNCHANGED <<holder, todo, left>>
  /\ UNCHANGED <<canceled, loop, closer, delivered, atClose>>

\* Timing, Incr, Gauge, Distribution
Record(k) ==
  /\ holder = "nobody" /\ Total < MaxRecords
  /\ holder' = "recorder"
  /\ recorded' = [recorded EXCEPT ![k] = @ + 1]
  /\ batch' = [batch EXCEPT ![k] = @ + 1]
  /\ Flushing(IF IsFull(batch'[k]) THEN <<k>> ELSE <<>>, batch')
  /\ UNCHANGED <<canceled, loop, closer, delivered, atClose>>

\* The loop of a flush passes an operation on
Deliver ==
  /\ todo # <<>> /\ left > 0
  /\ delivered' = [delivered EXCEPT ![Head(todo)] = @ + 1]
  /\ left' = left - 1
  /\ UNCHANGED <<batch, holder, todo, canceled, loop, closer, recorded, atClose>>

\* The batch is emptied and the next one begins
Reset ==
  /\ todo # <<>> /\ left = 0
  /\ batch' = [batch EXCEPT ![Head(todo)] = 0]
  /\ Flushing(Tail(todo), batch')
  /\ UNCHANGED <<holder, canceled, loop, closer, recorded, delivered, atClose>>

\* The deferred Unlock; Close returns after its flush
Unlock ==
  /\ holder # "nobody" /\ todo = <<>>
  /\ holder' = "nobody"
  /\ closer' = IF holder = "closer" THEN "closed" ELSE closer
  /\ UNCHANGED <<batch, todo, left, canceled, loop, recorded, delivered, atClose>>

Flush(h) ==
  /\ holder = "nobody"
  /\ holder' = h
  /\ Flushing(AllBatches, batch)
  /\ UNCHANGED <<batch, canceled, loop, closer, recorded, delivered, atClose>>

MutLoopTicks == loop = "running" /\ (\E k \in Kinds : IsFull(batch[k])) /\ Flush("loop")

\* The select of flushLoop; with ctx done and a tick it takes either
LoopTicks == loop = "running" /\ Flush("loop")

LoopEnds ==
  /\ loop = "running" /\ holder # "loop" /\ canceled
  /\ loop' = "done"
  /\ UNCHANGED <<batch, holder, todo, left, canceled, closer, recorded, delivered, atClose>>

MutClose ==
  /\ closer = "idle"
  /\ closer' = "waiting"
  /\ atClose' = recorded
  /\ UNCHANGED <<batch, holder, todo, left, canceled, loop, recorded, delivered>>

Close ==
  /\ closer = "idle"
  /\ canceled' = TRUE /\ closer' = "waiting"
  /\ atClose' = recorded
  /\ UNCHANGED <<batch, holder, todo, left, loop, recorded, delivered>>

MutCloseWaits ==
  /\ closer = "waiting" /\ loop = "done"
  /\ closer' = "closed"
  /\ UNCHANGED <<batch, holder, todo, left, canceled, loop, recorded, delivered, atClose>>

\* wg.Wait
CloseWaits ==
  /\ closer = "waiting" /\ loop = "done"
  /\ closer' = "flushing"
  /\ UNCHANGED <<batch, holder, todo, left, canceled, loop, recorded, delivered, atClose>>

CloseFlushes == closer = "flushing" /\ Flush("closer")

Shutdown ==
  /\ closer = "idle"
  /\ canceled' = TRUE /\ closer' = "shutdown"
  /\ UNCHANGED <<batch, holder, todo, left, loop, recorded, delivered, atClose>>

\* The loop has ended or the caller's context is done; nothing is flushed
ShutdownReturns ==
  /\ closer = "shutdown"
  /\ closer' = "shut"
  /\ UNCHANGED <<batch, holder, todo, left, canceled, loop, recorded, delivered, atClose>>

\* A client that was closed or shut down may do nothing more
Ended ==
  /\ closer \in {"closed", "shut"} /\ loop = "done" /\ holder = "nobody"
  /\ UNCHANGED batchVars

BatchNext ==
  \/ \E k \in Kinds : Record(k)
  \/ Deliver \/ Reset \/ Unlock \/ LoopTicks \/ LoopEnds
  \/ Close \/ CloseWaits \/ CloseFlushes \/ Shutdown \/ ShutdownReturns \/ Ended

-----------------------------------------------------------------------------
(* Properties *)

\* Operations of a kind that were recorded and not passed on
Waiting(k) == IF todo # <<>> /\ k = Head(todo) THEN left ELSE batch[k]

\* No operation is lost or passed on twice, however recorders, the flush loop
\* and Close meet: those passed on and those that wait are those recorded.  The
\* reset of a batch may only drop what its flush has passed on.
EachOnce == \A k \in Kinds : delivered[k] + Waiting(k) = recorded[k]

\* When Close has returned, everything recorded before it was called has been
\* passed on, whatever was recorded meanwhile and whatever the loop was doing.
ClosedDelivers ==
  closer = "closed" => \A k \in Kinds : delivered[k] >= atClose[k]

\* What is recorded reaches Prometheus at last, full batch or not, as long as
\* the client is not shut down.
RecordedArrives ==
  \A k \in Kinds : \A n \in 1 .. MaxRecords :
    recorded[k] = n ~> (delivered[k] >= n \/ canceled)

\* Close returns: the flush loop stops, and no recorder keeps the mutex.
CloseReturns == closer = "waiting" ~> closer = "closed"
=============================================================================

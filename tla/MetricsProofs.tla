--------------------------- MODULE MetricsProofs ---------------------------
(***************************************************************************)
(* Proofs about the metrics: no operation is lost or passed on twice, what *)
(* was recorded before Close has been passed on when it returns, and the   *)
(* gauge of open connections never falls behind.                           *)
(***************************************************************************)
EXTENDS Metrics, SequenceTheorems, TLAPS

\* What the proofs use of the types
Shape ==
  /\ batch \in [Kinds -> Nat] /\ todo \in Seq(Kinds) /\ left \in Nat
  /\ recorded \in [Kinds -> Nat] /\ delivered \in [Kinds -> Nat]
  /\ atClose \in [Kinds -> Nat]

\* Who flushes has the mutex; the closer takes it after Close was called only
Held ==
  /\ todo # <<>> => holder # "nobody"
  /\ holder = "closer" => closer = "flushing"

\* What atClose counts has been recorded, and of the kinds that the flush of
\* Close has done with it has been passed on
Flushed ==
  \A k \in Kinds :
    /\ atClose[k] <= recorded[k]
    /\ holder = "closer" /\ (\A i \in 1 .. Len(todo) : todo[i] # k)
         => delivered[k] >= atClose[k]

BatchInv == Shape /\ Held /\ EachOnce /\ Flushed /\ ClosedDelivers

GaugeInv ==
  /\ opened \in Nat /\ closed \in Nat /\ inc \in Nat /\ dec \in Nat
  /\ count \in Nat /\ missed \in Nat
  /\ closed <= opened
  /\ GaugeNeverLow

MetricsInv == BatchInv /\ GaugeInv

\* The metrics start with empty batches and no connection.
LEMMA InitMetrics == Init => MetricsInv
  BY DEF Init, BatchInit, GaugeInit, MetricsInv, BatchInv, GaugeInv, Shape, Held, EachOnce,
         Waiting, Flushed, ClosedDelivers, GaugeNeverLow, Open, Kinds

\* Timing, Incr, Gauge and Distribution keep the invariant of the batches.
LEMMA RecordStep == ASSUME BatchInv, NEW k \in Kinds, Record(k) PROVE BatchInv'
<1> USE DEF BatchInv, Record
<1>1. todo = <<>> /\ holder = "nobody" /\ holder' = "recorder"
  BY DEF Held
<1>2. todo' = <<k>> \/ todo' = <<>>
  BY DEF Flushing
<1>3. todo' = <<k>> => left' = batch'[k]
  BY DEF Flushing
<1>4. Shape'
  BY <1>1, <1>2, <1>3 DEF Shape, Flushing
<1>5. Held'
  BY <1>1 DEF Held
<1>6. EachOnce'
  <2> SUFFICES ASSUME NEW j \in Kinds PROVE delivered[j] + Waiting(j)' = recorded'[j]
    BY DEF EachOnce
  <2>1. delivered[j] \in Nat /\ batch[j] \in Nat /\ recorded[j] \in Nat
    BY DEF Shape
  <2>2. delivered[j] + batch[j] = recorded[j]
    BY <1>1 DEF EachOnce, Waiting
  <2>3. Waiting(j)' = batch'[j]
    BY <1>2, <1>3 DEF Waiting
  <2>4. /\ batch'[j] = IF j = k THEN batch[j] + 1 ELSE batch[j]
        /\ recorded'[j] = IF j = k THEN recorded[j] + 1 ELSE recorded[j]
    BY DEF Shape
  <2> QED BY ONLY <2>1, <2>2, <2>3, <2>4
<1>7. Flushed'
  BY <1>1 DEF Flushed, Shape
<1>8. ClosedDelivers'
  BY DEF ClosedDelivers
<1> QED BY <1>4, <1>5, <1>6, <1>7, <1>8

\* A flush that passes an operation on keeps the invariant of the batches.
LEMMA DeliverStep == ASSUME BatchInv, Deliver PROVE BatchInv'
<1> USE DEF BatchInv, Deliver
<1>1. Head(todo) \in Kinds
  BY DEF Shape
<1>2. \A k \in Kinds : delivered'[k] = IF k = Head(todo) THEN delivered[k] + 1 ELSE delivered[k]
  BY Zenon DEF Shape
<1>3. Shape'
  <2>1. delivered' \in [Kinds -> Nat]
    <3>1. delivered \in [Kinds -> Nat] /\ delivered' = [delivered EXCEPT ![Head(todo)] = @ + 1]
      BY DEF Shape
    <3>2. \A k \in Kinds : delivered'[k] \in Nat
      BY ONLY <1>2, <3>1
    <3> QED BY ONLY <3>1, <3>2, Zenon
  <2>2. left' \in Nat
    BY DEF Shape
  <2> QED BY <2>1, <2>2, Zenon DEF Shape
<1>4. Held'
  BY DEF Held
<1>5. EachOnce'
  <2> SUFFICES ASSUME NEW k \in Kinds PROVE delivered'[k] + Waiting(k)' = recorded[k]
    BY DEF EachOnce
  <2>1. delivered[k] \in Nat /\ left \in Nat /\ batch[k] \in Nat /\ recorded[k] \in Nat
    BY DEF Shape
  <2>2. delivered[k] + Waiting(k) = recorded[k]
    BY DEF EachOnce
  <2>3. CASE k = Head(todo)
    BY <2>1, <2>2, <2>3, <1>2 DEF Waiting
  <2>4. CASE k # Head(todo)
    BY <2>2, <2>4, <1>2 DEF Waiting
  <2> QED BY <2>3, <2>4
<1>6. \A k \in Kinds : \A n \in Nat : delivered[k] >= n => delivered'[k] >= n
  <2>1. \A k \in Kinds : delivered[k] \in Nat
    BY DEF Shape
  <2> QED BY ONLY <1>2, <2>1
<1>7. \A k \in Kinds : atClose[k] \in Nat
  BY DEF Shape
<1>8. Flushed'
  BY <1>6, <1>7 DEF Flushed
<1>9. ClosedDelivers'
  BY <1>6, <1>7 DEF ClosedDelivers
<1> QED BY <1>3, <1>4, <1>5, <1>8, <1>9

\* Emptying a batch at the end of its flush loses nothing.
LEMMA ResetStep == ASSUME BatchInv, Reset PROVE BatchInv'
<1> USE DEF BatchInv, Reset
<1> DEFINE h == Head(todo)
<1>1. h \in Kinds /\ Tail(todo) \in Seq(Kinds) /\ left = 0
  BY DEF Shape
<1>2. todo' = Tail(todo)
  BY DEF Flushing
<1>3. todo' # <<>> => Head(todo') \in Kinds /\ left' = batch'[Head(todo')]
  BY <1>1, <1>2 DEF Flushing
<1>4. batch' \in [Kinds -> Nat] /\ batch'[h] = 0
  BY <1>1 DEF Shape
<1>5. \A k \in Kinds : k # h => batch'[k] = batch[k]
  BY <1>1 DEF Shape
<1>6. delivered[h] = recorded[h]
  BY <1>1 DEF EachOnce, Waiting, Shape
<1>7. Shape'
  <2>1. left' \in Nat
    BY <1>3, <1>4, <1>2, Zenon DEF Flushing
  <2> QED BY <1>1, <1>2, <1>4, <2>1, Zenon DEF Shape
<1>8. Held'
  BY DEF Held
<1>9. EachOnce'
  <2> SUFFICES ASSUME NEW k \in Kinds PROVE delivered[k] + Waiting(k)' = recorded[k]
    BY DEF EachOnce
  <2>1. Waiting(k)' = batch'[k]
    BY <1>3 DEF Waiting
  <2>2. CASE k = h
    BY <2>1, <2>2, <1>4, <1>6 DEF Shape
  <2>3. CASE k # h
    BY <2>1, <2>3, <1>5 DEF EachOnce, Waiting
  <2> QED BY <2>2, <2>3
<1>10. Flushed'
  <2> SUFFICES ASSUME NEW k \in Kinds, holder = "closer",
                      \A i \in 1 .. Len(Tail(todo)) : Tail(todo)[i] # k
               PROVE delivered[k] >= atClose[k]
    BY <1>2 DEF Flushed
  <2>1. CASE k = h
    BY <2>1, <1>6 DEF Flushed, Shape
  <2>2. CASE k # h
    <3>1. ASSUME NEW i \in 1 .. Len(todo) PROVE todo[i] # k
      <4>1. CASE i = 1
        BY <2>2, <4>1 DEF Shape
      <4>2. CASE i # 1
        <5>1. i - 1 \in 1 .. Len(Tail(todo)) /\ Tail(todo)[i - 1] = todo[i]
          BY <4>2 DEF Shape
        <5> QED BY <5>1
      <4> QED BY <4>1, <4>2
    <3> QED BY <3>1 DEF Flushed
  <2> QED BY <2>1, <2>2
<1>11. ClosedDelivers'
  BY DEF ClosedDelivers
<1> QED BY <1>7, <1>8, <1>9, <1>10, <1>11

\* Taking the mutex to flush every batch keeps the invariant of the batches,
\* for the loop and for Close.
LEMMA FlushStep ==
  ASSUME BatchInv, NEW h \in {"loop", "closer"}, Flush(h), h = "closer" => closer = "flushing"
  PROVE  BatchInv'
<1> USE DEF BatchInv, Flush
<1>1. todo = <<>> /\ holder = "nobody" /\ holder' = h
  BY DEF Held
<1>2. todo' = AllBatches /\ left' = batch["timing"]
  BY DEF Flushing, AllBatches
<1>3. todo' # <<>> /\ Head(todo') = "timing" /\ todo' \in Seq(Kinds)
  BY <1>2 DEF AllBatches, Kinds
<1>4. Shape'
  BY <1>2, <1>3 DEF Shape, Kinds
<1>5. Held'
  BY <1>1 DEF Held
<1>6. EachOnce'
  BY <1>1, <1>2, <1>3 DEF EachOnce, Waiting
<1>7. \A k \in Kinds : \E i \in 1 .. Len(todo') : todo'[i] = k
  BY <1>2 DEF AllBatches, Kinds
<1>8. Flushed'
  BY <1>7 DEF Flushed
<1>9. ClosedDelivers'
  BY DEF ClosedDelivers
<1> QED BY <1>4, <1>5, <1>6, <1>8, <1>9

\* Every step of the batched client keeps its invariant.
LEMMA BatchStep == ASSUME BatchInv, BatchNext PROVE BatchInv'
<1>1. ASSUME NEW k \in Kinds, Record(k) PROVE BatchInv'
  BY <1>1, RecordStep
<1>2. CASE Deliver
  BY <1>2, DeliverStep
<1>3. CASE Reset
  BY <1>3, ResetStep
<1>4. CASE Unlock
  <2>1. Shape' /\ Held' /\ EachOnce' /\ Flushed'
    BY <1>4 DEF Unlock, BatchInv, Shape, Held, EachOnce, Waiting, Flushed
  <2>2. ClosedDelivers'
    <3>1. CASE holder = "closer"
      <4>1. \A i \in 1 .. Len(todo) : FALSE
        BY <1>4 DEF Unlock
      <4> QED BY <1>4, <3>1, <4>1 DEF Unlock, BatchInv, Flushed, ClosedDelivers
    <3>2. CASE holder # "closer"
      BY <1>4, <3>2 DEF Unlock, BatchInv, ClosedDelivers
    <3> QED BY <3>1, <3>2
  <2> QED BY <2>1, <2>2 DEF BatchInv
<1>5. CASE LoopTicks
  BY <1>5, FlushStep DEF LoopTicks
<1>6. CASE CloseFlushes
  BY <1>6, FlushStep DEF CloseFlushes
<1>7. CASE Close
  BY <1>7 DEF Close, BatchInv, Shape, Held, EachOnce, Waiting, Flushed, ClosedDelivers
<1>8. CASE LoopEnds \/ CloseWaits \/ Shutdown \/ ShutdownReturns \/ Ended
  BY <1>8, Zenon DEF LoopEnds, CloseWaits, Shutdown, ShutdownReturns, Ended, batchVars, BatchInv,
     Shape, Held,
              EachOnce, Waiting, Flushed, ClosedDelivers
<1> QED BY <1>1, <1>2, <1>3, <1>4, <1>5, <1>6, <1>7, <1>8 DEF BatchNext

\* Every step of the gauge and its callers keeps the gauge's invariant.
LEMMA GaugeStep == ASSUME GaugeInv, GaugeNext PROVE GaugeInv'
  BY GaugeAssumption
  DEF GaugeNext, Increment, Decrement, TakeInc, TakeDec, GaugeTick, GaugeInv, GaugeNeverLow, Open

\* A step that leaves the batched client alone keeps its invariant.
LEMMA BatchFrame == ASSUME BatchInv, UNCHANGED batchVars PROVE BatchInv'
  BY DEF batchVars, BatchInv, Shape, Held, EachOnce, Waiting, Flushed, ClosedDelivers

\* A step that leaves the gauge alone keeps its invariant.
LEMMA GaugeFrame == ASSUME GaugeInv, UNCHANGED gaugeVars PROVE GaugeInv'
  BY DEF gaugeVars, GaugeInv, GaugeNeverLow, Open

\* The inductive invariant of the metrics: holds initially, kept by every step
\* of the recorders, the flush loop, Close, Shutdown and the gauge.
THEOREM MetricsInvariance == Spec => []MetricsInv
<1>1. MetricsInv /\ [Next]_vars => MetricsInv'
  BY BatchStep, GaugeStep, BatchFrame, GaugeFrame DEF MetricsInv, Next, Batches, Gauges, vars
<1> QED BY InitMetrics, <1>1, PTL DEF Spec

\* Each recorded operation waits or was passed on, exactly once, for every batch
\* size and every interleaving of recorders, the flush loop and Close.
THEOREM EachOperationOnce == Spec => []EachOnce
<1>1. MetricsInv => EachOnce
  BY DEF MetricsInv, BatchInv
<1> QED BY MetricsInvariance, <1>1, PTL

\* What was recorded before Close was called has been passed on when it returns.
THEOREM CloseAlwaysDelivers == Spec => []ClosedDelivers
<1>1. MetricsInv => ClosedDelivers
  BY DEF MetricsInv, BatchInv
<1> QED BY MetricsInvariance, <1>1, PTL

\* The count of open connections never falls behind, for channels of every size.
THEOREM GaugeNeverBehind == Spec => []GaugeNeverLow
<1>1. MetricsInv => GaugeNeverLow
  BY DEF MetricsInv, GaugeInv
<1> QED BY MetricsInvariance, <1>1, PTL

-----------------------------------------------------------------------------
(* The bounds *)

\* A batch is full only while its flush is to come, in the hands of who filled it
FullIsFlushed ==
  \A k \in Kinds :
    /\ batch[k] <= BatchSize
    /\ batch[k] = BatchSize => \E i \in 1 .. Len(todo) : todo[i] = k

BatchBounds ==
  /\ FullIsFlushed
  /\ holder \in Holders /\ todo \in Suffixes
  /\ canceled \in BOOLEAN /\ loop \in {"running", "done"}
  /\ closer \in {"idle", "waiting", "flushing", "closed", "shutdown", "shut"}

\* Each connection that was accepted is in the count, in the channel or missed
GaugeBounds ==
  /\ opened <= MaxConns /\ inc <= ChanSize /\ dec <= ChanSize
  /\ count + inc + missed <= opened
  /\ shown \in 0 .. MaxConns

\* A sequence of two or three elements, written out.
LEMMA Two ==
  ASSUME NEW S, NEW t \in Seq(S), NEW x \in S, NEW y \in S, Len(t) = 2, t[1] = x, t[2] = y
  PROVE  t = <<x, y>>
<1>1. ASSUME NEW u \in Seq(S), u = <<x, y>> PROVE u = t
  <2>1. Len(u) = 2 /\ u[1] = x /\ u[2] = y
    BY <1>1
  <2>2. \A i \in 1 .. 2 : i = 1 \/ i = 2
    OBVIOUS
  <2>3. \A i \in 1 .. 2 : u[i] = t[i]
    BY <2>1, <2>2, Zenon
  <2> QED  BY <2>1, <2>3, SeqEqual, Zenon
<1>2. <<x, y>> \in Seq(S)
  OBVIOUS
<1> QED  BY <1>1, <1>2, Zenon

LEMMA Three ==
  ASSUME NEW S, NEW t \in Seq(S), NEW x \in S, NEW y \in S, NEW z \in S,
         Len(t) = 3, t[1] = x, t[2] = y, t[3] = z
  PROVE  t = <<x, y, z>>
<1>1. ASSUME NEW u \in Seq(S), u = <<x, y, z>> PROVE u = t
  <2>1. Len(u) = 3 /\ u[1] = x /\ u[2] = y /\ u[3] = z
    BY <1>1
  <2>2. \A i \in 1 .. 3 : i = 1 \/ i = 2 \/ i = 3
    OBVIOUS
  <2>3. \A i \in 1 .. 3 : u[i] = t[i]
    BY <2>1, <2>2, Zenon
  <2> QED  BY <2>1, <2>3, SeqEqual, Zenon
<1>2. <<x, y, z>> \in Seq(S)
  OBVIOUS
<1> QED  BY <1>1, <1>2, Zenon

\* The tail of three or four elements.
LEMMA Lengths == Len(<<>>) = 0 /\ 0 # 3 /\ 0 # 4 /\ 3 - 1 = 2 /\ 4 - 1 = 3
OBVIOUS

LEMMA TailOfThree ==
  ASSUME NEW S, NEW s \in Seq(S), Len(s) = 3 PROVE Tail(s) = <<s[2], s[3]>>
<1>1. ASSUME NEW t, t = Tail(s)
      PROVE  t \in Seq(S) /\ Len(t) = 2 /\ t[1] = s[2] /\ t[2] = s[3]
  <2>0. s # <<>> /\ 3 - 1 = 2
    BY Lengths, Zenon
  <2>1. t \in Seq(S) /\ Len(t) = 2
    BY <1>1, <2>0, HeadTailProperties, Zenon
  <2>2. \A i \in 1 .. 2 : t[i] = s[i + 1]
    BY <1>1, <2>0, <2>1, HeadTailProperties, Zenon
  <2>3. 1 \in 1 .. 2 /\ 2 \in 1 .. 2 /\ 1 + 1 = 2 /\ 2 + 1 = 3
    OBVIOUS
  <2>4. t[1] = s[1 + 1] /\ t[2] = s[2 + 1]
    BY <2>2, <2>3, Zenon
  <2> QED  BY <2>1, <2>3, <2>4, Zenon
<1>2. \A i \in 1 .. 3 : s[i] \in S
  BY ElementOfSeq, Zenon
<1>3. 2 \in 1 .. 3 /\ 3 \in 1 .. 3
  OBVIOUS
<1>4. s[2] \in S /\ s[3] \in S
  BY <1>2, <1>3, Zenon
<1>5. ASSUME NEW t, t = Tail(s) PROVE t = <<s[2], s[3]>>
  <2>1. t \in Seq(S) /\ Len(t) = 2 /\ t[1] = s[2] /\ t[2] = s[3]
    BY <1>1, <1>5, Zenon
  <2> QED  BY <1>4, <2>1, Two, Zenon
<1> QED  BY <1>5, Zenon

LEMMA TailOfFour ==
  ASSUME NEW S, NEW s \in Seq(S), Len(s) = 4 PROVE Tail(s) = <<s[2], s[3], s[4]>>
<1>1. ASSUME NEW t, t = Tail(s)
      PROVE  t \in Seq(S) /\ Len(t) = 3 /\ t[1] = s[2] /\ t[2] = s[3] /\ t[3] = s[4]
  <2>0. s # <<>> /\ 4 - 1 = 3
    BY Lengths, Zenon
  <2>1. t \in Seq(S) /\ Len(t) = 3
    BY <1>1, <2>0, HeadTailProperties, Zenon
  <2>2. \A i \in 1 .. 3 : t[i] = s[i + 1]
    BY <1>1, <2>0, <2>1, HeadTailProperties, Zenon
  <2>3. 1 \in 1 .. 3 /\ 2 \in 1 .. 3 /\ 3 \in 1 .. 3 /\ 1 + 1 = 2 /\ 2 + 1 = 3 /\ 3 + 1 = 4
    OBVIOUS
  <2>4. t[1] = s[1 + 1] /\ t[2] = s[2 + 1] /\ t[3] = s[3 + 1]
    BY <2>2, <2>3, Zenon
  <2> QED  BY <2>1, <2>3, <2>4, Zenon
<1>2. \A i \in 1 .. 4 : s[i] \in S
  BY ElementOfSeq, Zenon
<1>3. 2 \in 1 .. 4 /\ 3 \in 1 .. 4 /\ 4 \in 1 .. 4
  OBVIOUS
<1>4. s[2] \in S /\ s[3] \in S /\ s[4] \in S
  BY <1>2, <1>3, Zenon
<1>5. ASSUME NEW t, t = Tail(s) PROVE t = <<s[2], s[3], s[4]>>
  <2>1. t \in Seq(S) /\ Len(t) = 3 /\ t[1] = s[2] /\ t[2] = s[3] /\ t[3] = s[4]
    BY <1>1, <1>5, Zenon
  <2> QED  BY <1>4, <2>1, Three
<1> QED  BY <1>5, Zenon

\* What remains after a kind is flushed.
LEMMA TailOf == ASSUME todo \in Suffixes, todo # <<>> PROVE Tail(todo) \in Suffixes
<1>1. ASSUME NEW k \in Kinds, todo = <<k>> PROVE Tail(todo) \in Suffixes
  <2>1. Tail(todo) = <<>>
    BY <1>1
  <2> QED  BY <2>1, Zenon DEF Suffixes
<1>2. CASE todo = <<"gauge", "distribution">>
  <2>1. Tail(todo) = <<"distribution">>
    BY <1>2
  <2> QED  BY <2>1, Zenon DEF Suffixes, Kinds
<1>3. CASE todo = <<"counter", "gauge", "distribution">>
  <2>1. todo \in Seq(Kinds) /\ Len(todo) = 3 /\ todo[2] = "gauge" /\ todo[3] = "distribution"
    BY <1>3 DEF Kinds
  <2>2. Tail(todo) = <<"gauge", "distribution">>
    BY <2>1, TailOfThree, Zenon
  <2> QED  BY <2>2, Zenon DEF Suffixes
<1>4. CASE todo = AllBatches
  <2>1. /\ todo \in Seq(Kinds) /\ Len(todo) = 4
        /\ todo[2] = "counter" /\ todo[3] = "gauge" /\ todo[4] = "distribution"
    BY <1>4 DEF AllBatches, Kinds
  <2>2. Tail(todo) = <<"counter", "gauge", "distribution">>
    BY <2>1, TailOfFour, Zenon
  <2> QED  BY <2>2, Zenon DEF Suffixes
<1> QED  BY <1>1, <1>2, <1>3, <1>4, Zenon DEF Suffixes

\* Every step of the batched client keeps the bounds.
LEMMA BoundsStep == ASSUME Shape, Held, BatchBounds, BatchNext PROVE BatchBounds'
<1>1. ASSUME NEW k \in Kinds, Record(k) PROVE BatchBounds'
  <2>1. todo = <<>> /\ holder = "nobody" /\ holder' = "recorder" /\ UNCHANGED <<canceled, loop, closer>>
    BY <1>1 DEF Record, Held
  <2>2. \A j \in Kinds : batch[j] \in Nat /\ batch[j] < BatchSize
    BY <2>1, BatchAssumption DEF BatchBounds, FullIsFlushed, Shape
  <2>3. \A j \in Kinds : batch'[j] = IF j = k THEN batch[j] + 1 ELSE batch[j]
    BY <1>1 DEF Record, Shape
  <2>4. todo' = IF batch'[k] >= BatchSize THEN <<k>> ELSE <<>>
    BY <1>1 DEF Record, Flushing, IsFull
  <2>5. FullIsFlushed'
    BY <2>2, <2>3, <2>4, BatchAssumption DEF FullIsFlushed
  <2>6. todo' \in Suffixes
    BY <2>4, Zenon DEF Suffixes
  <2> QED  BY <2>1, <2>5, <2>6, Zenon DEF BatchBounds, Holders
<1>2. CASE Deliver \/ Ended
  BY <1>2, Zenon DEF Deliver, Ended, batchVars, BatchBounds, FullIsFlushed
<1>3. CASE Reset
  <2>1. todo # <<>> /\ todo' = Tail(todo) /\ UNCHANGED <<holder, canceled, loop, closer>>
    BY <1>3 DEF Reset, Flushing
  <2>2. \A k \in Kinds : batch'[k] = IF k = Head(todo) THEN 0 ELSE batch[k]
    BY <1>3 DEF Reset, Shape
  <2>3. ASSUME NEW k \in Kinds, NEW i \in 1 .. Len(todo), todo[i] = k, k # Head(todo)
        PROVE  \E j \in 1 .. Len(todo') : todo'[j] = k
    <3>1. i - 1 \in 1 .. Len(Tail(todo)) /\ Tail(todo)[i - 1] = todo[i]
      BY <2>1, <2>3 DEF Shape
    <3> QED  BY <2>1, <2>3, <3>1, Zenon
  <2>4. FullIsFlushed'
    BY <2>2, <2>3, BatchAssumption DEF BatchBounds, FullIsFlushed
  <2>5. todo' \in Suffixes
    BY <2>1, TailOf, Zenon DEF BatchBounds
  <2> QED  BY <2>1, <2>4, <2>5, Zenon DEF BatchBounds
<1>4. ASSUME NEW h \in Holders, Flush(h) PROVE BatchBounds'
  <2>1. todo' = AllBatches /\ UNCHANGED <<batch, canceled, loop, closer>> /\ holder' = h
    BY <1>4, Zenon DEF Flush, Flushing
  <2>2. \A k \in Kinds : \E i \in 1 .. Len(AllBatches) : AllBatches[i] = k
    BY DEF AllBatches, Kinds
  <2>3. FullIsFlushed'
    BY <2>1, <2>2, Zenon DEF BatchBounds, FullIsFlushed
  <2> QED  BY <2>1, <2>3, Zenon DEF BatchBounds, Suffixes
<1>5. CASE LoopTicks \/ CloseFlushes
  BY <1>4, <1>5, Zenon DEF LoopTicks, CloseFlushes, Holders
<1>6. CASE Unlock
  BY <1>6, Zenon DEF Unlock, BatchBounds, FullIsFlushed, Holders
<1>7. CASE LoopEnds \/ Close \/ CloseWaits \/ Shutdown \/ ShutdownReturns
  BY <1>7, Zenon DEF LoopEnds, Close, CloseWaits, Shutdown, ShutdownReturns, BatchBounds,
     FullIsFlushed
<1> QED  BY <1>1, <1>2, <1>3, <1>5, <1>6, <1>7, Zenon DEF BatchNext

\* Every step of the gauge and its callers keeps the bounds.
LEMMA GaugeBoundsStep == ASSUME GaugeInv, GaugeBounds, GaugeNext PROVE GaugeBounds'
  BY GaugeAssumption
  DEF GaugeNext, Increment, Decrement, TakeInc, TakeDec, GaugeTick, GaugeInv, GaugeBounds

\* No batch outgrows its size: who fills one has the mutex until it is emptied.
\* No channel and no count of the gauge outgrows what was accepted.
THEOREM TypeCorrect == Spec => []TypeOK
<1> DEFINE Bounds == BatchBounds /\ GaugeBounds /\ using \in Workloads
<1>1. Init => Bounds
  <2>1. Init => BatchBounds
    <3>1. Init => FullIsFlushed
      BY BatchAssumption DEF Init, BatchInit, FullIsFlushed
    <3> QED  BY <3>1, Zenon DEF Init, BatchInit, BatchBounds, Holders, Suffixes
  <2>2. Init => GaugeBounds
    BY GaugeAssumption DEF Init, GaugeInit, GaugeBounds
  <2> QED  BY <2>1, <2>2, Zenon DEF Init
<1>2. MetricsInv /\ Bounds /\ [Next]_vars => Bounds'
  <2>1. ASSUME MetricsInv, Bounds, Batches(BatchNext) PROVE Bounds'
    <3>1. BatchNext /\ UNCHANGED gaugeVars /\ using' = using
      BY <2>1, Zenon DEF Batches
    <3>2. BatchBounds'
      BY <2>1, <3>1, BoundsStep, Zenon DEF MetricsInv, BatchInv
    <3>3. GaugeBounds'
      BY <2>1, <3>1 DEF gaugeVars, GaugeBounds
    <3> QED  BY <2>1, <3>1, <3>2, <3>3, Zenon
  <2>2. ASSUME MetricsInv, Bounds, Gauges(GaugeNext) PROVE Bounds'
    <3>1. GaugeNext /\ UNCHANGED batchVars /\ using' = using
      BY <2>2, Zenon DEF Gauges
    <3>2. GaugeBounds'
      BY <2>2, <3>1, GaugeBoundsStep, Zenon DEF MetricsInv
    <3>3. BatchBounds'
      BY <2>2, <3>1 DEF batchVars, BatchBounds, FullIsFlushed
    <3> QED  BY <2>2, <3>1, <3>2, <3>3, Zenon
  <2>3. ASSUME Bounds, UNCHANGED vars PROVE Bounds'
    BY <2>3 DEF vars, batchVars, gaugeVars, BatchBounds, FullIsFlushed, GaugeBounds
  <2> QED  BY <2>1, <2>2, <2>3, Zenon DEF Next
<1>3. MetricsInv /\ Bounds => TypeOK
  <2> SUFFICES ASSUME MetricsInv, Bounds PROVE TypeOK
    OBVIOUS
  <2>1. batch \in [Kinds -> 0 .. BatchSize]
    BY BatchAssumption DEF MetricsInv, BatchInv, Shape, BatchBounds, FullIsFlushed
  <2>2. BatchTypeOK
    BY <2>1, Zenon DEF BatchTypeOK, MetricsInv, BatchInv, Shape, BatchBounds
  <2>3. GaugeTypeOK
    BY GaugeAssumption DEF GaugeTypeOK, MetricsInv, GaugeInv, GaugeBounds
  <2> QED  BY <2>2, <2>3, Zenon DEF TypeOK
<1> QED  BY <1>1, <1>2, <1>3, MetricsInvariance, PTL DEF Spec
=============================================================================

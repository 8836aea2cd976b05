---------------------------- MODULE BackgroundGauge --------------------------
(***************************************************************************)
(* The gauge of open client connections: BackgroundGauge (util/metrics.go) *)
(* with the accept loop that reports to it (proxy/proxy.go).  The          *)
(* callbacks post to two buffered channels and drop what does not fit; a   *)
(* goroutine reads either channel, in no order, and shows its count on     *)
(* every tick.                                                             *)
(***************************************************************************)
EXTENDS Naturals

CONSTANTS ChanSize,  \* capacity of the channels
          MaxConns   \* bound: connections accepted

ASSUME GaugeAssumption == ChanSize \in Nat /\ MaxConns \in Nat

VARIABLES opened,  \* the counter connection_opened
          closed,  \* the counter connection_closed
          inc,     \* length of the channel inc
          dec,     \* length of the channel dec
          count,   \* the goroutine's
          shown,   \* the gauge open_connections
          missed   \* history: increments that did not fit

gaugeVars == <<opened, closed, inc, dec, count, shown, missed>>

GaugeTypeOK ==
  /\ opened \in 0 .. MaxConns /\ closed \in 0 .. MaxConns
  /\ inc \in 0 .. ChanSize /\ dec \in 0 .. ChanSize
  /\ count \in 0 .. MaxConns /\ shown \in 0 .. MaxConns
  /\ missed \in 0 .. MaxConns

GaugeInit ==
  /\ opened = 0 /\ closed = 0 /\ inc = 0 /\ dec = 0
  /\ count = 0 /\ shown = 0 /\ missed = 0

Open == opened - closed

\* increment, called by accept for a new connection
Increment ==
  /\ opened < MaxConns
  /\ opened' = opened + 1
  /\ \/ /\ inc < ChanSize
        /\ inc' = inc + 1
        /\ UNCHANGED missed
     \/ /\ inc = ChanSize
        /\ missed' = missed + 1
        /\ UNCHANGED inc
  /\ UNCHANGED <<closed, dec, count, shown>>

\* decrement, called by the goroutine of a connection that has ended
Decrement ==
  /\ closed < opened
  /\ closed' = closed + 1
  /\ dec' = IF dec < ChanSize THEN dec + 1 ELSE dec
  /\ UNCHANGED <<opened, inc, count, shown, missed>>

TakeInc ==
  /\ inc > 0
  /\ inc' = inc - 1
  /\ count' = count + 1
  /\ UNCHANGED <<opened, closed, dec, shown, missed>>

MutTakeDec ==
  /\ dec > 0
  /\ dec' = dec - 1
  /\ count' = 0
  /\ UNCHANGED <<opened, closed, inc, shown, missed>>

TakeDec ==
  /\ dec > 0
  /\ dec' = dec - 1
  /\ count' = IF count > 0 THEN count - 1 ELSE count
  /\ UNCHANGED <<opened, closed, inc, shown, missed>>

MutGaugeTick ==
  /\ shown' = IF count > shown THEN shown ELSE count
  /\ UNCHANGED <<opened, closed, inc, dec, count, missed>>

GaugeTick ==
  /\ shown' = count
  /\ UNCHANGED <<opened, closed, inc, dec, count, missed>>

GaugeNext == Increment \/ Decrement \/ TakeInc \/ TakeDec \/ GaugeTick

-----------------------------------------------------------------------------
(* Properties *)

\* The count never falls behind: with what is still in the channels it comes to
\* at least the open connections, less the increments that did not fit in their
\* channel, for which it stays low.  (It may come to more, for good: an end
\* that is read before its beginning, with the count at zero, is ignored, and an
\* end that does not fit is dropped.)
GaugeNeverLow == count + inc + missed >= Open + dec

\* While as many connections stay open, the gauge comes to show at least them,
\* less the increments that did not fit.
GaugeCatchesUp ==
  \A n \in 1 .. MaxConns : Open = n ~> (shown + missed >= n \/ Open # n)
=============================================================================

---------------------------- MODULE ExpiringCache ----------------------------
(***************************************************************************)
(* What the users of lruttl.Cache rely on: a map of bounded size that      *)
(* forgets a record on its own only if the record has not been used for    *)
(* longer than Expiry, or if room is needed and no other record was used   *)
(* longer ago.  Nothing here says how the order of use is kept.            *)
(***************************************************************************)
EXTENDS Naturals, FiniteSets

CONSTANTS Keys, Values, NoValue,
          MaxEntries,  \* 0 for no limit
          Expiry       \* time units an unused record stays, 0 for ever

VARIABLES store,  \* key -> its value, NoValue if there is none
          used,   \* key -> when it was last added or got, 0 if absent
          call,   \* the method that changed the cache last, or "none"
          now

Present == {k \in Keys : store[k] # NoValue}

TooMany(K) == MaxEntries # 0 /\ Cardinality(K) > MaxEntries

\* The function f once the keys K are forgotten
Without(f, K, none) == [k \in Keys |-> IF k \in K THEN none ELSE f[k]]

Init ==
  /\ store = [k \in Keys |-> NoValue]
  /\ used = [k \in Keys |-> 0]
  /\ call = "none"
  /\ now \in Nat

LeastRecentlyUsed(K) == {d \in K : \A j \in K : used[d] <= used[j]}

\* k is added or replaced; D is what had to make room for it
Add(k, v, D) ==
  /\ IF TooMany(Present \cup {k})
     THEN \E d \in LeastRecentlyUsed(Present \ {k}) : D = {d}
     ELSE D = {}
  /\ store' = Without([store EXCEPT ![k] = v], D, NoValue)
  /\ used' = Without([used EXCEPT ![k] = now], D, 0)
  /\ call' = "add"
  /\ UNCHANGED now

Use(k) ==
  /\ k \in Present
  /\ used' = [used EXCEPT ![k] = now]
  /\ call' = "get"
  /\ UNCHANGED <<store, now>>

Forget(K) ==
  /\ store' = Without(store, K, NoValue)
  /\ used' = Without(used, K, 0)
  /\ UNCHANGED now

Remove(k) == Forget({k}) /\ call' = "remove"

Clear == Forget(Keys) /\ call' = "clear"

\* The only loss without a call
Expire(k) ==
  /\ Expiry # 0 /\ k \in Present /\ used[k] + Expiry < now
  /\ Forget({k})
  /\ call' = "none"

Tick ==
  /\ now' \in Nat /\ now' > now
  /\ UNCHANGED <<store, used, call>>

Next ==
  \/ \E k \in Keys, v \in Values, D \in SUBSET Keys : Add(k, v, D)
  \/ \E k \in Keys : Use(k) \/ Remove(k) \/ Expire(k)
  \/ Clear
  \/ Tick

Spec == Init /\ [][Next]_<<store, used, call, now>>
=============================================================================

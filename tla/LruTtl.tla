------------------------------- MODULE LruTtl -------------------------------
(***************************************************************************)
(* lruttl.Cache (lruttl/lruttl.go): a map from keys to the elements of a   *)
(* list that is kept in the order of use, and a goroutine that removes     *)
(* expired records from the back of the list.  Every method holds Cache.mu *)
(* throughout, so it is one step.  The cache serves as cursor cache,       *)
(* transaction cache, route cache and cache of credential clients.         *)
(*                                                                         *)
(* The list is modelled by the order of its elements, named by their keys: *)
(* <<a, b>> \in ll when a is b or further back than b.  The clock does not *)
(* run backwards.                                                          *)
(***************************************************************************)
EXTENDS Naturals, FiniteSets

CONSTANTS Keys, Values, NoValue,
          MaxEntries,  \* Cache.maxEntries, 0 for no limit
          Expiry,      \* Cache.expiry in time units, 0 for ever
          MaxTime      \* bound: the clock stops here

ASSUME LruAssumption ==
  /\ IsFiniteSet(Keys)
  /\ NoValue \notin Values
  /\ MaxEntries \in Nat /\ Expiry \in Nat /\ MaxTime \in Nat

VARIABLES cache,   \* key -> value of its element, NoValue if not in the map
          ll,      \* the list
          expiry,  \* key -> entry.expiry, 0 if there is no entry
          now,
          call,    \* history: the method that changed the cache last, or "none"
          loop     \* expireLoop: asleep, or between two removals

vars == <<cache, ll, expiry, now, call, loop>>

Cached == {k \in Keys : cache[k] # NoValue}

Listed(r) == {k \in Keys : <<k, k>> \in r}

\* r puts its elements in a linear order
IsList(r) ==
  /\ r \subseteq Listed(r) \X Listed(r)
  /\ \A a, b \in Listed(r) : <<a, b>> \in r \/ <<b, a>> \in r
  /\ \A a, b \in Listed(r) : <<a, b>> \in r /\ <<b, a>> \in r => a = b
  /\ \A a, b, c \in Listed(r) : <<a, b>> \in r /\ <<b, c>> \in r => <<a, c>> \in r

TypeOK ==
  /\ cache \in [Keys -> Values \cup {NoValue}]
  /\ IsList(ll)
  /\ expiry \in [Keys -> Nat]
  /\ now \in Nat
  /\ call \in {"none", "add", "get", "remove", "clear"}
  /\ loop \in {"asleep", "sweeping"}

Init ==
  /\ cache = [k \in Keys |-> NoValue]
  /\ ll = {}
  /\ expiry = [k \in Keys |-> 0]
  /\ now = 0
  /\ call = "none"
  /\ loop = "asleep"

-----------------------------------------------------------------------------
(* The list *)

MutUnlink(r, K) == {p \in r : p[2] \notin K}

\* list.Remove, of the elements of the keys K
Unlink(r, K) == {p \in r : p[1] \notin K /\ p[2] \notin K}

\* list.PushFront and list.MoveToFront
ToFront(r, k) == Unlink(r, {k}) \cup ((Listed(r) \cup {k}) \X {k})

MutIsBack(r, k) == k \in Listed(r) /\ \A j \in Listed(r) : <<j, k>> \in r

\* list.Back() is the element of k
IsBack(r, k) == k \in Listed(r) /\ \A j \in Listed(r) : <<k, j>> \in r

\* removeElement for the keys K, from map, list and entries that are given
RemoveElements(K, c, r, e) ==
  /\ cache' = [j \in Keys |-> IF j \in K THEN NoValue ELSE c[j]]
  /\ ll' = Unlink(r, K)
  /\ expiry' = [j \in Keys |-> IF j \in K THEN 0 ELSE e[j]]

Touched(k) == [expiry EXCEPT ![k] = now + Expiry]

Expired(k) == now > expiry[k]

-----------------------------------------------------------------------------
(* The methods *)

MutOverLimit(r) == MaxEntries # 0 /\ Cardinality(Listed(r)) > MaxEntries + 1

OverLimit(r) == MaxEntries # 0 /\ Cardinality(Listed(r)) > MaxEntries

\* Add: a key that is there is brought to the front with its new value;
\* else a new element, and removeOldest if that is one too many
Add(k, v) ==
  LET c == [cache EXCEPT ![k] = v]
      r == ToFront(ll, k)
  IN
  /\ \/ (k \in Cached \/ ~ OverLimit(r)) /\ RemoveElements({}, c, r, Touched(k))
     \/ /\ k \notin Cached /\ OverLimit(r)
        /\ \E d \in Keys : IsBack(r, d) /\ RemoveElements({d}, c, r, Touched(k))
  /\ call' = "add"
  /\ UNCHANGED <<now, loop>>

MutGet(k) ==
  /\ k \in Cached
  /\ expiry' = Touched(k)
  /\ call' = "get"
  /\ UNCHANGED <<cache, ll, now, loop>>

\* Get of a key that is there, expired or not
Get(k) ==
  /\ k \in Cached
  /\ ll' = ToFront(ll, k)
  /\ expiry' = Touched(k)
  /\ call' = "get"
  /\ UNCHANGED <<cache, now, loop>>

MutRemove(k) ==
  /\ k \in Cached
  /\ ll' = Unlink(ll, {k})
  /\ call' = "remove"
  /\ UNCHANGED <<cache, expiry, now, loop>>

Remove(k) ==
  /\ k \in Cached
  /\ RemoveElements({k}, cache, ll, expiry)
  /\ call' = "remove"
  /\ UNCHANGED <<now, loop>>

Clear ==
  /\ RemoveElements(Keys, cache, ll, expiry)
  /\ call' = "clear"
  /\ UNCHANGED <<now, loop>>

-----------------------------------------------------------------------------
(* expireLoop *)

MutOldestExpired ==
  /\ Expiry # 0 /\ loop = "asleep"
  /\ \E d \in Keys : MutIsBack(ll, d) /\ Expired(d)
  /\ loop' = "sweeping"
  /\ UNCHANGED <<cache, ll, expiry, now, call>>

\* The goroutine runs only if records expire.  After its sleep it looks at the
\* back of the list only
OldestExpired ==
  /\ Expiry # 0 /\ loop = "asleep"
  /\ \E d \in Keys : IsBack(ll, d) /\ Expired(d)
  /\ loop' = "sweeping"
  /\ UNCHANGED <<cache, ll, expiry, now, call>>

\* It removes one record after the other, releasing the lock in between, and
\* stops at the first that has not expired
RemoveOldestExpired ==
  /\ Expiry # 0 /\ loop = "sweeping"
  /\ \/ /\ \E d \in Keys :
             IsBack(ll, d) /\ Expired(d) /\ RemoveElements({d}, cache, ll, expiry)
        /\ call' = "none"
        /\ UNCHANGED loop
     \/ /\ \A d \in Keys : ~ (IsBack(ll, d) /\ Expired(d))
        /\ loop' = "asleep"
        /\ UNCHANGED <<cache, ll, expiry, call>>
  /\ UNCHANGED now

Tick ==
  /\ now < MaxTime
  /\ now' = now + 1
  /\ UNCHANGED <<cache, ll, expiry, call, loop>>

Next ==
  \/ \E k \in Keys, v \in Values : Add(k, v)
  \/ \E k \in Keys : Get(k) \/ Remove(k)
  \/ Clear
  \/ OldestExpired \/ RemoveOldestExpired
  \/ Tick

Spec == Init /\ [][Next]_vars

\* The loop is a goroutine of its own and a sync.RWMutex starves nobody
Fairness == WF_vars(OldestExpired) /\ WF_vars(RemoveOldestExpired)

FairSpec == Spec /\ Fairness

-----------------------------------------------------------------------------
(* Properties *)

\* The map and the list hold the same records after every method and every
\* removal by the loop: no record is unreachable, none comes back.
MapMatchesList == Cached = Listed(ll)

\* The list is sorted by expiry although get and add keep moving elements, and
\* a record used now belongs at its front: the loop may look at the back only.
OldestAtBack ==
  /\ \A a, b \in Listed(ll) : <<a, b>> \in ll => expiry[a] <= expiry[b]
  /\ \A a \in Listed(ll) : Expiry <= expiry[a] /\ expiry[a] <= now + Expiry

\* The cache never holds more than maxEntries records.
WithinLimit == MaxEntries # 0 => Cardinality(Cached) <= MaxEntries

\* When each record was last used, by its expiry
LastUsed == [k \in Keys |-> IF k \in Cached THEN expiry[k] - Expiry ELSE 0]

Contract == INSTANCE ExpiringCache WITH store <- cache, used <- LastUsed

\* Unless remove or clear is called, the cache forgets a record only after it
\* has expired, or the one used longest ago when add finds it full; and get
\* and add keep the record they are called for.
KeepsContract == Contract!Spec

\* Every record that has expired goes, unless it is used again first,
\* whatever the other records are used for.
ExpiredGoes ==
  \A k \in Keys : (Expiry # 0 /\ k \in Cached /\ Expired(k))
                     ~> ~ (k \in Cached /\ Expired(k))
=============================================================================

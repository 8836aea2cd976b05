---------------------------- MODULE LruTtlProofs ----------------------------
(***************************************************************************)
(* The invariants of LruTtl and its refinement of ExpiringCache, for every *)
(* set of keys, limit and expiry.                                          *)
(***************************************************************************)
EXTENDS LruTtl, FiniteSetTheorems, TLAPS

\* Each conjunct needs the others: the order of expiry follows the list, the
\* limit counts the list, the contract speaks of the map.
Inv == TypeOK /\ MapMatchesList /\ OldestAtBack /\ WithinLimit

\* Taking elements out of the list leaves the others and their order.
LEMMA UnlinkList ==
  ASSUME NEW r, IsList(r), NEW K \in SUBSET Keys
  PROVE  IsList(Unlink(r, K)) /\ Listed(Unlink(r, K)) = Listed(r) \ K
<1>1. Listed(Unlink(r, K)) = Listed(r) \ K
  BY DEF Listed, Unlink
<1>2. \A a, b \in Listed(r) \ K : <<a, b>> \in Unlink(r, K) <=> <<a, b>> \in r
  BY DEF Unlink
<1>3. Unlink(r, K) \subseteq (Listed(r) \ K) \X (Listed(r) \ K)
  BY DEF Unlink, IsList
<1> QED
  BY <1>1, <1>2, <1>3 DEF IsList

\* An element brought or pushed to the front is in front of all the others.
LEMMA ToFrontList ==
  ASSUME NEW r, IsList(r), NEW k \in Keys
  PROVE  /\ IsList(ToFront(r, k))
         /\ Listed(ToFront(r, k)) = Listed(r) \cup {k}
         /\ \A a, b \in Listed(r) \cup {k} :
              <<a, b>> \in ToFront(r, k) <=> b = k \/ (a # k /\ <<a, b>> \in r)
<1> DEFINE L == Listed(r) \cup {k}
<1>1. \A a, b \in L : <<a, b>> \in ToFront(r, k) <=> b = k \/ (a # k /\ <<a, b>> \in r)
  BY DEF ToFront, Unlink
<1>2. ToFront(r, k) \subseteq L \X L
  BY DEF ToFront, Unlink, IsList
<1>3. Listed(ToFront(r, k)) = L
  <2>1. L \subseteq Keys
    BY DEF Listed
  <2>2. \A a \in L : <<a, a>> \in ToFront(r, k)
    BY <1>1 DEF Listed
  <2>3. \A a \in Keys : <<a, a>> \in ToFront(r, k) => a \in L
    BY <1>2
  <2> QED
    BY <2>1, <2>2, <2>3 DEF Listed
<1>4. \A a, b \in L : <<a, b>> \in ToFront(r, k) \/ <<b, a>> \in ToFront(r, k)
  BY <1>1 DEF IsList
<1>5. \A a, b \in L : <<a, b>> \in ToFront(r, k) /\ <<b, a>> \in ToFront(r, k) => a = b
  BY <1>1 DEF IsList
<1>6. \A a, b, c \in L : <<a, b>> \in ToFront(r, k) /\ <<b, c>> \in ToFront(r, k)
                           => <<a, c>> \in ToFront(r, k)
  BY <1>1 DEF IsList
<1> QED
  BY <1>1, <1>2, <1>3, <1>4, <1>5, <1>6 DEF IsList

-----------------------------------------------------------------------------
(* The inductive invariant *)

\* What Inv says of a map c, a list r and expiry times e that a method has
\* put together before it removes elements; the limit is not among it.
Good(c, r, e) ==
  /\ c \in [Keys -> Values \cup {NoValue}]
  /\ IsList(r)
  /\ e \in [Keys -> Nat]
  /\ {k \in Keys : c[k] # NoValue} = Listed(r)
  /\ \A a, b \in Listed(r) : <<a, b>> \in r => e[a] <= e[b]
  /\ \A a \in Listed(r) : Expiry <= e[a] /\ e[a] <= now + Expiry

\* removeElement keeps map, list and entries in step.
LEMMA RemoveElementsGood ==
  ASSUME NEW c, NEW r, NEW e, Good(c, r, e), NEW K \in SUBSET Keys,
         RemoveElements(K, c, r, e), UNCHANGED now,
         call' \in {"none", "add", "get", "remove", "clear"},
         loop' \in {"asleep", "sweeping"}, now \in Nat
  PROVE  TypeOK' /\ MapMatchesList' /\ OldestAtBack' /\ Cached' = Listed(r) \ K
<1>1. IsList(ll') /\ Listed(ll') = Listed(r) \ K
  BY UnlinkList DEF Good, RemoveElements
<1>2. cache' \in [Keys -> Values \cup {NoValue}] /\ expiry' \in [Keys -> Nat]
  BY DEF Good, RemoveElements
<1>3. Cached' = Listed(r) \ K
  <2>1. \A j \in Keys : cache'[j] = IF j \in K THEN NoValue ELSE c[j]
    BY DEF RemoveElements
  <2>2. \A j \in Keys : j \in Listed(r) <=> c[j] # NoValue
    BY DEF Good
  <2> QED
    BY <2>1, <2>2 DEF Cached, Listed
<1>4. \A a \in Listed(r) \ K : expiry'[a] = e[a] /\ a \in Listed(r)
  BY DEF RemoveElements, Listed
<1>5. \A a, b \in Listed(r) \ K : <<a, b>> \in ll' => <<a, b>> \in r
  BY DEF RemoveElements, Unlink
<1>6. OldestAtBack'
  <2>1. \A a, b \in Listed(ll)' : <<a, b>> \in ll' => expiry'[a] <= expiry'[b]
    BY <1>1, <1>4, <1>5, Zenon DEF Good, Listed
  <2>2. \A a \in Listed(ll)' : Expiry <= expiry'[a] /\ expiry'[a] <= now' + Expiry
    BY <1>1, <1>4 DEF Good, Listed
  <2> QED
    BY <2>1, <2>2 DEF OldestAtBack
<1> QED
  BY <1>1, <1>2, <1>3, <1>6, Zenon DEF TypeOK, MapMatchesList, IsList, Listed

\* Bringing k to the front with a new expiry keeps the list sorted.
LEMMA TouchGood ==
  ASSUME Inv, NEW k \in Keys, NEW c, c \in [Keys -> Values \cup {NoValue}],
         {j \in Keys : c[j] # NoValue} = Cached \cup {k}
  PROVE  Good(c, ToFront(ll, k), Touched(k))
<1> DEFINE r == ToFront(ll, k)
<1>1. /\ IsList(r)
      /\ Listed(r) = Listed(ll) \cup {k}
      /\ \A a, b \in Listed(ll) \cup {k} :
           <<a, b>> \in r <=> b = k \/ (a # k /\ <<a, b>> \in ll)
  BY ToFrontList, Zenon DEF Inv, TypeOK
<1>2. /\ expiry \in [Keys -> Nat] /\ now \in Nat /\ Expiry \in Nat
      /\ Listed(ll) \subseteq Keys
  BY LruAssumption DEF Inv, TypeOK, Listed
<1>3. /\ Touched(k) \in [Keys -> Nat]
      /\ \A a \in Keys : Touched(k)[a] = IF a = k THEN now + Expiry ELSE expiry[a]
  BY <1>2 DEF Touched
<1>4. \A a \in Listed(ll) : Expiry <= expiry[a] /\ expiry[a] <= now + Expiry
  BY DEF Inv, OldestAtBack
<1>5. \A a, b \in Listed(r) : <<a, b>> \in r => Touched(k)[a] <= Touched(k)[b]
  <2> SUFFICES ASSUME NEW a \in Listed(ll) \cup {k}, NEW b \in Listed(ll) \cup {k},
                      <<a, b>> \in r
               PROVE  Touched(k)[a] <= Touched(k)[b]
    BY <1>1
  <2>1. CASE b = k
    BY <2>1, <1>2, <1>3, <1>4
  <2>2. CASE b # k
    <3>1. a # k /\ <<a, b>> \in ll /\ a \in Listed(ll) /\ b \in Listed(ll)
      BY <2>2, <1>1
    <3>2. expiry[a] <= expiry[b]
      BY <3>1 DEF Inv, OldestAtBack
    <3> QED
      BY <3>1, <3>2, <2>2, <1>2, <1>3
  <2> QED
    BY <2>1, <2>2
<1>6. \A a \in Listed(r) : Expiry <= Touched(k)[a] /\ Touched(k)[a] <= now + Expiry
  BY <1>1, <1>2, <1>3, <1>4
<1>7. {j \in Keys : c[j] # NoValue} = Listed(r)
  BY <1>1 DEF Inv, MapMatchesList
<1> QED
  BY <1>1, <1>3, <1>5, <1>6, <1>7 DEF Good

\* The state as it is, for the removals that touch nothing.
LEMMA InvGood == Inv => Good(cache, ll, expiry)
  BY DEF Inv, TypeOK, MapMatchesList, OldestAtBack, Good, Cached

\* After removals that leave at most what was there, the limit still holds.
LEMMA SmallerWithinLimit ==
  ASSUME Inv, Cached' \subseteq Cached
  PROVE  WithinLimit'
<1>1. IsFiniteSet(Cached)
  BY LruAssumption, FS_Subset DEF Cached
<1>2. Cardinality(Cached') <= Cardinality(Cached) /\ Cardinality(Cached') \in Nat
  BY <1>1, FS_Subset, FS_CardinalityType
<1>3. Cardinality(Cached) \in Nat
  BY <1>1, FS_CardinalityType
<1> QED
  BY <1>2, <1>3, LruAssumption DEF Inv, WithinLimit

\* Add keeps the invariant: at the limit one element goes for the new one.
LEMMA AddInv ==
  ASSUME Inv, NEW k \in Keys, NEW v \in Values, Add(k, v)
  PROVE  Inv'
<1> DEFINE c == [cache EXCEPT ![k] = v]
           r == ToFront(ll, k)
<1>1. Good(c, r, Touched(k))
  <2>1. c \in [Keys -> Values \cup {NoValue}]
    BY DEF Inv, TypeOK
  <2>2. {j \in Keys : c[j] # NoValue} = Cached \cup {k}
    BY LruAssumption DEF Inv, TypeOK, Cached
  <2> QED
    BY <2>1, <2>2, TouchGood, Zenon
<1>2. Listed(r) = Cached \cup {k}
  BY ToFrontList DEF Inv, TypeOK, MapMatchesList
<1>3. IsFiniteSet(Cached)
  BY LruAssumption, FS_Subset DEF Cached
<1>4. UNCHANGED now /\ now \in Nat
      /\ call' \in {"none", "add", "get", "remove", "clear"}
      /\ loop' \in {"asleep", "sweeping"}
  BY DEF Add, Inv, TypeOK
<1>5. CASE (k \in Cached \/ ~ OverLimit(r)) /\ RemoveElements({}, c, r, Touched(k))
  <2>1. TypeOK' /\ MapMatchesList' /\ OldestAtBack' /\ Cached' = Listed(r) \ {}
    BY <1>1, <1>4, <1>5, RemoveElementsGood
  <2>2. Cached' = Listed(r)
    BY <2>1
  <2>3. WithinLimit'
    <3>1. CASE k \in Cached
      BY <3>1, <2>2, <1>2, SmallerWithinLimit
    <3>2. CASE ~ OverLimit(r)
      <4>1. Cardinality(Cached') \in Nat
        BY <2>2, <1>2, <1>3, FS_AddElement, FS_CardinalityType
      <4> QED
        BY <3>2, <2>2, <4>1, LruAssumption DEF OverLimit, WithinLimit
    <3> QED
      BY <1>5, <3>1, <3>2
  <2> QED
    BY <2>1, <2>3 DEF Inv
<1>6. CASE /\ k \notin Cached /\ OverLimit(r)
           /\ \E d \in Keys : IsBack(r, d) /\ RemoveElements({d}, c, r, Touched(k))
  <2>1. PICK d \in Keys : IsBack(r, d) /\ RemoveElements({d}, c, r, Touched(k))
    BY <1>6
  <2>2. TypeOK' /\ MapMatchesList' /\ OldestAtBack' /\ Cached' = Listed(r) \ {d}
    BY <1>1, <1>4, <2>1, RemoveElementsGood
  <2>3. WithinLimit'
    <3>1. d \in Cached \cup {k}
      BY <2>1, <1>2 DEF IsBack
    <3>2. IsFiniteSet(Cached \cup {k}) /\ Cardinality(Cached \cup {k}) = Cardinality(Cached) + 1
      BY <1>3, <1>6, FS_AddElement
    <3>3. Cardinality((Cached \cup {k}) \ {d}) = Cardinality(Cached \cup {k}) - 1
      BY <3>1, <3>2, FS_RemoveElement, Zenon
    <3>0. Cached' = (Cached \cup {k}) \ {d}
      BY <2>2, <1>2
    <3>4. Cardinality(Cached) \in Nat
      BY <1>3, FS_CardinalityType
    <3>5. Cardinality((Cached \cup {k}) \ {d}) = Cardinality(Cached)
      BY <3>2, <3>3, <3>4
    <3>6. Cardinality(Cached') = Cardinality(Cached)
      BY <3>0, <3>5, Zenon
    <3> QED
      BY <3>4, <3>6 DEF Inv, WithinLimit
  <2> QED
    BY <2>2, <2>3 DEF Inv
<1> QED
  BY <1>5, <1>6, Zenon DEF Add

LEMMA NextInv == Inv /\ [Next]_vars => Inv'
<1> SUFFICES ASSUME Inv, [Next]_vars PROVE Inv'
  OBVIOUS
<1>0. Good(cache, ll, expiry) /\ Cached = Listed(ll)
      /\ now \in Nat /\ loop \in {"asleep", "sweeping"}
      /\ call \in {"none", "add", "get", "remove", "clear"}
  BY InvGood DEF Inv, TypeOK, MapMatchesList
<1>1. ASSUME NEW k \in Keys, NEW v \in Values, Add(k, v) PROVE Inv'
  BY <1>1, AddInv
<1>2. ASSUME NEW k \in Keys, Get(k) PROVE Inv'
  <2>1. Good(cache, ToFront(ll, k), Touched(k))
    <3>1. cache \in [Keys -> Values \cup {NoValue}]
      BY DEF Inv, TypeOK
    <3>2. {j \in Keys : cache[j] # NoValue} = Cached \cup {k}
      BY <1>2 DEF Get, Cached
    <3> QED
      BY <3>1, <3>2, TouchGood
  <2>2. UNCHANGED <<cache, now, loop>> /\ ll' = ToFront(ll, k) /\ expiry' = Touched(k)
        /\ call' = "get"
    BY <1>2 DEF Get
  <2>3. Cached' = Cached
    BY <2>2 DEF Cached
  <2>4. TypeOK' /\ MapMatchesList' /\ OldestAtBack'
    BY <2>1, <2>2, <1>0, Zenon
    DEF Good, TypeOK, MapMatchesList, OldestAtBack, IsList, Listed, Cached
  <2> QED
    BY <2>3, <2>4, SmallerWithinLimit DEF Inv
<1>3. ASSUME NEW k \in Keys, Remove(k) PROVE Inv'
  <2>1. TypeOK' /\ MapMatchesList' /\ OldestAtBack' /\ Cached' = Listed(ll) \ {k}
    BY <1>0, <1>3, RemoveElementsGood DEF Remove
  <2> QED
    BY <2>1, <1>0, SmallerWithinLimit DEF Inv
<1>4. CASE Clear
  <2>1. TypeOK' /\ MapMatchesList' /\ OldestAtBack' /\ Cached' = Listed(ll) \ Keys
    BY <1>0, <1>4, RemoveElementsGood DEF Clear
  <2> QED
    BY <2>1, <1>0, SmallerWithinLimit DEF Inv
<1>5. CASE OldestExpired
  BY <1>5, Zenon DEF OldestExpired, Inv, TypeOK, MapMatchesList, OldestAtBack, WithinLimit,
              IsList, Listed, Cached
<1>6. CASE RemoveOldestExpired
  <2>1. ASSUME NEW d \in Keys, RemoveElements({d}, cache, ll, expiry),
               call' = "none", UNCHANGED <<loop, now>>
        PROVE  Inv'
    <3>1. TypeOK' /\ MapMatchesList' /\ OldestAtBack' /\ Cached' = Listed(ll) \ {d}
      BY <1>0, <2>1, RemoveElementsGood
    <3> QED
      BY <3>1, <1>0, SmallerWithinLimit DEF Inv
  <2>2. CASE loop' = "asleep" /\ UNCHANGED <<cache, ll, expiry, call, now>>
    BY <2>2, Zenon DEF Inv, TypeOK, MapMatchesList, OldestAtBack, WithinLimit,
                IsList, Listed, Cached
  <2> QED
    BY <1>6, <2>1, <2>2, Zenon DEF RemoveOldestExpired
<1>7. CASE Tick
  <2>1. now' = now + 1 /\ UNCHANGED <<cache, ll, expiry, call, loop>>
    BY <1>7 DEF Tick
  <2>0. now' \in Nat
    BY <2>1, <1>0
  <2>2. TypeOK' /\ MapMatchesList' /\ WithinLimit'
    BY <2>0, <2>1, Zenon
    DEF Inv, TypeOK, MapMatchesList, WithinLimit, IsList, Listed, Cached
  <2>3. Listed(ll)' = Listed(ll) /\ Listed(ll) \subseteq Keys
    BY <2>1 DEF Listed
  <2>4. expiry \in [Keys -> Nat] /\ Expiry \in Nat
    BY LruAssumption DEF Inv, TypeOK
  <2>5. OldestAtBack'
    BY <2>1, <2>3, <2>4, <1>0 DEF Inv, OldestAtBack
  <2> QED
    BY <2>2, <2>5 DEF Inv
<1>8. CASE UNCHANGED vars
  BY <1>8, Zenon DEF vars, Inv, TypeOK, MapMatchesList, OldestAtBack, WithinLimit,
              IsList, Listed, Cached
<1> QED
  BY <1>1, <1>2, <1>3, <1>4, <1>5, <1>6, <1>7, <1>8 DEF Next

LEMMA InitInv == Init => Inv
<1> SUFFICES ASSUME Init PROVE Inv
  OBVIOUS
<1>1. Cached = {} /\ Listed(ll) = {} /\ ll = {}
  BY DEF Init, Cached, Listed
<1>2. TypeOK
  BY <1>1 DEF Init, TypeOK, IsList
<1>3. WithinLimit
  BY <1>1, LruAssumption, FS_EmptySet DEF WithinLimit
<1> QED
  BY <1>1, <1>2, <1>3 DEF Inv, MapMatchesList, OldestAtBack

\* Whatever the methods and the loop do, the list stays a linear order of its
\* elements and every expiry a time.
THEOREM TypeCorrect == Spec => []TypeOK
<1>1. Inv => TypeOK
  BY DEF Inv
<1> QED
  BY <1>1, InitInv, NextInv, PTL DEF Spec

\* In every reachable state of the cache, map and list hold the same records.
THEOREM MapAlwaysMatchesList == Spec => []MapMatchesList
<1>1. Inv => MapMatchesList
  BY DEF Inv
<1> QED
  BY <1>1, InitInv, NextInv, PTL DEF Spec

\* The list is always sorted by expiry, for every history of calls.
THEOREM OldestAlwaysAtBack == Spec => []OldestAtBack
<1>1. Inv => OldestAtBack
  BY DEF Inv
<1> QED
  BY <1>1, InitInv, NextInv, PTL DEF Spec

\* The cache never holds more than maxEntries records, for every maxEntries.
THEOREM AlwaysWithinLimit == Spec => []WithinLimit
<1>1. Inv => WithinLimit
  BY DEF Inv
<1> QED
  BY <1>1, InitInv, NextInv, PTL DEF Spec

-----------------------------------------------------------------------------
(* The cache implements ExpiringCache *)

\* What the contract sees of a state.
LEMMA Mapped ==
  ASSUME Inv
  PROVE  /\ Contract!Present = Cached
         /\ LastUsed \in [Keys -> Nat]
         /\ \A a \in Cached : LastUsed[a] = expiry[a] - Expiry /\ expiry[a] \in Nat
                                /\ Expiry <= expiry[a]
         /\ \A a \in Keys \ Cached : LastUsed[a] = 0
<1>1. Cached \subseteq Keys /\ expiry \in [Keys -> Nat] /\ Expiry \in Nat
  BY LruAssumption DEF Inv, TypeOK, Cached
<1>2. \A a \in Cached : Expiry <= expiry[a] /\ expiry[a] \in Nat
  BY <1>1 DEF Inv, OldestAtBack, MapMatchesList
<1>3. \A a \in Keys : LastUsed[a] = IF a \in Cached THEN expiry[a] - Expiry ELSE 0
  BY DEF LastUsed
<1>4. \A a \in Keys : (IF a \in Cached THEN expiry[a] - Expiry ELSE 0) \in Nat
  BY <1>1, <1>2
<1>5. LastUsed \in [Keys -> Nat]
  BY <1>4 DEF LastUsed
<1> QED
  BY <1>1, <1>2, <1>3, <1>5 DEF Contract!Present, Cached

\* Removing the keys K from what a method has put together is forgetting them.
LEMMA RemovedMapped ==
  ASSUME Inv', NEW c, NEW r, NEW e, NEW K \in SUBSET Keys,
         c \in [Keys -> Values \cup {NoValue}], e \in [Keys -> Nat],
         RemoveElements(K, c, r, e),
         NEW u, u \in [Keys -> Nat],
         \A a \in Keys : u[a] = IF c[a] # NoValue THEN e[a] - Expiry ELSE 0
  PROVE  /\ cache' = Contract!Without(c, K, NoValue)
         /\ LastUsed' = Contract!Without(u, K, 0)
<1>1. cache' = Contract!Without(c, K, NoValue)
  BY DEF RemoveElements, Contract!Without
<1>2. \A a \in Keys : /\ cache'[a] = IF a \in K THEN NoValue ELSE c[a]
                      /\ expiry'[a] = IF a \in K THEN 0 ELSE e[a]
  BY DEF RemoveElements
<1>3. \A a \in Keys : (IF a \in Cached' THEN expiry'[a] - Expiry ELSE 0)
                        = (IF a \in K THEN 0 ELSE u[a])
  BY <1>2 DEF Cached
<1> QED
  BY <1>1, <1>3 DEF LastUsed, Contract!Without

\* Add is the contract's add, whether or not the oldest record has to go.
LEMMA AddMapped ==
  ASSUME Inv, Inv', NEW k \in Keys, NEW v \in Values, Add(k, v)
  PROVE  \E D \in SUBSET Keys : Contract!Add(k, v, D)
<1> DEFINE c == [cache EXCEPT ![k] = v]
           r == ToFront(ll, k)
           u == [LastUsed EXCEPT ![k] = now]
<1>1. Contract!Present = Cached /\ LastUsed \in [Keys -> Nat]
  BY Mapped
<1>2. /\ Listed(r) = Cached \cup {k}
      /\ \A a, b \in Cached \cup {k} :
           <<a, b>> \in r <=> b = k \/ (a # k /\ <<a, b>> \in ll)
  BY ToFrontList, Zenon DEF Inv, TypeOK, MapMatchesList
<1>3. /\ cache \in [Keys -> Values \cup {NoValue}] /\ expiry \in [Keys -> Nat]
      /\ now \in Nat /\ Expiry \in Nat /\ NoValue \notin Values
  BY LruAssumption DEF Inv, TypeOK
<1>4. c \in [Keys -> Values \cup {NoValue}] /\ Touched(k) \in [Keys -> Nat]
      /\ u \in [Keys -> Nat]
  BY <1>1, <1>3 DEF Touched
<1>5. \A a \in Keys : u[a] = IF c[a] # NoValue THEN Touched(k)[a] - Expiry ELSE 0
  <2> SUFFICES ASSUME NEW a \in Keys
               PROVE  u[a] = IF c[a] # NoValue THEN Touched(k)[a] - Expiry ELSE 0
    OBVIOUS
  <2>1. CASE a = k
    <3>1. u[a] = now /\ c[a] = v /\ Touched(k)[a] = now + Expiry
      BY <2>1, <1>1, <1>3 DEF Touched
    <3> QED
      BY <3>1, <1>3
  <2>2. CASE a # k
    <3>1. u[a] = LastUsed[a] /\ c[a] = cache[a] /\ Touched(k)[a] = expiry[a]
      BY <2>2, <1>1, <1>3 DEF Touched
    <3> QED
      BY <3>1, Mapped DEF Cached
  <2> QED
    BY <2>1, <2>2
<1>6. ASSUME NEW K \in SUBSET Keys, RemoveElements(K, c, r, Touched(k))
      PROVE  /\ cache' = Contract!Without(c, K, NoValue)
             /\ LastUsed' = Contract!Without(u, K, 0)
  <2> HIDE DEF c, r, u
  <2> QED
    BY <1>4, <1>5, <1>6, RemovedMapped, Zenon
<1>7. call' = "add" /\ UNCHANGED now
  BY DEF Add
<1>8. IsFiniteSet(Cached)
  BY LruAssumption, FS_Subset DEF Cached
<1>9. Contract!TooMany(Cached \cup {k}) <=> OverLimit(r)
  BY <1>2 DEF Contract!TooMany, OverLimit, Contract!Cardinality, Cardinality
<1>10. CASE (k \in Cached \/ ~ OverLimit(r)) /\ RemoveElements({}, c, r, Touched(k))
  <2>1. ~ OverLimit(r)
    <3>1. CASE k \in Cached
      <4>1. Listed(r) = Cached
        BY <3>1, <1>2
      <4>2. Cardinality(Cached) \in Nat
        BY <1>8, FS_CardinalityType
      <4>3. MaxEntries # 0 => Cardinality(Cached) <= MaxEntries
        BY DEF Inv, WithinLimit
      <4> QED
        BY <4>1, <4>2, <4>3, LruAssumption DEF OverLimit
    <3> QED
      BY <3>1, <1>10
  <2>2. Contract!Add(k, v, {})
    BY <2>1, <1>1, <1>6, <1>7, <1>9, <1>10, Zenon DEF Contract!Add
  <2> QED
    BY <2>2
<1>11. CASE /\ k \notin Cached /\ OverLimit(r)
            /\ \E d \in Keys : IsBack(r, d) /\ RemoveElements({d}, c, r, Touched(k))
  <2>1. PICK d \in Keys : IsBack(r, d) /\ RemoveElements({d}, c, r, Touched(k))
    BY <1>11, Zenon
  <2>2. d \in Cached \cup {k} /\ \A j \in Cached \cup {k} : <<d, j>> \in r
    BY <2>1, <1>2 DEF IsBack
  <2>3. d # k
    <3> SUFFICES ASSUME d = k PROVE FALSE
      OBVIOUS
    <3>1. Cached = {}
      BY <2>2, <1>2, <1>11, Zenon
    <3>2. Listed(r) = {k}
      BY <3>1, <1>2
    <3>3. Cardinality({k}) = 1
      BY FS_Singleton, Zenon
    <3> QED
      BY <3>2, <3>3, <1>11, LruAssumption DEF OverLimit
  <2>4. d \in Cached /\ \A j \in Cached \ {k} : <<d, j>> \in ll
    BY <2>2, <2>3, <1>2
  <2>5. \A j \in Cached \ {k} : LastUsed[d] <= LastUsed[j]
    <3>1. \A j \in Cached \ {k} : expiry[d] <= expiry[j]
      BY <2>4, Zenon DEF Inv, OldestAtBack, MapMatchesList
    <3> QED
      BY <3>1, <2>4, <1>3, Mapped
  <2>6. d \in Contract!LeastRecentlyUsed(Cached \ {k})
    BY <2>3, <2>4, <2>5 DEF Contract!LeastRecentlyUsed
  <2>7. Contract!Add(k, v, {d})
    BY <2>1, <2>6, <1>1, <1>6, <1>7, <1>9, <1>11, Zenon DEF Contract!Add
  <2> QED
    BY <2>7
<1> QED
  BY <1>10, <1>11, Zenon DEF Add

\* Removing records without touching the others is forgetting them.
LEMMA ForgetMapped ==
  ASSUME Inv, Inv', NEW K \in SUBSET Keys, RemoveElements(K, cache, ll, expiry),
         UNCHANGED now
  PROVE  Contract!Forget(K)
<1>1. LastUsed \in [Keys -> Nat]
  BY Mapped
<1>2. cache \in [Keys -> Values \cup {NoValue}] /\ expiry \in [Keys -> Nat]
  BY DEF Inv, TypeOK
<1>3. \A a \in Keys : LastUsed[a] = IF cache[a] # NoValue THEN expiry[a] - Expiry ELSE 0
  BY DEF LastUsed, Cached
<1>4. cache' = Contract!Without(cache, K, NoValue) /\ LastUsed' = Contract!Without(LastUsed, K, 0)
  BY <1>1, <1>2, <1>3, RemovedMapped, Zenon
<1> QED
  BY <1>4 DEF Contract!Forget

LEMMA NextMapped ==
  ASSUME Inv, Inv', [Next]_vars
  PROVE  [Contract!Next]_<<cache, LastUsed, call, now>>
<1>0. /\ cache \in [Keys -> Values \cup {NoValue}] /\ expiry \in [Keys -> Nat]
      /\ now \in Nat /\ Expiry \in Nat
  BY LruAssumption DEF Inv, TypeOK
<1>1. ASSUME NEW k \in Keys, NEW v \in Values, Add(k, v) PROVE Contract!Next
  BY <1>1, AddMapped DEF Contract!Next
<1>2. ASSUME NEW k \in Keys, Get(k) PROVE Contract!Next
  <2>1. k \in Contract!Present
    BY <1>2, Mapped DEF Get
  <2>2. UNCHANGED <<cache, now>> /\ call' = "get" /\ expiry' = Touched(k) /\ k \in Cached
    BY <1>2 DEF Get
  <2>3. Cached' = Cached
    BY <2>2 DEF Cached
  <2>4. \A a \in Keys : (IF a \in Cached THEN expiry'[a] - Expiry ELSE 0)
                          = (IF a = k THEN now ELSE LastUsed[a])
    BY <2>2, <1>0 DEF Touched, LastUsed
  <2>5. LastUsed' = [LastUsed EXCEPT ![k] = now]
    BY <2>3, <2>4, Zenon DEF LastUsed
  <2>6. Contract!Use(k)
    BY <2>1, <2>2, <2>5 DEF Contract!Use
  <2> QED
    BY <2>6 DEF Contract!Next
<1>3. ASSUME NEW k \in Keys, Remove(k) PROVE Contract!Next
  <2>1. Contract!Forget({k}) /\ call' = "remove"
    BY <1>3, ForgetMapped DEF Remove
  <2> QED
    BY <2>1 DEF Contract!Remove, Contract!Next
<1>4. ASSUME Clear PROVE Contract!Next
  <2>1. Contract!Forget(Keys) /\ call' = "clear"
    BY <1>4, ForgetMapped DEF Clear
  <2> QED
    BY <2>1 DEF Contract!Clear, Contract!Next
<1>5. ASSUME Expiry # 0, NEW d \in Keys, IsBack(ll, d), Expired(d), call' = "none",
             UNCHANGED now, RemoveElements({d}, cache, ll, expiry)
      PROVE  Contract!Next
  <2>1. Contract!Forget({d})
    BY <1>5, ForgetMapped
  <2>2. d \in Cached
    BY <1>5 DEF IsBack, Inv, MapMatchesList
  <2>3. LastUsed[d] + Expiry < now
    BY <2>2, <1>0, <1>5, Mapped DEF Expired
  <2>4. d \in Contract!Present
    BY <2>2, Mapped
  <2>5. Contract!Expire(d)
    BY <2>1, <2>3, <2>4, <1>5 DEF Contract!Expire
  <2> QED
    BY <2>5 DEF Contract!Next
<1>6. ASSUME Tick PROVE Contract!Next
  <2>1. now' = now + 1 /\ UNCHANGED <<cache, expiry, call>>
    BY <1>6 DEF Tick
  <2>2. now' \in Nat /\ now' > now
    BY <2>1, <1>0
  <2>3. LastUsed' = LastUsed
    BY <2>1 DEF LastUsed, Cached
  <2>4. Contract!Tick
    BY <2>1, <2>2, <2>3 DEF Contract!Tick
  <2> QED
    BY <2>4 DEF Contract!Next
<1>7. ASSUME UNCHANGED <<cache, expiry, call, now>>
      PROVE  UNCHANGED <<cache, LastUsed, call, now>>
  BY <1>7 DEF LastUsed, Cached
<1>8. OldestExpired => UNCHANGED <<cache, expiry, call, now>>
  BY DEF OldestExpired
<1>9. RemoveOldestExpired => Contract!Next \/ UNCHANGED <<cache, expiry, call, now>>
  BY <1>5, Zenon DEF RemoveOldestExpired
<1> QED
  BY <1>1, <1>2, <1>3, <1>4, <1>6, <1>7, <1>8, <1>9 DEF Next, vars

\* For every number of keys, limit and expiry the cache implements its
\* contract: get, add, remove, clear and the expiry loop lose no record other
\* than the contract allows.
THEOREM CacheKeepsContract == Spec => KeepsContract
<1>1. Init => Contract!Init
  <2> SUFFICES ASSUME Init PROVE Contract!Init
    OBVIOUS
  <2>1. LastUsed = [k \in Keys |-> 0]
    BY DEF Init, LastUsed, Cached
  <2> QED
    BY <2>1 DEF Init, Contract!Init
<1>2. Inv /\ Inv' /\ [Next]_vars => [Contract!Next]_<<cache, LastUsed, call, now>>
  BY NextMapped
<1> QED
  BY <1>1, <1>2, InitInv, NextInv, PTL DEF Spec, KeepsContract, Contract!Spec
=============================================================================

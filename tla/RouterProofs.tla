---------------------------- MODULE RouterProofs ----------------------------
(***************************************************************************)
(* The route cache is coherent, and GetRoute answers with a route that was *)
(* current during the call, for every number of callers, names, routes and *)
(* changes, whatever Resolve computes from the table.  Then what Resolve   *)
(* computes: the types AddRoute sorts patterns into match what the         *)
(* patterns stand for, and the routes of a configuration are found in the  *)
(* order of precedence, for every set of patterns and names.               *)
(***************************************************************************)
EXTENDS Router, SequenceTheorems, WellFoundedInduction, TLAPS

\* call and cache are indexed as GetRoute indexes them
Shape ==
  /\ DOMAIN call = Callers
  /\ \A g \in Callers : /\ DOMAIN call[g] = {"pc", "name", "route", "seen"}
                        /\ call[g].name \in Normalized
  /\ DOMAIN cache = Normalized

\* While a change has the lock nothing is cached and no caller has it for
\* reading: the change cleared the cache, and only readers add to it
WriterAlone ==
  writer # NoWriter => /\ \A n \in Normalized : cache[n] = NoRoute
                       /\ \A g \in Callers : ~ Reading(g)

\* Before the process serves requests nobody has looked anything up
NotYet ==
  phase # "serving" => /\ writer = NoWriter
                       /\ \A n \in Normalized : cache[n] = NoRoute
                       /\ \A g \in Callers : call[g].pc = "idle"

\* A reader is about to cache what the table says
ReaderCurrent ==
  \A g \in Callers : Reading(g) => call[g].route = Resolve(table, call[g].name)

\* The history knows the present
SeenNow ==
  \A g \in Callers : call[g].pc # "idle" => Resolve(table, call[g].name) \in call[g].seen

RouterInv ==
  Shape /\ WriterAlone /\ NotYet /\ ReaderCurrent /\ SeenNow /\ CacheCoherent /\ AnswerWasCurrent

\* The router starts with an empty cache and without callers.
LEMMA InitRouter == ASSUME Init PROVE RouterInv
BY RouterAssumption, Zenon DEF Normalized, Init, RouterInv, Shape, WriterAlone, NotYet,
   ReaderCurrent, SeenNow, CacheCoherent,
       AnswerWasCurrent, Reading

\* Validation and the loop over the databases run before any request.
LEMMA StartUpStep ==
  ASSUME RouterInv, Validate \/ Serve \/ Refused \/ \E p \in Patterns : Start(p)
  PROVE  RouterInv'
<1>1. CASE Validate \/ Serve \/ Refused
  BY <1>1, Zenon DEF Validate, Serve, Refused, vars, RouterInv, Shape, WriterAlone, NotYet,
     ReaderCurrent,
     SeenNow, CacheCoherent, AnswerWasCurrent, Reading
<1>2. CASE \E p \in Patterns : Start(p)
  BY <1>2 DEF Start, RouterInv, Shape, WriterAlone, NotYet, ReaderCurrent, SeenNow, CacheCoherent,
     AnswerWasCurrent, Reading
<1>. QED  BY <1>1, <1>2

\* The steps of one caller, of which CacheRoute adds to the cache.
LEMMA CallerStep ==
  ASSUME RouterInv, NEW g \in Callers,
         Call(g) \/ LookInCache(g) \/ LookInTable(g) \/ CacheRoute(g) \/ Return(g)
  PROVE  RouterInv'
<1>1. CASE Call(g)
  BY <1>1 DEF Call, Move, RouterInv, Shape, WriterAlone, NotYet, ReaderCurrent, SeenNow,
     CacheCoherent, AnswerWasCurrent, Reading
<1>2. CASE LookInCache(g)
  BY <1>2 DEF LookInCache, Move, RouterInv, Shape, WriterAlone, NotYet, ReaderCurrent, SeenNow,
     CacheCoherent, AnswerWasCurrent, Reading
<1>3. CASE LookInTable(g)
  BY <1>3 DEF LookInTable, Move, RouterInv, Shape, WriterAlone, NotYet, ReaderCurrent, SeenNow,
     CacheCoherent, AnswerWasCurrent, Reading
<1>4. CASE CacheRoute(g)
  BY <1>4 DEF CacheRoute, Move, RouterInv, Shape, WriterAlone, NotYet, ReaderCurrent, SeenNow,
     CacheCoherent, AnswerWasCurrent, Reading
<1>5. CASE Return(g)
  BY <1>5 DEF Return, Move, RouterInv, Shape, WriterAlone, NotYet, ReaderCurrent, SeenNow,
     CacheCoherent, AnswerWasCurrent, Reading
<1>. QED  BY <1>1, <1>2, <1>3, <1>4, <1>5

\* A record that leaves the cache leaves it coherent.
LEMMA DropStep ==
  ASSUME RouterInv, NEW n \in Normalized, CacheDrops(n)
  PROVE  RouterInv'
BY DEF CacheDrops, RouterInv, Shape, WriterAlone, NotYet, ReaderCurrent, SeenNow, CacheCoherent,
   AnswerWasCurrent, Reading

\* A change clears the cache before it changes the table.
LEMMA ChangeStep ==
  ASSUME RouterInv, Change \/ \E w \in Writing : Lock(w)
  PROVE  RouterInv'
<1>1. CASE \E w \in Writing : Lock(w)
  BY <1>1 DEF Lock, RouterInv, Shape, WriterAlone, NotYet, ReaderCurrent, SeenNow, CacheCoherent,
     AnswerWasCurrent, Reading
<1>2. CASE Change
  BY <1>2 DEF Change, RouterInv, Shape, WriterAlone, NotYet, ReaderCurrent, SeenNow, CacheCoherent,
     AnswerWasCurrent, Reading
<1>. QED  BY <1>1, <1>2

\* The inductive invariant of the router: no step breaks the agreement of
\* table, cache and callers.
THEOREM RouterInvariance == Spec => []RouterInv
<1>1. Init => RouterInv
  BY InitRouter
<1>2. RouterInv /\ [Next]_vars => RouterInv'
  <2>. SUFFICES ASSUME RouterInv, [Next]_vars PROVE RouterInv'
    OBVIOUS
  <2>1. CASE UNCHANGED vars
    BY <2>1 DEF vars, RouterInv, Shape, WriterAlone, NotYet, ReaderCurrent, SeenNow, CacheCoherent,
       AnswerWasCurrent, Reading
  <2>. QED  BY <2>1, StartUpStep, CallerStep, DropStep, ChangeStep DEF Next
<1>. QED  BY <1>1, <1>2, PTL DEF Spec

\* The route cache always agrees with the routes, although GetRoute reads it
\* without the router's lock.
THEOREM CacheAlwaysCoherent == Spec => []CacheCoherent
BY RouterInvariance, PTL DEF RouterInv

\* GetRoute always answers with a route that was current during the call.
THEOREM AnswersAlwaysCurrent == Spec => []AnswerWasCurrent
BY RouterInvariance, PTL DEF RouterInv

-----------------------------------------------------------------------------
(* What patterns stand for *)

\* A set of numbers that has an element has a least one
LEMMA LeastNat ==
  ASSUME NEW T \in SUBSET Nat, T # {}
  PROVE  \E x \in T : \A y \in T : x <= y
<1>1. PICK x \in T : \A y \in T : ~ (<<y, x>> \in OpToRel(<, Nat))
  BY NatLessThanWellFounded, WFMin, Zenon
<1>2. \A y \in T : ~ (y < x)
  BY <1>1, Zenon DEF OpToRel
<1>. QED  BY <1>2

\* The elements of names.  That a literal is a string is not known to the provers.
Words == STRING \cup {"app", "db", "_", "my", "test", "prod", "staging", "dev"}

\* Lower case changes neither the length of a pattern nor its stars
LEMMA NormalizeKeeps ==
  ASSUME NEW p \in Seq(Words)
  PROVE  /\ NormalizeDatabaseName(p) \in Seq(Words)
         /\ Len(NormalizeDatabaseName(p)) = Len(p)
         /\ Stars(NormalizeDatabaseName(p)) = Stars(p)
         /\ NormalizeDatabaseName(p) = <<Star>> <=> p = <<Star>>
<1>. DEFINE n == NormalizeDatabaseName(p)
<1>1. \A w \in DOMAIN Capitals : w # Star /\ Capitals[w] # Star /\ Capitals[w] \in Words
  <2>1. DOMAIN Capitals = {"APP", "DB"}
    BY DEF Capitals
  <2>2. Capitals["APP"] = "app" /\ Capitals["DB"] = "db"
    BY DEF Capitals
  <2>3. "APP" # Star /\ "DB" # Star /\ "app" # Star /\ "db" # Star
    BY DEF Star
  <2>4. "app" \in Words /\ "db" \in Words
    BY Zenon DEF Words
  <2>. QED  BY <2>1, <2>2, <2>3, <2>4, Zenon
<1>2. DOMAIN n = DOMAIN p /\ \A i \in DOMAIN p : n[i] \in Words /\ (n[i] = Star <=> p[i] = Star)
  BY <1>1 DEF NormalizeDatabaseName
<1>3. n \in Seq(Words) /\ Len(n) = Len(p)
  BY <1>2 DEF NormalizeDatabaseName
<1>. HIDE DEF n
<1>4. Stars(n) = Stars(p)
  BY <1>2 DEF Stars
<1>5. n = <<Star>> <=> p = <<Star>>
  BY <1>2, <1>3 DEF Star
<1>. QED  BY <1>3, <1>4, <1>5 DEF n

\* How much of the name the first i elements of a pattern stand for, when the
\* stars stand for what ends at end
UpTo(p, end, i) ==
  LET stars == {s \in Stars(p) : s <= i}
      last == CHOOSE s \in stars : \A k \in stars : k <= s
  IN IF stars = {} THEN i ELSE end[last] + (i - last)

\* What Glob asks of the i-th element
FitsAt(p, n, end, i) ==
  IF p[i] = Star THEN UpTo(p, end, i - 1) <= UpTo(p, end, i)
  ELSE UpTo(p, end, i) \in DOMAIN n /\ n[UpTo(p, end, i)] = p[i]

LEMMA GlobByUpTo ==
  ASSUME NEW p, NEW n
  PROVE  Glob(p, n) <=>
           \E end \in [Stars(p) -> 0 .. Len(n)] :
             UpTo(p, end, Len(p)) = Len(n) /\ \A i \in DOMAIN p : FitsAt(p, n, end, i)
BY Zenon DEF Glob, UpTo, FitsAt

LEMMA UpToLast ==
  ASSUME NEW p \in Seq(Words), NEW end, NEW i \in Nat, NEW l \in Stars(p), l <= i,
         \A s \in Stars(p) : s <= i => s <= l
  PROVE  UpTo(p, end, i) = end[l] + (i - l)
<1>. DEFINE S == {s \in Stars(p) : s <= i}
<1>1. Stars(p) \subseteq Nat
  BY DEF Stars
<1>2. l \in S /\ \A k \in S : k <= l
  OBVIOUS
<1>3. (CHOOSE s \in S : \A k \in S : k <= s) = l
  <2>1. \A s \in S : (\A k \in S : k <= s) => s = l
    BY <1>1, <1>2
  <2>. HIDE DEF S
  <2>. QED  BY <1>2, <2>1
<1>. QED  BY <1>2, <1>3, Zenon DEF UpTo

LEMMA UpToNone ==
  ASSUME NEW p, NEW end, NEW i, \A s \in Stars(p) : ~ (s <= i)
  PROVE  UpTo(p, end, i) = i
BY DEF UpTo

\* Part of a name
LEMMA PartOf ==
  ASSUME NEW S, NEW n \in Seq(S), NEW a \in Nat, NEW b \in Nat, a + b <= Len(n)
  PROVE  /\ SubSeq(n, a + 1, a + b) \in Seq(S) /\ Len(SubSeq(n, a + 1, a + b)) = b
         /\ \A i \in 1 .. b : SubSeq(n, a + 1, a + b)[i] = n[a + i]
<1>1. SubSeq(n, a + 1, a + b) \in Seq(S)
  OBVIOUS
<1>2. Len(SubSeq(n, a + 1, a + b)) = b
  OBVIOUS
<1>3. ASSUME NEW i \in 1 .. b PROVE SubSeq(n, a + 1, a + b)[i] = n[a + i]
  OBVIOUS
<1>. QED  BY <1>1, <1>2, <1>3, Zenon

\* A prefix is what a pattern with a star at its end stands for
LEMMA PrefixMatches ==
  ASSUME NEW p \in Seq(Words), NEW n \in Seq(Words), p # <<>>,
         p[Len(p)] = Star, \A i \in Stars(p) : i = Len(p)
  PROVE  HasPrefix(n, SubSeq(p, 1, Len(p) - 1)) <=> Glob(p, n)
<1>. DEFINE L == Len(p)
<1>0. L \in Nat \ {0} /\ Len(n) \in Nat /\ DOMAIN p = 1 .. L /\ DOMAIN n = 1 .. Len(n)
  OBVIOUS
<1>1. Stars(p) = {L}
  BY <1>0 DEF Stars
<1>2. \A end : UpTo(p, end, L) = end[L] + (L - L)
  BY <1>0, <1>1, UpToLast
<1>3. \A end : \A i \in 0 .. L - 1 : UpTo(p, end, i) = i
  BY <1>0, <1>1, UpToNone
<1>4. HasPrefix(n, SubSeq(p, 1, Len(p) - 1))
      <=> L - 1 <= Len(n) /\ \A i \in 1 .. L - 1 : n[i] = p[i]
  BY <1>0 DEF HasPrefix
<1>5. ASSUME NEW end \in [Stars(p) -> 0 .. Len(n)]
      PROVE  UpTo(p, end, L) = Len(n) /\ (\A i \in DOMAIN p : FitsAt(p, n, end, i))
             <=> end[L] = Len(n) /\ L - 1 <= Len(n) /\ \A i \in 1 .. L - 1 : n[i] = p[i]
  <2>1. end[L] \in Nat /\ UpTo(p, end, L) = end[L] /\ UpTo(p, end, L - 1) = L - 1
    BY <1>0, <1>1, <1>2, <1>3, <1>5
  <2>2. FitsAt(p, n, end, L) <=> L - 1 <= end[L]
    BY <2>1 DEF FitsAt
  <2>3. \A i \in 1 .. L - 1 : FitsAt(p, n, end, i) <=> i <= Len(n) /\ n[i] = p[i]
    <3>. SUFFICES ASSUME NEW i \in 1 .. L - 1
                  PROVE  FitsAt(p, n, end, i) <=> i <= Len(n) /\ n[i] = p[i]
      OBVIOUS
    <3>1. UpTo(p, end, i) = i /\ p[i] # Star
      <4>0. L \in Nat /\ DOMAIN p = 1 .. L
        BY <1>0
      <4>. HIDE DEF L
      <4>1. i \in 1 .. L /\ i \in 0 .. L - 1 /\ i # L
        BY <4>0
      <4>2. p[i] # Star
        BY <1>1, <4>0, <4>1, Zenon DEF Stars
      <4>. QED  BY <1>3, <4>1, <4>2, Zenon
    <3>. QED  BY <1>0, <3>1 DEF FitsAt
  <2>4. (\A i \in DOMAIN p : FitsAt(p, n, end, i))
        <=> FitsAt(p, n, end, L) /\ \A i \in 1 .. L - 1 : FitsAt(p, n, end, i)
    BY <1>0
  <2>. QED  BY <1>0, <2>1, <2>2, <2>3, <2>4
<1>6. \E end \in [Stars(p) -> 0 .. Len(n)] : end[L] = Len(n)
  <2>1. [s \in Stars(p) |-> Len(n)] \in [Stars(p) -> 0 .. Len(n)]
    BY <1>0
  <2>. QED  BY <1>1, <2>1, Zenon
<1>. QED  BY <1>4, <1>5, <1>6, GlobByUpTo, Zenon

\* A suffix is what a pattern with a star at its beginning stands for
LEMMA SuffixMatches ==
  ASSUME NEW p \in Seq(Words), NEW n \in Seq(Words), p # <<>>,
         p[1] = Star, \A i \in Stars(p) : i = 1
  PROVE  HasSuffix(n, Tail(p)) <=> Glob(p, n)
<1>. DEFINE L == Len(p)
            a == Len(n) - (L - 1)
<1>0. /\ L \in Nat \ {0} /\ Len(n) \in Nat /\ DOMAIN p = 1 .. L /\ DOMAIN n = 1 .. Len(n)
      /\ L = Len(p) /\ a = Len(n) - (L - 1)
  OBVIOUS
<1>. HIDE DEF L, a
<1>1. Stars(p) = {1}
  BY <1>0 DEF Stars
<1>2. \A end : \A i \in 1 .. L : UpTo(p, end, i) = end[1] + (i - 1)
  BY <1>0, <1>1, UpToLast
<1>3. \A end : UpTo(p, end, 0) = 0
  BY <1>0, <1>1, UpToNone
<1>4. HasSuffix(n, Tail(p)) <=> 0 <= a /\ \A i \in 2 .. L : n[a + (i - 1)] = p[i]
  <2>. DEFINE t == Tail(p)
  <2>1. t \in Seq(Words) /\ Len(t) = L - 1 /\ \A i \in 1 .. L - 1 : t[i] = p[i + 1]
    BY <1>0
  <2>. HIDE DEF t
  <2>2. ASSUME 0 <= a, NEW m, m = SubSeq(n, Len(n) - Len(t) + 1, Len(n))
        PROVE  m \in Seq(Words) /\ Len(m) = L - 1 /\ \A i \in 1 .. L - 1 : m[i] = n[a + i]
    <3>1. /\ a \in Nat /\ L - 1 \in Nat /\ a + (L - 1) = Len(n) /\ a + (L - 1) <= Len(n)
          /\ Len(n) - Len(t) + 1 = a + 1
      BY <1>0, <2>1, <2>2
    <3>2. m = SubSeq(n, a + 1, a + (L - 1))
      BY <2>2, <3>1, Zenon
    <3>. DEFINE x == SubSeq(n, a + 1, a + (L - 1))
    <3>3. x \in Seq(Words) /\ Len(x) = L - 1 /\ \A i \in 1 .. L - 1 : x[i] = n[a + i]
      <4>1. ASSUME NEW b \in Nat, a + b <= Len(n)
            PROVE  /\ SubSeq(n, a + 1, a + b) \in Seq(Words) /\ Len(SubSeq(n, a + 1, a + b)) = b
                   /\ \A i \in 1 .. b : SubSeq(n, a + 1, a + b)[i] = n[a + i]
        BY <3>1, <4>1, PartOf
      <4>. QED  BY <3>1, <4>1, Zenon
    <3>. HIDE DEF x
    <3>4. m = x
      BY <3>2, Zenon DEF x
    <3>. QED  BY <3>3, <3>4, Zenon
  <2>3. HasSuffix(n, t) <=> 0 <= a /\ \A i \in 1 .. L - 1 : n[a + i] = t[i]
    <3>1. Len(t) <= Len(n) <=> 0 <= a
      BY <1>0, <2>1
    <3>2. ASSUME NEW m \in Seq(Words), Len(m) = L - 1
          PROVE  m = t <=> \A i \in 1 .. L - 1 : m[i] = t[i]
      BY <1>0, <2>1, <3>2, SeqEqual, Zenon
    <3>3. 0 <= a => (SubSeq(n, Len(n) - Len(t) + 1, Len(n)) = t
                     <=> \A i \in 1 .. L - 1 : n[a + i] = t[i])
      BY <2>2, <3>2, Zenon
    <3>. QED  BY <3>1, <3>3, Zenon DEF HasSuffix
  <2>4. (\A i \in 1 .. L - 1 : n[a + i] = t[i]) <=> \A i \in 2 .. L : n[a + (i - 1)] = p[i]
    <3>1. /\ \A i \in 2 .. L : i - 1 \in 1 .. L - 1 /\ (i - 1) + 1 = i
          /\ \A i \in 1 .. L - 1 : i + 1 \in 2 .. L /\ (i + 1) - 1 = i
      BY <1>0
    <3>2. ASSUME \A i \in 1 .. L - 1 : n[a + i] = t[i], NEW i \in 2 .. L
          PROVE  n[a + (i - 1)] = p[i]
      <4>1. n[a + (i - 1)] = t[i - 1] /\ t[i - 1] = p[(i - 1) + 1] /\ (i - 1) + 1 = i
        BY <2>1, <3>1, <3>2, Zenon
      <4>. QED  BY <4>1, Zenon
    <3>3. ASSUME \A i \in 2 .. L : n[a + (i - 1)] = p[i], NEW i \in 1 .. L - 1
          PROVE  n[a + i] = t[i]
      <4>1. n[a + ((i + 1) - 1)] = p[i + 1] /\ t[i] = p[i + 1] /\ (i + 1) - 1 = i
        BY <2>1, <3>1, <3>3, Zenon
      <4>. QED  BY <4>1, Zenon
    <3>. QED  BY <3>2, <3>3, Zenon
  <2>. QED  BY <2>3, <2>4, Zenon DEF t
<1>5. ASSUME NEW end \in [Stars(p) -> 0 .. Len(n)]
      PROVE  UpTo(p, end, L) = Len(n) /\ (\A i \in DOMAIN p : FitsAt(p, n, end, i))
             <=> end[1] = a /\ 0 <= a /\ \A i \in 2 .. L : n[a + (i - 1)] = p[i]
  <2>1. end[1] \in Nat /\ UpTo(p, end, L) = end[1] + (L - 1)
    BY <1>0, <1>1, <1>2, <1>5
  <2>2. FitsAt(p, n, end, 1)
    <3>1. UpTo(p, end, 1) = end[1] + 0 /\ UpTo(p, end, 1 - 1) = 0
      BY <1>0, <1>2, <1>3
    <3>. QED  BY <2>1, <3>1 DEF FitsAt
  <2>3. ASSUME end[1] = a, NEW i \in 2 .. L
        PROVE  FitsAt(p, n, end, i) <=> n[a + (i - 1)] = p[i]
    <3>1. i \in DOMAIN p /\ i \in 1 .. L /\ i # 1 /\ a + (i - 1) \in DOMAIN n
      BY <1>0, <2>1, <2>3
    <3>2. p[i] # Star
      BY <1>1, <3>1, Zenon DEF Stars
    <3>3. UpTo(p, end, i) = a + (i - 1)
      BY <1>2, <2>3, <3>1, Zenon
    <3>. QED  BY <3>1, <3>2, <3>3, Zenon DEF FitsAt
  <2>4. (\A i \in DOMAIN p : FitsAt(p, n, end, i)) <=> \A i \in 2 .. L : FitsAt(p, n, end, i)
    BY <1>0, <2>2
  <2>5. UpTo(p, end, L) = Len(n) <=> end[1] = a
    BY <1>0, <2>1
  <2>6. end[1] = a => 0 <= a
    BY <2>1
  <2>. QED  BY <2>3, <2>4, <2>5, <2>6, Zenon
<1>6. 0 <= a => \E end \in [Stars(p) -> 0 .. Len(n)] : end[1] = a
  <2>1. 0 <= a => [s \in Stars(p) |-> a] \in [Stars(p) -> 0 .. Len(n)]
    BY <1>0
  <2>. QED  BY <1>1, <2>1, Zenon
<1>. QED  BY <1>0, <1>4, <1>5, <1>6, GlobByUpTo, Zenon

\* What is between the stars is contained where the pattern fits
LEMMA ContainsMatches ==
  ASSUME NEW p \in Seq(Words), NEW n \in Seq(Words), Len(p) > 1,
         p[1] = Star, p[Len(p)] = Star, \A i \in Stars(p) : i = 1 \/ i = Len(p)
  PROVE  (\E a \in 0 .. Len(n) - Len(TrimStars(p)) :
            SubSeq(n, a + 1, a + Len(TrimStars(p))) = TrimStars(p)) <=> Glob(p, n)
<1>. DEFINE L == Len(p)
            t == TrimStars(p)
            In(a) == \A i \in 2 .. L - 1 : n[a + (i - 1)] = p[i]
<1>0. /\ L \in Nat /\ 1 < L /\ Len(n) \in Nat
      /\ DOMAIN p = 1 .. L /\ DOMAIN n = 1 .. Len(n) /\ L = Len(p)
  OBVIOUS
<1>. HIDE DEF L
<1>1. Stars(p) = {1, L}
  BY <1>0 DEF Stars
<1>2. \A end : \A i \in 1 .. L - 1 : UpTo(p, end, i) = end[1] + (i - 1)
  BY <1>0, <1>1, UpToLast
<1>3. \A end : UpTo(p, end, 0) = 0
  BY <1>0, <1>1, UpToNone
<1>4. \A end : UpTo(p, end, L) = end[L] + (L - L)
  BY <1>0, <1>1, UpToLast
<1>5. t \in Seq(Words) /\ Len(t) = L - 2 /\ \A i \in 1 .. L - 2 : t[i] = p[i + 1]
  <2>. DEFINE kept == DOMAIN p \ Stars(p)
  <2>1. kept = 2 .. L - 1
    BY <1>0, <1>1
  <2>2. CASE L = 2
    <3>1. kept = {}
      BY <2>1, <2>2
    <3>2. t = <<>>
      BY <3>1, Zenon DEF TrimStars
    <3>. QED  BY <2>2, <3>2
  <2>3. CASE L # 2
    <3>1. 2 \in kept /\ L - 1 \in kept /\ \A k \in kept : k \in Nat /\ 2 <= k /\ k <= L - 1
      BY <1>0, <2>1, <2>3
    <3>. HIDE DEF kept
    <3>2. (CHOOSE i \in kept : \A k \in kept : i <= k) = 2
      <4>1. \A i \in kept : (\A k \in kept : i <= k) => i = 2
        BY <3>1
      <4>2. \A k \in kept : 2 <= k
        BY <3>1, Zenon
      <4>. QED  BY <3>1, <4>1, <4>2, Zenon
    <3>3. (CHOOSE i \in kept : \A k \in kept : k <= i) = L - 1
      <4>1. \A i \in kept : (\A k \in kept : k <= i) => i = L - 1
        BY <1>0, <3>1
      <4>2. \A k \in kept : k <= L - 1
        BY <3>1, Zenon
      <4>. QED  BY <3>1, <4>1, <4>2, Zenon
    <3>4. t = SubSeq(p, 2, L - 1)
      BY <3>1, <3>2, <3>3, Zenon DEF TrimStars, kept
    <3>. QED  BY <1>0, <2>3, <3>4
  <2>. QED  BY <2>2, <2>3, Zenon
<1>6. ASSUME NEW a \in 0 .. Len(n) - Len(t)
      PROVE  SubSeq(n, a + 1, a + Len(t)) = t <=> In(a)
  <2>. DEFINE m == SubSeq(n, a + 1, a + Len(t))
  <2>. HIDE DEF t, In
  <2>1. /\ m \in Seq(Words) /\ Len(m) = L - 2
        /\ \A i \in 1 .. L - 2 : m[i] = n[a + i]
    <3>1. a \in Nat /\ L - 2 \in Nat /\ a + (L - 2) <= Len(n) /\ Len(t) = L - 2
      BY <1>0, <1>5, <1>6
    <3>. DEFINE x == SubSeq(n, a + 1, a + (L - 2))
    <3>2. x \in Seq(Words) /\ Len(x) = L - 2 /\ \A i \in 1 .. L - 2 : x[i] = n[a + i]
      <4>1. ASSUME NEW b \in Nat, a + b <= Len(n)
            PROVE  /\ SubSeq(n, a + 1, a + b) \in Seq(Words) /\ Len(SubSeq(n, a + 1, a + b)) = b
                   /\ \A i \in 1 .. b : SubSeq(n, a + 1, a + b)[i] = n[a + i]
        BY <3>1, <4>1, PartOf
      <4>. QED  BY <3>1, <4>1, Zenon
    <3>3. m = x
      BY <3>1, Zenon
    <3>. HIDE DEF x, m
    <3>. QED  BY <3>2, <3>3, Zenon
  <2>. HIDE DEF m
  <2>2. m = t <=> \A i \in 1 .. L - 2 : n[a + i] = p[i + 1]
    <3>1. DOMAIN m = 1 .. L - 2 /\ DOMAIN t = 1 .. L - 2
      BY <1>5, <2>1
    <3>2. m = [i \in DOMAIN m |-> m[i]] /\ t = [i \in DOMAIN t |-> t[i]]
      BY <1>5, <2>1
    <3>3. m = t <=> \A i \in 1 .. L - 2 : m[i] = t[i]
      BY <3>1, <3>2, Zenon
    <3>. QED  BY <1>5, <2>1, <3>3, Zenon
  <2>3. (\A i \in 1 .. L - 2 : n[a + i] = p[i + 1]) <=> In(a)
    <3>1. \A i \in 1 .. L - 2 : i + 1 \in 2 .. L - 1 /\ (i + 1) - 1 = i
      BY <1>0
    <3>2. \A i \in 2 .. L - 1 : i - 1 \in 1 .. L - 2 /\ (i - 1) + 1 = i
      BY <1>0
    <3>3. ASSUME In(a), NEW i \in 1 .. L - 2 PROVE n[a + i] = p[i + 1]
      BY <3>1, <3>3, Zenon DEF In
    <3>4. ASSUME \A i \in 1 .. L - 2 : n[a + i] = p[i + 1], NEW i \in 2 .. L - 1
          PROVE  n[a + (i - 1)] = p[i]
      BY <3>2, <3>4, Zenon
    <3>. QED  BY <3>3, <3>4, Zenon DEF In
  <2>. QED  BY <2>2, <2>3, Zenon DEF m
<1>7. ASSUME NEW end \in [Stars(p) -> 0 .. Len(n)]
      PROVE  UpTo(p, end, L) = Len(n) /\ (\A i \in DOMAIN p : FitsAt(p, n, end, i))
             <=> end[L] = Len(n) /\ end[1] + (L - 2) <= Len(n) /\ In(end[1])
  <2>1. end[1] \in Nat /\ end[L] \in Nat
    BY <1>0, <1>1, <1>7
  <2>a. UpTo(p, end, L) = end[L]
    BY <1>0, <1>4, <2>1
  <2>b. UpTo(p, end, L - 1) = end[1] + (L - 2)
    <3>1. L - 1 \in 1 .. L - 1 /\ (L - 1) - 1 = L - 2
      BY <1>0
    <3>. QED  BY <1>2, <3>1, Zenon
  <2>2. FitsAt(p, n, end, 1)
    <3>1. UpTo(p, end, 1) = end[1] + 0 /\ UpTo(p, end, 1 - 1) = 0
      BY <1>0, <1>2, <1>3
    <3>. QED  BY <2>1, <3>1 DEF FitsAt
  <2>3. FitsAt(p, n, end, L) <=> end[1] + (L - 2) <= end[L]
    BY <1>0, <2>a, <2>b, Zenon DEF FitsAt
  <2>4. ASSUME end[1] + (L - 2) <= Len(n), NEW i \in 2 .. L - 1
        PROVE  FitsAt(p, n, end, i) <=> n[end[1] + (i - 1)] = p[i]
    <3>1. i \in 1 .. L /\ i \in 1 .. L - 1 /\ i # 1 /\ i # L /\ end[1] + (i - 1) \in DOMAIN n
      <4>1. L \in Nat /\ Len(n) \in Nat /\ DOMAIN n = 1 .. Len(n) /\ i \in Int /\ 2 <= i /\ i <= L - 1
        BY <1>0
      <4>. QED  BY <2>1, <2>4, <4>1
    <3>2. p[i] # Star
      BY <1>0, <1>1, <3>1, Zenon DEF Stars
    <3>3. UpTo(p, end, i) = end[1] + (i - 1)
      BY <1>2, <3>1, Zenon
    <3>. QED  BY <3>1, <3>2, <3>3, Zenon DEF FitsAt
  <2>5. (\A i \in DOMAIN p : FitsAt(p, n, end, i))
        <=> FitsAt(p, n, end, L) /\ \A i \in 2 .. L - 1 : FitsAt(p, n, end, i)
    <3>1. \A i \in DOMAIN p : i = 1 \/ i = L \/ i \in 2 .. L - 1
      BY <1>0
    <3>2. L \in DOMAIN p /\ \A i \in 2 .. L - 1 : i \in DOMAIN p
      BY <1>0
    <3>. QED  BY <2>2, <3>1, <3>2, Zenon
  <2>. QED  BY <2>a, <2>3, <2>4, <2>5, Zenon
<1>8. \A a \in 0 .. Len(n) - Len(t) :
        \E end \in [Stars(p) -> 0 .. Len(n)] : end[1] = a /\ end[L] = Len(n)
  <2>1. \A a \in 0 .. Len(n) - Len(t) :
          [s \in Stars(p) |-> IF s = 1 THEN a ELSE Len(n)] \in [Stars(p) -> 0 .. Len(n)]
    BY <1>0, <1>5
  <2>2. \A a : /\ [s \in Stars(p) |-> IF s = 1 THEN a ELSE Len(n)][1] = a
               /\ [s \in Stars(p) |-> IF s = 1 THEN a ELSE Len(n)][L] = Len(n)
    BY <1>0, <1>1
  <2>. QED  BY <2>1, <2>2, Zenon
<1>9. \A end \in [Stars(p) -> 0 .. Len(n)] :
        end[1] + (L - 2) <= Len(n) => end[1] \in 0 .. Len(n) - Len(t)
  BY <1>0, <1>1, <1>5
<1>10. \A a \in 0 .. Len(n) - Len(t) : a + (L - 2) <= Len(n)
  BY <1>0, <1>5
<1>. HIDE DEF In, t
<1>11. (\E a \in 0 .. Len(n) - Len(t) : In(a)) <=> Glob(p, n)
  BY <1>0, <1>7, <1>8, <1>9, <1>10, GlobByUpTo, Zenon
<1>. QED  BY <1>6, <1>11, Zenon DEF t

\* The matching by type takes a star as a letter unless it is at an end, where
\* it is cut off.  Nothing is lost when inner stars have no star at an end.
PlainPattern(p) ==
  (\E i \in Stars(p) : 1 < i /\ i < Len(p)) => p[1] # Star /\ p[Len(p)] # Star

\* What a pattern is classified as matches what the pattern stands for
LEMMA ClassifyMatches ==
  ASSUME NEW p \in Seq(Words), NEW n \in Seq(Words), Stars(p) # {}, p # <<Star>>, PlainPattern(p)
  PROVE  matchesPattern(n, Classify(p)) <=> Glob(p, n)
<1>. DEFINE L == Len(p)
<1>0. L \in Nat \ {0} /\ DOMAIN p = 1 .. L /\ p # <<>>
  BY DEF Stars
<1>1. Stars(p) \subseteq 1 .. L
  BY <1>0 DEF Stars
<1>2. CASE p[1] = Star /\ p[L] = Star
  <2>1. Len(p) > 1
    <3>1. L = 1 => p = <<Star>>
      BY <1>0, <1>2
    <3>. QED  BY <1>0, <3>1
  <2>2. \A i \in Stars(p) : i = 1 \/ i = Len(p)
    BY <1>0, <1>1, <1>2 DEF PlainPattern
  <2>3. Classify(p) = [type |-> "contains", pattern |-> TrimStars(p)]
    BY <1>2, Zenon DEF Classify
  <2>4. matchesPattern(n, Classify(p)) <=>
          \E a \in 0 .. Len(n) - Len(TrimStars(p)) :
            SubSeq(n, a + 1, a + Len(TrimStars(p))) = TrimStars(p)
    BY <2>3 DEF matchesPattern
  <2>. QED  BY <1>2, <2>1, <2>2, <2>4, ContainsMatches, Zenon
<1>3. CASE p[1] = Star /\ p[L] # Star
  <2>1. \A i \in Stars(p) : i = 1
    BY <1>0, <1>1, <1>3 DEF PlainPattern, Stars
  <2>2. Classify(p) = [type |-> "suffix", pattern |-> Tail(p)]
    BY <1>3, Zenon DEF Classify
  <2>3. matchesPattern(n, Classify(p)) <=> HasSuffix(n, Tail(p))
    BY <2>2 DEF matchesPattern
  <2>. QED  BY <1>0, <1>3, <2>1, <2>3, SuffixMatches, Zenon
<1>4. CASE p[1] # Star /\ p[L] = Star
  <2>1. \A i \in Stars(p) : i = Len(p)
    BY <1>0, <1>1, <1>4 DEF PlainPattern, Stars
  <2>2. Classify(p) = [type |-> "prefix", pattern |-> SubSeq(p, 1, Len(p) - 1)]
    BY <1>4, Zenon DEF Classify
  <2>3. matchesPattern(n, Classify(p)) <=> HasPrefix(n, SubSeq(p, 1, Len(p) - 1))
    BY <2>2 DEF matchesPattern
  <2>. QED  BY <1>0, <1>4, <2>1, <2>3, PrefixMatches, Zenon
<1>5. CASE p[1] # Star /\ p[L] # Star
  <2>1. Classify(p) = [type |-> "wildcard", pattern |-> p]
    BY <1>5, Zenon DEF Classify
  <2>. QED  BY <2>1 DEF matchesPattern, RegexpMatches
<1>. QED  BY <1>2, <1>3, <1>4, <1>5, Zenon

-----------------------------------------------------------------------------
(* The routes of a configuration *)

\* The table has a route for p
InTable(p) ==
  IF p = <<Star>> THEN table.wildcardRoute = <<Star>>
  ELSE IF Stars(p) # {}
  THEN \E i \in DOMAIN table.patternRoutes :
         table.patternRoutes[i].pr = Classify(NormalizeDatabaseName(p))
  ELSE NormalizeDatabaseName(p) \in DOMAIN table.routes

\* What AddRoute makes of the configured patterns
Entries == {[pr |-> Classify(NormalizeDatabaseName(p)), config |-> p] :
              p \in {q \in config : Stars(q) # {} /\ q # <<Star>>}}

\* Every route is one of the configuration
FromConfig ==
  /\ DOMAIN table = {"routes", "patternRoutes", "wildcardRoute"}
  /\ \A n \in DOMAIN table.routes :
       table.routes[n] \in config /\ NormalizeDatabaseName(table.routes[n]) = n
  /\ table.patternRoutes \in Seq(Entries)
  /\ table.wildcardRoute = NoRoute \/ (table.wildcardRoute = <<Star>> /\ <<Star>> \in config)

\* While the routes are added, each configured name has its route or is the
\* same in lower case as one whose route is still to be added
StartInv ==
  /\ config \subseteq Patterns
  /\ phase \in {"validating", "starting"} =>
       /\ pending \subseteq config
       /\ FromConfig
       /\ \A p \in config : InTable(p) \/ \E q \in pending : Same(p, q)

LEMMA PatternsAreWords == Patterns \subseteq Seq(Words) /\ Names \subseteq Seq(Words)
<1>1. ASSUME NEW S, NEW T, NEW p \in Seq(S), S \subseteq T PROVE p \in Seq(T)
  <2>1. Len(p) \in Nat /\ p = [i \in 1 .. Len(p) |-> p[i]] /\ \A i \in 1 .. Len(p) : p[i] \in T
    BY <1>1
  <2>. QED  BY <2>1
<1>2. STRING \subseteq Words
  BY Zenon DEF Words
<1>. QED  BY <1>1, <1>2, RouterAssumption, Zenon

\* A route that is added is in the table, with those that were there.
LEMMA AddKeeps ==
  ASSUME FromConfig, NEW p \in config, config \subseteq Patterns, config' = config,
         table' = AddTo(table, p, p)
  PROVE  FromConfig' /\ InTable(p)' /\ \A q \in Patterns : InTable(q) => InTable(q)'
<1>. DEFINE n == NormalizeDatabaseName(p)
            e == [pr |-> Classify(n), config |-> p]
<1>0. Entries' = Entries
  BY Zenon DEF Entries
<1>1. (n = <<Star>> <=> p = <<Star>>) /\ Stars(n) = Stars(p)
  BY PatternsAreWords, NormalizeKeeps, Zenon
<1>2. CASE p = <<Star>>
  <2>1. table' = [table EXCEPT !.wildcardRoute = p]
    BY <1>1, <1>2, Zenon DEF AddTo
  <2>2. /\ DOMAIN table' = DOMAIN table /\ table'.wildcardRoute = p
        /\ table'.routes = table.routes /\ table'.patternRoutes = table.patternRoutes
    BY <2>1 DEF FromConfig
  <2>. QED  BY <1>0, <1>2, <2>2, Zenon DEF FromConfig, InTable
<1>3. CASE p # <<Star>> /\ Stars(p) # {}
  <2>1. table' = [table EXCEPT !.patternRoutes = Append(@, e)]
    BY <1>1, <1>3, Zenon DEF AddTo
  <2>. HIDE DEF n, e
  <2>2. /\ DOMAIN table' = DOMAIN table /\ table'.wildcardRoute = table.wildcardRoute
        /\ table'.routes = table.routes /\ table'.patternRoutes = Append(table.patternRoutes, e)
    BY <2>1 DEF FromConfig
  <2>3. e \in Entries /\ e.pr = Classify(n)
    <3>1. e \in Entries
      BY <1>3, Zenon DEF Entries, e, n
    <3>. QED  BY <3>1 DEF e
  <2>4. /\ table'.patternRoutes \in Seq(Entries)
        /\ \E i \in DOMAIN table'.patternRoutes : table'.patternRoutes[i] = e
        /\ \A i \in DOMAIN table.patternRoutes :
             i \in DOMAIN table'.patternRoutes /\ table'.patternRoutes[i] = table.patternRoutes[i]
    BY <2>2, <2>3 DEF FromConfig
  <2>5. FromConfig'
    BY <1>0, <2>2, <2>4, Zenon DEF FromConfig
  <2>6. InTable(p)'
    BY <1>3, <2>3, <2>4, Zenon DEF InTable, n
  <2>7. ASSUME NEW q \in Patterns, InTable(q) PROVE InTable(q)'
    BY <2>2, <2>4, <2>7, Zenon DEF InTable
  <2>. QED  BY <2>5, <2>6, <2>7
<1>4. CASE p # <<Star>> /\ Stars(p) = {}
  <2>. DEFINE rs == [m \in DOMAIN table.routes \cup {n} |-> IF m = n THEN p ELSE table.routes[m]]
  <2>1. table' = [table EXCEPT !.routes = rs]
    BY <1>1, <1>4, Zenon DEF AddTo
  <2>2. /\ DOMAIN rs = DOMAIN table.routes \cup {n} /\ rs[n] = p
        /\ \A m \in DOMAIN table.routes : m # n => rs[m] = table.routes[m]
    BY Zenon
  <2>. HIDE DEF rs
  <2>3. /\ DOMAIN table' = DOMAIN table /\ table'.wildcardRoute = table.wildcardRoute
        /\ table'.routes = rs /\ table'.patternRoutes = table.patternRoutes
    BY <2>1 DEF FromConfig
  <2>. HIDE DEF n
  <2>4. \A m \in DOMAIN rs : rs[m] \in config /\ NormalizeDatabaseName(rs[m]) = m
    BY <2>2, Zenon DEF FromConfig, n
  <2>5. FromConfig'
    BY <1>0, <2>3, <2>4, Zenon DEF FromConfig
  <2>6. InTable(p)'
    BY <1>4, <2>2, <2>3, Zenon DEF InTable, n
  <2>7. ASSUME NEW q \in Patterns, InTable(q) PROVE InTable(q)'
    BY <2>2, <2>3, <2>7, Zenon DEF InTable
  <2>. QED  BY <2>5, <2>6, <2>7
<1>. QED  BY <1>2, <1>3, <1>4, Zenon

\* The router begins without a route.
LEMMA InitStart == ASSUME Init PROVE StartInv
<1>1. FromConfig
  BY DEF Init, FromConfig
<1>2. \A p \in config : Same(p, p)
  BY Zenon DEF Same
<1>. QED  BY <1>1, <1>2, Zenon DEF Init, StartInv

\* Only the loop over the databases changes the table before requests come.
LEMMA StartStep ==
  ASSUME RouterInv, StartInv, [Next]_vars
  PROVE  StartInv'
<1>0. config \subseteq Patterns
  BY Zenon DEF StartInv
<1>1. CASE UNCHANGED <<config, pending, table>> /\ (phase' = phase \/ phase' = "serving")
  <2>1. FromConfig' <=> FromConfig
    BY <1>1, Zenon DEF FromConfig, Entries
  <2>2. \A p : InTable(p)' <=> InTable(p)
    BY <1>1, Zenon DEF InTable
  <2>. QED  BY <1>1, <2>1, <2>2, Zenon DEF StartInv
<1>2. CASE phase' \notin {"validating", "starting"} /\ UNCHANGED config
  BY <1>0, <1>2, Zenon DEF StartInv
<1>3. CASE Validate
  <2>1. /\ phase = "validating" /\ UNCHANGED <<config, table>>
        /\ phase' = "refused" \/ (pending' \subseteq config
                                  /\ \A p \in config : \E q \in pending' : Same(p, q))
    BY <1>3 DEF Validate
  <2>2. FromConfig' <=> FromConfig
    BY <2>1, Zenon DEF FromConfig, Entries
  <2>. QED  BY <1>0, <2>1, <2>2, Zenon DEF StartInv
<1>4. CASE \E p \in Patterns : Start(p)
  <2>1. PICK p \in Patterns : Start(p)
    BY <1>4
  <2>2. /\ phase = "starting" /\ p \in pending /\ table' = AddTo(table, p, p)
        /\ pending' = pending \ {p} /\ UNCHANGED <<phase, config>>
    BY <2>1, Zenon DEF Start
  <2>3. p \in config /\ FromConfig
    BY <2>2, Zenon DEF StartInv
  <2>4. FromConfig' /\ InTable(p)' /\ \A q \in Patterns : InTable(q) => InTable(q)'
    BY <1>0, <2>2, <2>3, AddKeeps, Zenon
  <2>5. ASSUME NEW q \in config PROVE InTable(q)' \/ \E k \in pending' : Same(q, k)
    <3>1. CASE InTable(q)
      BY <1>0, <2>4, <3>1, Zenon
    <3>2. CASE \E k \in pending : k # p /\ Same(q, k)
      BY <2>2, <3>2, Zenon
    <3>3. CASE Same(q, p)
      <4>1. ASSUME NEW x \in Patterns, NEW y \in Patterns, Same(x, y) PROVE InTable(y)' => InTable(x)'
        <5>1. /\ x \in Seq(Words) /\ y \in Seq(Words)
              /\ NormalizeDatabaseName(x) = NormalizeDatabaseName(y)
          BY <4>1, PatternsAreWords, Zenon DEF Same
        <5>2. (x = <<Star>> <=> y = <<Star>>) /\ Stars(x) = Stars(y)
          BY <5>1, NormalizeKeeps, Zenon
        <5>. QED  BY <5>1, <5>2, Zenon DEF InTable
      <4>. QED  BY <1>0, <2>3, <2>4, <3>3, <4>1, Zenon
    <3>. QED  BY <2>2, <3>1, <3>2, <3>3, Zenon DEF StartInv
  <2>. QED  BY <1>0, <2>2, <2>4, <2>5, Zenon DEF StartInv
<1>5. CASE Change
  <2>1. phase = "serving"
    BY <1>5, Zenon DEF Change, RouterInv, NotYet
  <2>. QED  BY <1>2, <1>5, <2>1, Zenon DEF Change
<1>6. CASE UNCHANGED vars \/ Serve \/ Refused
  BY <1>1, <1>6, Zenon DEF vars, Serve, Refused
<1>7. CASE \E w \in Writing : Lock(w)
  BY <1>1, <1>7, Zenon DEF Lock
<1>8. CASE \E g \in Callers : \/ Call(g) \/ LookInCache(g) \/ LookInTable(g)
                             \/ CacheRoute(g) \/ Return(g)
  BY <1>1, <1>8, Zenon DEF Call, LookInCache, LookInTable, CacheRoute, Return
<1>9. CASE \E n \in Normalized : CacheDrops(n)
  BY <1>1, <1>9, Zenon DEF CacheDrops
<1>. QED  BY <1>3, <1>4, <1>5, <1>6, <1>7, <1>8, <1>9, Zenon DEF Next

\* A name without a star is routed to what the configuration says of it.
LEMMA ResolvesAsConfigured ==
  ASSUME FromConfig, config \subseteq Patterns, \A p \in config : InTable(p) /\ PlainPattern(p),
         NEW n \in Seq(Words), Stars(n) = {}
  PROVE  Resolve(table, n) \in Configured(n)
<1>. DEFINE N(p) == NormalizeDatabaseName(p)
            pr(i) == table.patternRoutes[i]
            exact == {p \in config : N(p) = n}
            globs == {p \in config \ {<<Star>>} : Stars(p) # {} /\ Glob(N(p), n)}
            hits == {i \in DOMAIN table.patternRoutes : matchesPattern(n, pr(i).pr)}
            first == CHOOSE i \in hits : \A k \in hits : i <= k
<1>1. \A p \in config : /\ p \in Patterns /\ N(p) \in Seq(Words)
                        /\ Stars(N(p)) = Stars(p) /\ (N(p) = <<Star>> <=> p = <<Star>>)
                        /\ PlainPattern(N(p))
  <2>1. \A p \in config : /\ p \in Patterns /\ N(p) \in Seq(Words) /\ Len(N(p)) = Len(p)
                          /\ Stars(N(p)) = Stars(p) /\ (N(p) = <<Star>> <=> p = <<Star>>)
    BY PatternsAreWords, NormalizeKeeps, Zenon
  <2>2. ASSUME NEW p \in config PROVE PlainPattern(N(p))
    <3>. DEFINE q == N(p)
    <3>1. p \in Seq(Words) /\ q \in Seq(Words) /\ Len(q) = Len(p) /\ Stars(q) = Stars(p)
      BY <2>1, PatternsAreWords, Zenon
    <3>. HIDE DEF q
    <3>2. (\E i \in Stars(q) : 1 < i /\ i < Len(q)) => Len(p) \in Nat /\ 1 <= Len(p)
      BY <3>1 DEF Stars
    <3>3. \A i \in 1 .. Len(p) : q[i] = Star <=> p[i] = Star
      BY <3>1 DEF Stars
    <3>4. (\E i \in Stars(q) : 1 < i /\ i < Len(q)) => q[1] # Star /\ q[Len(q)] # Star
      BY <3>1, <3>2, <3>3 DEF PlainPattern
    <3>. QED  BY <3>4, Zenon DEF PlainPattern, q
  <2>. QED  BY <2>1, <2>2, Zenon
<1>2. \A p \in config : Stars(p) # {} /\ p # <<Star>> =>
        (matchesPattern(n, Classify(N(p))) <=> Glob(N(p), n))
  BY <1>1, ClassifyMatches, Zenon
<1>. HIDE DEF N
<1>3. Stars(<<Star>>) # {}
  BY DEF Stars
<1>4. n \in DOMAIN table.routes <=> exact # {}
  <2>1. ASSUME NEW p \in config, N(p) = n PROVE n \in DOMAIN table.routes
    <3>1. Stars(p) = {} /\ p # <<Star>>
      BY <1>1, <1>3, <2>1, Zenon
    <3>. QED  BY <2>1, <3>1, Zenon DEF InTable, N
  <2>2. ASSUME n \in DOMAIN table.routes PROVE table.routes[n] \in exact
    BY <2>2, Zenon DEF FromConfig, N
  <2>. QED  BY <2>1, <2>2, Zenon
<1>5. \A i \in DOMAIN table.patternRoutes :
        /\ pr(i).config \in config /\ Stars(pr(i).config) # {} /\ pr(i).config # <<Star>>
        /\ pr(i).pr = Classify(N(pr(i).config))
  <2>1. \A i \in DOMAIN table.patternRoutes : pr(i) \in Entries
    BY DEF FromConfig
  <2>2. ASSUME NEW e \in Entries
        PROVE  /\ e.config \in config /\ Stars(e.config) # {} /\ e.config # <<Star>>
               /\ e.pr = Classify(N(e.config))
    <3>1. PICK p \in config : /\ Stars(p) # {} /\ p # <<Star>>
                              /\ e = [pr |-> Classify(N(p)), config |-> p]
      BY Zenon DEF Entries, N
    <3>2. e.pr = Classify(N(p)) /\ e.config = p
      BY <3>1, Zenon
    <3>. QED  BY <3>1, <3>2, Zenon
  <2>. QED  BY <2>1, <2>2, Zenon
<1>6. \A i \in hits : pr(i).config \in globs
  BY <1>2, <1>5, Zenon
<1>7. ASSUME NEW p \in globs PROVE hits # {}
  <2>1. /\ p \in config /\ Stars(p) # {} /\ p # <<Star>> /\ Glob(N(p), n)
        /\ matchesPattern(n, Classify(N(p)))
    BY <1>2, Zenon
  <2>2. PICK i \in DOMAIN table.patternRoutes : pr(i).pr = Classify(N(p))
    BY <2>1, Zenon DEF InTable, N
  <2>. QED  BY <2>1, <2>2, Zenon
<1>8. hits # {} => first \in hits
  <2>1. hits \subseteq Nat
    BY DEF FromConfig
  <2>. HIDE DEF hits
  <2>. QED  BY <2>1, LeastNat, Zenon
<1>9. table.wildcardRoute = IF <<Star>> \in config THEN <<Star>> ELSE NoRoute
  BY Zenon DEF FromConfig, InTable
<1>10. Resolve(table, n) = IF n \in DOMAIN table.routes THEN table.routes[n]
                           ELSE IF hits # {} THEN pr(first).config ELSE table.wildcardRoute
  BY Zenon DEF Resolve
<1>11. Configured(n) = IF exact # {} THEN exact ELSE IF globs # {} THEN globs
                       ELSE IF <<Star>> \in config THEN {<<Star>>} ELSE {NoRoute}
  BY Zenon DEF Configured, N
<1>12. n \in DOMAIN table.routes => table.routes[n] \in exact
  BY Zenon DEF FromConfig, N
<1>. HIDE DEF hits, exact, globs, first, pr
<1>13. CASE n \in DOMAIN table.routes
  <2>1. Configured(n) = exact
    BY <1>4, <1>11, <1>13, Zenon
  <2>2. Resolve(table, n) = table.routes[n]
    BY <1>10, <1>13, Zenon
  <2>. QED  BY <1>12, <1>13, <2>1, <2>2, Zenon
<1>14. CASE n \notin DOMAIN table.routes /\ hits # {}
  <2>1. pr(first).config \in globs
    BY <1>6, <1>8, <1>14, Zenon
  <2>2. Resolve(table, n) = pr(first).config
    BY <1>10, <1>14, Zenon
  <2>3. Configured(n) = globs
    BY <1>4, <1>11, <1>14, <2>1, Zenon
  <2>. QED  BY <2>1, <2>2, <2>3, Zenon
<1>15. CASE n \notin DOMAIN table.routes /\ hits = {}
  <2>1. Resolve(table, n) = table.wildcardRoute
    BY <1>10, <1>15, Zenon
  <2>2. Configured(n) = IF <<Star>> \in config THEN {<<Star>>} ELSE {NoRoute}
    BY <1>4, <1>7, <1>11, <1>15, Zenon
  <2>. QED  BY <1>9, <2>1, <2>2, Zenon
<1>. QED  BY <1>13, <1>14, <1>15, Zenon

\* The names patternsConflict tries have no star.
LEMMA TestNamesPlain == \A n \in TestNames : n \in Seq(Words) /\ Stars(n) = {}
<1>. DEFINE E == {"test", "prod", "staging", "dev"}
<1>0. {"app", "db", "_", "my"} \cup E \subseteq Words
  BY Zenon DEF Words
<1>1. ASSUME NEW w \in Words, NEW x \in Words, NEW y \in Words, NEW z \in Words,
             w # Star, x # Star, y # Star, z # Star
      PROVE  /\ <<w>> \in Seq(Words) /\ Stars(<<w>>) = {}
             /\ <<w, x, y>> \in Seq(Words) /\ Stars(<<w, x, y>>) = {}
             /\ <<w, x, y, z>> \in Seq(Words) /\ Stars(<<w, x, y, z>>) = {}
  <2>1. <<w>> \in Seq(Words) /\ <<w, x, y>> \in Seq(Words) /\ <<w, x, y, z>> \in Seq(Words)
    OBVIOUS
  <2>2. Stars(<<w>>) = {}
    BY <1>1 DEF Stars
  <2>3. Stars(<<w, x, y>>) = {}
    BY <1>1 DEF Stars
  <2>4. Stars(<<w, x, y, z>>) = {}
    BY <1>1 DEF Stars
  <2>. QED  BY <2>1, <2>2, <2>3, <2>4, Zenon
<1>2. \A e \in {"app", "db", "_", "my"} \cup E : e # Star
  BY Zenon DEF Star
<1>3. \A n \in TestNames : \E e \in E :
        n \in {<<e>>, <<e, "_", "db">>, <<"app", "_", e>>, <<e, "_", "app">>, <<"my", "app", "_", e>>}
  BY Zenon DEF TestNames
<1>4. {"app", "db", "_", "my"} \subseteq Words
  BY <1>0, Zenon
<1>5. ASSUME NEW e \in E
      PROVE  \A n \in {<<e>>, <<e, "_", "db">>, <<"app", "_", e>>, <<e, "_", "app">>,
                       <<"my", "app", "_", e>>} : n \in Seq(Words) /\ Stars(n) = {}
  <2>1. e \in Words /\ e # Star
    BY <1>0, <1>2, Zenon
  <2>2. /\ "app" \in Words /\ "db" \in Words /\ "_" \in Words /\ "my" \in Words
        /\ "app" # Star /\ "db" # Star /\ "_" # Star /\ "my" # Star
    BY <1>2, <1>4, Zenon
  <2>3. <<e>> \in Seq(Words) /\ Stars(<<e>>) = {}
    BY <1>1, <2>1, Zenon
  <2>4. /\ <<e, "_", "db">> \in Seq(Words) /\ Stars(<<e, "_", "db">>) = {}
        /\ <<"app", "_", e>> \in Seq(Words) /\ Stars(<<"app", "_", e>>) = {}
        /\ <<e, "_", "app">> \in Seq(Words) /\ Stars(<<e, "_", "app">>) = {}
    BY <1>1, <2>1, <2>2, Zenon
  <2>5. <<"my", "app", "_", e>> \in Seq(Words) /\ Stars(<<"my", "app", "_", e>>) = {}
    BY <1>1, <2>1, <2>2, Zenon
  <2>. QED  BY <2>3, <2>4, <2>5, Zenon
<1>. HIDE DEF E
<1>. QED  BY <1>3, <1>5, Zenon

\* Whatever names are configured and in whatever order their routes are added,
\* a name without a star gets a route that the configuration has for it: the
\* exact one, else one of a pattern that stands for it, else the wildcard.  The
\* patterns are those that have no star inside beside one at an end, where
\* AddRoute takes the star inside for a letter of the name.
THEOREM ConfigurationsRouted ==
  ASSUME \A p \in Patterns : PlainPattern(p), \A n \in Names : Stars(n) = {}
  PROVE  Spec => []RoutedAsConfigured
<1>1. ASSUME StartInv PROVE RoutedAsConfigured
  <2>. SUFFICES ASSUME phase = "starting", pending = {}, NEW n \in Normalized \cup TestNames
                PROVE  Resolve(table, n) \in Configured(n)
    BY Zenon DEF RoutedAsConfigured
  <2>1. n \in Seq(Words) /\ Stars(n) = {}
    <3>1. ASSUME NEW m \in Names
          PROVE  NormalizeDatabaseName(m) \in Seq(Words) /\ Stars(NormalizeDatabaseName(m)) = {}
      BY PatternsAreWords, NormalizeKeeps, Zenon
    <3>. QED  BY <3>1, TestNamesPlain, Zenon DEF Normalized
  <2>2. FromConfig /\ config \subseteq Patterns /\ \A p \in config : InTable(p) /\ PlainPattern(p)
    BY <1>1, Zenon DEF StartInv
  <2>. QED  BY <2>1, <2>2, ResolvesAsConfigured, Zenon
<1>. QED  BY <1>1, InitStart, StartStep, RouterInvariance, PTL DEF Spec
=============================================================================
